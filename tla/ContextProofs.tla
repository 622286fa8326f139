---------------------------- MODULE ContextProofs ----------------------------
(***************************************************************************)
(* Proofs about requests for context, for any knowledge bases, questions,  *)
(* ontologies and answers of the servers.                                  *)
(***************************************************************************)
EXTENDS ContextProperties, FiniteSetTheorems, SequenceTheorems, WellFoundedInduction, TLAPS

(***************************************************************************)
(* Sequences and finite sets                                               *)
(***************************************************************************)

(* A set of naturals that is not empty has a least member.                 *)
LEMMA LeastExists ==
  ASSUME NEW S \in SUBSET Nat, S # {}
  PROVE  \E i \in S : \A j \in S : i <= j
<1>1. PICK i \in S : \A j \in S : ~(<<j, i>> \in OpToRel(<, Nat))
  BY NatLessThanWellFounded, WFMin, Zenon
<1>2. \A j \in S : ~(j < i)
  BY <1>1 DEF OpToRel
<1> QED BY <1>2

(* The values of two sequences, one after the other.                       *)
LEMMA ConcatRange ==
  ASSUME NEW S, NEW s \in Seq(S), NEW t \in Seq(S)
  PROVE  Range(s \o t) = Range(s) \cup Range(t)
<1>1. /\ s \o t \in Seq(S)
      /\ Len(s \o t) = Len(s) + Len(t)
      /\ \A i \in 1..(Len(s) + Len(t)) :
           (s \o t)[i] = IF i <= Len(s) THEN s[i] ELSE t[i - Len(s)]
  BY ConcatProperties
<1>2. /\ Len(s) \in Nat /\ DOMAIN s = 1..Len(s)
      /\ Len(t) \in Nat /\ DOMAIN t = 1..Len(t)
      /\ DOMAIN (s \o t) = 1..(Len(s) + Len(t))
  BY <1>1, LenProperties
<1>3. ASSUME NEW i \in DOMAIN (s \o t)
      PROVE  (s \o t)[i] \in Range(s) \cup Range(t)
  <2>1. CASE i <= Len(s)
    BY <1>1, <1>2, <2>1 DEF Range
  <2>2. CASE ~(i <= Len(s))
    <3>1. i - Len(s) \in DOMAIN t
      BY <1>2, <2>2
    <3> QED BY <1>1, <1>2, <2>2, <3>1 DEF Range
  <2> QED BY <2>1, <2>2
<1>4. ASSUME NEW i \in DOMAIN s
      PROVE  s[i] \in Range(s \o t)
  <2>1. i \in DOMAIN (s \o t) /\ (s \o t)[i] = s[i]
    BY <1>1, <1>2
  <2> QED BY <2>1 DEF Range
<1>5. ASSUME NEW i \in DOMAIN t
      PROVE  t[i] \in Range(s \o t)
  <2>1. i + Len(s) \in DOMAIN (s \o t) /\ ~(i + Len(s) <= Len(s)) /\ (i + Len(s)) - Len(s) = i
    BY <1>2
  <2>2. (s \o t)[i + Len(s)] = t[i]
    BY <1>1, <1>2, <2>1
  <2> QED BY <2>1, <2>2 DEF Range
<1> QED BY <1>3, <1>4, <1>5 DEF Range

(* The function that FlattenSeq is computed by, on the first n sequences.  *)
Flattens(f, ss, n) ==
  f = [i \in 1..n |-> IF i = 1 THEN ss[i] ELSE f[i - 1] \o ss[i]]

LEMMA FlattensExists ==
  ASSUME NEW ss, NEW n \in Nat
  PROVE  \E f : Flattens(f, ss, n)
<1> DEFINE Bad == {m \in Nat : ~\E f : Flattens(f, ss, m)}
<1>1. SUFFICES ASSUME Bad # {} PROVE FALSE
  OBVIOUS
<1>2. PICK m \in Bad : \A k \in Bad : m <= k
  BY <1>1, LeastExists
<1>3. m \in Nat /\ ~\E f : Flattens(f, ss, m)
  BY <1>2
<1>4. CASE m = 0
  <2> DEFINE z == [i \in 1..0 |-> IF i = 1 THEN ss[i] ELSE ss[i]]
  <2>1. z = [i \in 1..0 |-> IF i = 1 THEN ss[i] ELSE z[i - 1] \o ss[i]]
    OBVIOUS
  <2> QED BY <1>3, <1>4, <2>1 DEF Flattens
<1>5. CASE m > 0
  <2>1. m - 1 \in Nat /\ m - 1 \notin Bad
    BY <1>2, <1>5
  <2>2. PICK f : Flattens(f, ss, m - 1)
    BY <2>1
  <2> DEFINE g == [i \in 1..m |-> IF i = 1 THEN ss[i] ELSE f[i - 1] \o ss[i]]
  <2>3. \A i \in 1..(m - 1) : f[i] = IF i = 1 THEN ss[i] ELSE f[i - 1] \o ss[i]
    BY <2>2 DEF Flattens
  <2>4. \A i \in 1..(m - 1) : g[i] = f[i]
    BY <2>1, <2>3
  <2>5. \A i \in 1..m : i # 1 => g[i - 1] = f[i - 1]
    <3>1. \A i \in 1..m : i # 1 => i - 1 \in 1..(m - 1)
      BY <2>1
    <3> HIDE DEF g
    <3> QED BY <2>4, <3>1
  <2>6. \A i \in 1..m : g[i] = IF i = 1 THEN ss[i] ELSE g[i - 1] \o ss[i]
    BY <2>5
  <2>7. g = [i \in 1..m |-> IF i = 1 THEN ss[i] ELSE g[i - 1] \o ss[i]]
    BY <2>5, Zenon
  <2> QED BY <1>3, <2>7 DEF Flattens
<1> QED BY <1>3, <1>4, <1>5

(* Flattening sequences gives a sequence of what they hold.                *)
LEMMA FlattenRange ==
  ASSUME NEW S, NEW ss \in Seq(Seq(S))
  PROVE  /\ FlattenSeq(ss) \in Seq(S)
         /\ Range(FlattenSeq(ss)) = UNION {Range(ss[i]) : i \in DOMAIN ss}
<1>1. Len(ss) \in Nat /\ DOMAIN ss = 1..Len(ss) /\ \A i \in 1..Len(ss) : ss[i] \in Seq(S)
  BY LenProperties, ElementOfSeq
<1>2. CASE Len(ss) = 0
  <2>1. ss = <<>>
    BY <1>2, EmptySeq
  <2>2. FlattenSeq(ss) = <<>>
    BY <1>2, <2>1 DEF FlattenSeq
  <2>3. DOMAIN ss = {} /\ <<>> \in Seq(S)
    BY <1>1, <1>2, EmptySeq
  <2> QED BY <2>1, <2>2, <2>3 DEF Range
<1>3. CASE Len(ss) # 0
  <2> DEFINE f == CHOOSE f : Flattens(f, ss, Len(ss))
             UpTo(i) == UNION {Range(ss[j]) : j \in 1..i}
             Good(i) == f[i] \in Seq(S) /\ Range(f[i]) = UpTo(i)
  <2>1. FlattenSeq(ss) = f[Len(ss)]
    BY <1>3 DEF FlattenSeq, Flattens
  <2>2. Flattens(f, ss, Len(ss))
    BY <1>1, FlattensExists
  <2> HIDE DEF f
  <2>3. \A i \in 1..Len(ss) : f[i] = IF i = 1 THEN ss[i] ELSE f[i - 1] \o ss[i]
    BY <2>2 DEF Flattens
  <2> DEFINE Bad == {i \in 1..Len(ss) : ~Good(i)}
  <2>4. Bad = {}
    <3>1. SUFFICES ASSUME Bad # {} PROVE FALSE
      OBVIOUS
    <3>2. Bad \in SUBSET Nat
      BY <1>1
    <3>3. PICK m \in Bad : \A k \in Bad : m <= k
      BY <3>1, <3>2, LeastExists
    <3>4. m \in 1..Len(ss) /\ ~Good(m)
      BY <3>3
    <3>5. CASE m = 1
      <4>1. f[m] = ss[m] /\ ss[m] \in Seq(S)
        BY <1>1, <2>3, <3>4, <3>5
      <4>2. UpTo(m) = Range(ss[m])
        BY <3>5
      <4> QED BY <3>4, <4>1, <4>2
    <3>6. CASE m # 1
      <4>1. m \in Nat /\ m - 1 \in 1..Len(ss) /\ ~(m <= m - 1)
        BY <1>1, <3>4, <3>6
      <4>2. Good(m - 1)
        <5> HIDE DEF Good
        <5> QED BY <3>3, <4>1
      <4>3. f[m] = f[m - 1] \o ss[m] /\ ss[m] \in Seq(S)
        BY <1>1, <2>3, <3>4, <3>6
      <4>4. f[m] \in Seq(S)
        BY <4>2, <4>3, ConcatProperties
      <4>5. Range(f[m]) = Range(f[m - 1]) \cup Range(ss[m])
        BY <4>2, <4>3, ConcatRange
      <4>6. 1..m = (1..(m - 1)) \cup {m}
        BY <1>1, <3>4
      <4>7. UpTo(m) = UpTo(m - 1) \cup Range(ss[m])
        BY <4>6
      <4> QED BY <3>4, <4>2, <4>4, <4>5, <4>7
    <3> QED BY <3>5, <3>6
  <2>5. Good(Len(ss))
    <3>1. Len(ss) \in 1..Len(ss)
      BY <1>1, <1>3
    <3> HIDE DEF Good
    <3> QED BY <2>4, <3>1
  <2> QED BY <1>1, <2>1, <2>5
<1> QED BY <1>2, <1>3

(* The elements of a finite set can be enumerated, each one once.          *)
LEMMA EnumerationIsExact ==
  ASSUME NEW S, IsFiniteSet(S)
  PROVE  /\ SetToSeq(S) \in Seq(S)
         /\ Len(SetToSeq(S)) = Cardinality(S)
         /\ Range(SetToSeq(S)) = S
<1> DEFINE s == SetToSeq(S)
<1>1. Cardinality(S) \in Nat /\ ExistsBijection(1..Cardinality(S), S)
  BY FS_CardinalityType
<1>2. \E f \in [1..Cardinality(S) -> S] : IsInjective(f)
  BY <1>1 DEF ExistsBijection, Bijection, Injection
<1>3. s \in [1..Cardinality(S) -> S] /\ IsInjective(s)
  BY <1>2 DEF SetToSeq
<1>4. s \in Injection(1..Cardinality(S), S)
  BY <1>3 DEF Injection
<1>5. Cardinality(1..Cardinality(S)) = Cardinality(S)
  BY <1>1, FS_Interval
<1>6. s \in Surjection(1..Cardinality(S), S)
  BY <1>4, <1>5, FS_Injection
<1>7. Range(s) = S
  BY <1>3, <1>6 DEF Range, Surjection
<1> HIDE DEF s
<1>8. s \in Seq(S) /\ Len(s) = Cardinality(S)
  BY <1>1, <1>3
<1> QED BY <1>7, <1>8 DEF s

(***************************************************************************)
(* The arbiter                                                             *)
(***************************************************************************)

(* Among finitely many facts there is a first of the best.                 *)
LEMMA FirstBestExists ==
  ASSUME NEW s, NEW n \in Nat, NEW I \in SUBSET (1..n), I # {},
         \A i \in I : Score(s[i]) \in Int
  PROVE  /\ FirstBest(s, I) \in I
         /\ \A j \in I : Score(s[j]) <= Score(s[FirstBest(s, I)])
<1> DEFINE Before(m) == {i \in I : i <= m}
           Leads(b, m) == /\ b \in Before(m)
                          /\ \A j \in Before(m) :
                               /\ Score(s[j]) <= Score(s[b])
                               /\ j < b => Score(s[j]) < Score(s[b])
           Bad == {m \in 0..n : Before(m) # {} /\ ~\E b : Leads(b, m)}
<1>1. Bad = {}
  <2>1. SUFFICES ASSUME Bad # {} PROVE FALSE
    OBVIOUS
  <2>2. Bad \in SUBSET Nat
    OBVIOUS
  <2>3. PICK m \in Bad : \A k \in Bad : m <= k
    BY <2>1, <2>2, LeastExists
  <2>4. m \in 0..n /\ Before(m) # {} /\ ~\E b : Leads(b, m)
    BY <2>3
  <2>5. m # 0
    <3>1. \A i \in I : ~(i <= 0)
      OBVIOUS
    <3>2. Before(0) = {}
      BY <3>1
    <3> HIDE DEF Before
    <3> QED BY <2>4, <3>2
  <2>6. m - 1 \in 0..n /\ ~(m <= m - 1)
    BY <2>4, <2>5
  <2>7. Before(m - 1) = {} \/ \E b : Leads(b, m - 1)
    <3> HIDE DEF Leads, Before
    <3> QED BY <2>3, <2>6
  <2>8. Before(m) = Before(m - 1) \cup ({m} \cap I)
    <3>1. \A i \in I : i <= m <=> (i <= m - 1 \/ i = m)
      BY <2>4
    <3> QED BY <3>1
  <2>9. m \in I
    <3>1. SUFFICES ASSUME m \notin I PROVE FALSE
      OBVIOUS
    <3>2. Before(m) = Before(m - 1)
      BY <2>8, <3>1
    <3> HIDE DEF Before
    <3> QED BY <2>4, <2>7, <3>2
  <2>10. CASE Before(m - 1) = {}
    <3>1. Before(m) = {m} /\ Score(s[m]) \in Int
      BY <2>8, <2>9, <2>10
    <3>2. Leads(m, m)
      <4> HIDE DEF Before
      <4> QED BY <2>4, <3>1
    <3> QED BY <2>4, <3>2
  <2>11. CASE \E b : Leads(b, m - 1)
    <3>1. PICK b : Leads(b, m - 1)
      BY <2>11
    <3>2. b \in I /\ b \in Nat /\ b < m /\ Score(s[b]) \in Int /\ Score(s[m]) \in Int
      BY <2>4, <2>9, <3>1
    <3>3. \A j \in Before(m) : j = m \/ (j \in Before(m - 1) /\ j < m)
      BY <2>4, <2>8
    <3>4. \A j \in Before(m) : Score(s[j]) \in Int
      OBVIOUS
    <3>5. b \in Before(m) /\ m \in Before(m)
      BY <2>8, <2>9, <3>1
    <3> HIDE DEF Before
    <3>6. CASE Score(s[b]) < Score(s[m])
      <4>1. Leads(m, m)
        BY <2>4, <3>1, <3>2, <3>3, <3>4, <3>5, <3>6
      <4> QED BY <2>4, <4>1
    <3>7. CASE ~(Score(s[b]) < Score(s[m]))
      <4>1. Leads(b, m)
        BY <2>4, <3>1, <3>2, <3>3, <3>4, <3>5, <3>7
      <4> QED BY <2>4, <4>1
    <3> QED BY <3>6, <3>7
  <2> QED BY <2>7, <2>10, <2>11
<1>2. Before(n) = I
  <2>1. \A i \in I : i <= n
    OBVIOUS
  <2> QED BY <2>1
<1>3. \E b : Leads(b, n)
  <2> HIDE DEF Before, Leads
  <2>1. n \in 0..n
    OBVIOUS
  <2> QED BY <1>1, <1>2, <2>1
<1>4. \E b \in I : \A j \in I : /\ Score(s[j]) <= Score(s[b])
                                /\ j < b => Score(s[j]) < Score(s[b])
  BY <1>2, <1>3
<1> QED BY <1>4 DEF FirstBest

(* The valid facts of a slot, the best of them, and whether another is as  *)
(* good as disputing them: none of this depends on an order.               *)
Contenders(F, slot) == {x \in F : x.slot = slot /\ x.valid}

BestOf(F, slot) ==
  {x \in Contenders(F, slot) : \A z \in Contenders(F, slot) : Score(z) <= Score(x)}

Disputed(F, slot) ==
  \E x \in BestOf(F, slot), y \in Contenders(F, slot) :
    x.value # y.value /\ Score(x) - Score(y) <= DefaultDelta

IsComparable(F) ==
  \A x, y \in F : x.slot = y.slot => ScopeCompatible(x.scope, y.scope) /\ x.supersedes = {}

(* Where facts are comparable, the verdict on a slot is what they say as a *)
(* set.                                                                    *)
LEMMA VerdictOnSlot ==
  ASSUME NEW s, IsSequence(s), \A x \in Range(s) : Score(x) \in Int,
         IsComparable(Range(s)),
         NEW slot \in {x.slot : x \in Range(s)}
  PROVE  LET v == ArbitrateSlot(s, slot) IN
         /\ v.slot = slot
         /\ v.status = "unresolved_conflict" <=> Disputed(Range(s), slot)
         /\ Disputed(Range(s), slot) => v.accepted = {}
         /\ ~Disputed(Range(s), slot) =>
              /\ \A f \in v.accepted : f \in BestOf(Range(s), slot)
              /\ \A x \in BestOf(Range(s), slot) : \E f \in v.accepted : f.value = x.value
<1> DEFINE candidates == {i \in DOMAIN s : s[i].slot = slot}
           first      == s[Min(candidates)]
           valid      == {i \in candidates : s[i].valid /\ ScopeCompatible(s[i].scope, first.scope)}
           top        == s[FirstBest(s, valid)]
           conflicts  == {i \in valid : s[i].value # top.value /\ ~IsSupersededBy(s[i], top)}
           second     == s[FirstBest(s, conflicts)]
           F          == Range(s)
           v          == ArbitrateSlot(s, slot)
<1>1. v = IF valid = {} THEN [slot |-> slot, status |-> "no_valid_assertion", accepted |-> {}]
          ELSE IF conflicts = {} THEN [slot |-> slot, status |-> "accepted", accepted |-> {top}]
          ELSE IF Score(top) - Score(second) <= DefaultDelta
          THEN [slot |-> slot, status |-> "unresolved_conflict", accepted |-> {}]
          ELSE [slot |-> slot, status |-> "accepted_with_conflict", accepted |-> {top}]
  BY DEF ArbitrateSlot
<1>2. Len(s) \in Nat /\ DOMAIN s = 1..Len(s) /\ \A i \in DOMAIN s : s[i] \in F
  BY LenProperties DEF IsSequence, Range
<1>3. first \in F /\ first.slot = slot
  <2>1. candidates # {} /\ candidates \in SUBSET Nat
    BY <1>2 DEF Range
  <2>2. \E i \in candidates : \A j \in candidates : i <= j
    BY <2>1, LeastExists
  <2>3. Min(candidates) \in candidates
    BY <2>2 DEF Min
  <2> QED BY <1>2, <2>3
<1>4. \A i \in candidates : ScopeCompatible(s[i].scope, first.scope)
  <2> HIDE DEF first
  <2> QED BY <1>2, <1>3 DEF IsComparable
<1>5. valid = {i \in DOMAIN s : s[i].slot = slot /\ s[i].valid}
  BY <1>4
<1> HIDE DEF valid, first
<1>6. Contenders(F, slot) = {s[i] : i \in valid}
  BY <1>5 DEF Contenders, Range
<1>7. /\ valid \in SUBSET (1..Len(s))
      /\ \A i \in valid : s[i] \in F /\ s[i].slot = slot /\ Score(s[i]) \in Int
  BY <1>2, <1>5
<1>8. CASE valid = {}
  <2>1. BestOf(F, slot) = {} /\ ~Disputed(F, slot)
    BY <1>6, <1>8 DEF BestOf, Disputed
  <2> QED BY <1>1, <1>8, <2>1
<1>9. CASE valid # {}
  <2>1. FirstBest(s, valid) \in valid /\ \A j \in valid : Score(s[j]) <= Score(top)
    BY <1>2, <1>7, <1>9, FirstBestExists
  <2>2. top \in F /\ top.slot = slot /\ Score(top) \in Int
    BY <1>7, <2>1
  <2>3. top \in BestOf(F, slot)
    BY <1>6, <2>1 DEF BestOf
  <2>4. \A x \in BestOf(F, slot) : Score(x) = Score(top)
    BY <1>6, <1>7, <2>1, <2>2, <2>3 DEF BestOf
  <2>5. top.supersedes = {}
    BY <2>2 DEF IsComparable
  <2> HIDE DEF top, F
  <2>6. conflicts = {i \in valid : s[i].value # top.value}
    BY <2>5 DEF IsSupersededBy
  <2> HIDE DEF conflicts
  <2>7. CASE conflicts = {}
    <3>1. \A x \in Contenders(F, slot) : x.value = top.value
      BY <1>6, <2>6, <2>7
    <3>2. ~Disputed(F, slot)
      BY <3>1 DEF Disputed, BestOf
    <3>3. v = [slot |-> slot, status |-> "accepted", accepted |-> {top}]
      BY <1>1, <1>9, <2>7
    <3> HIDE DEF v
    <3> QED BY <2>3, <3>1, <3>2, <3>3 DEF BestOf, F, v
  <2>8. CASE conflicts # {}
    <3>1. conflicts \in SUBSET (1..Len(s)) /\ \A i \in conflicts : Score(s[i]) \in Int
      BY <1>7, <2>6
    <3>2. FirstBest(s, conflicts) \in conflicts /\ \A j \in conflicts : Score(s[j]) <= Score(second)
      BY <1>2, <2>8, <3>1, FirstBestExists
    <3>3. /\ second \in Contenders(F, slot) /\ second.value # top.value
          /\ Score(second) \in Int /\ Score(second) <= Score(top)
      BY <1>6, <1>7, <2>1, <2>6, <3>2
    <3>4. \A y \in Contenders(F, slot) : y.value # top.value => Score(y) <= Score(second)
      BY <1>6, <2>6, <3>2
    <3>5. \A x \in Contenders(F, slot) : Score(x) \in Int
      BY <1>6, <1>7
    <3> HIDE DEF second
    <3>6. CASE Score(top) - Score(second) <= DefaultDelta
      <4>1. Disputed(F, slot)
        BY <2>3, <3>3, <3>6 DEF Disputed
      <4>2. v = [slot |-> slot, status |-> "unresolved_conflict", accepted |-> {}]
        BY <1>1, <1>9, <2>8, <3>6
      <4> HIDE DEF v
      <4> QED BY <4>1, <4>2 DEF F, v
    <3>7. CASE ~(Score(top) - Score(second) <= DefaultDelta)
      <4>1. \A x \in BestOf(F, slot) : x.value = top.value
        <5> SUFFICES ASSUME NEW x \in BestOf(F, slot), x.value # top.value PROVE FALSE
          OBVIOUS
        <5>1. Score(x) = Score(top) /\ Score(x) <= Score(second)
          BY <2>4, <3>4 DEF BestOf
        <5> QED BY <2>2, <3>3, <3>7, <5>1 DEF DefaultDelta
      <4>2. ~Disputed(F, slot)
        <5> SUFFICES ASSUME NEW x \in BestOf(F, slot), NEW y \in Contenders(F, slot),
                            x.value # y.value, Score(x) - Score(y) <= DefaultDelta
                     PROVE  FALSE
          BY DEF Disputed
        <5>1. Score(x) = Score(top) /\ Score(y) <= Score(second) /\ Score(y) \in Int
          BY <2>4, <3>4, <3>5, <4>1
        <5> QED BY <2>2, <3>3, <3>7, <5>1 DEF DefaultDelta
      <4>3. v = [slot |-> slot, status |-> "accepted_with_conflict", accepted |-> {top}]
        BY <1>1, <1>9, <2>8, <3>7
      <4> HIDE DEF v
      <4> QED BY <2>3, <4>1, <4>2, <4>3 DEF F, v
    <3> QED BY <3>6, <3>7
  <2> QED BY <2>7, <2>8
<1> QED BY <1>8, <1>9

(***************************************************************************)
(* What the retrievers deliver                                             *)
(***************************************************************************)

(* A list of facts that the arbiter can weigh.                             *)
AreFacts(t) == IsSequence(t) /\ \A x \in Range(t) : Score(x) \in Int

(* The facts are about properties of one domain.                           *)
InDomain(facts, domain) ==
  \A x \in facts : x.slot = Slot(x.slot[1], ConceptId(domain, x.slot[2][2]))

LEMMA SequencesAre ==
  ASSUME NEW S, NEW t \in Seq(S)
  PROVE  IsSequence(t)
<1>1. Len(t) \in Nat /\ DOMAIN t = 1..Len(t) /\ t \in [1..Len(t) -> S]
  BY LenProperties
<1>2. t \in [1..Len(t) -> Range(t)]
  BY <1>1 DEF Range
<1>3. t \in Seq(Range(t))
  BY <1>1, <1>2, SeqDef
<1> QED BY <1>3 DEF IsSequence

LEMMA FunctionsOfIndexes ==
  ASSUME NEW n \in Nat, NEW t, DOMAIN t = 1..n, t = [i \in DOMAIN t |-> t[i]]
  PROVE  IsSequence(t)
<1>1. t \in [1..n -> Range(t)]
  BY DEF Range
<1>2. t \in Seq(Range(t))
  BY <1>1, SeqDef
<1> QED BY <1>2 DEF IsSequence

LEMMA EmptyIsFacts == AreFacts(<<>>)
<1>1. <<>> \in Seq({}) /\ DOMAIN <<>> = {}
  BY EmptySeq
<1>2. IsSequence(<<>>)
  BY <1>1, SequencesAre
<1> QED BY <1>1, <1>2 DEF AreFacts, Range

(* Sequences, one after the other, are a sequence of what they hold.       *)
LEMMA FlattenSequences ==
  ASSUME NEW ss, IsSequence(ss), \A i \in DOMAIN ss : IsSequence(ss[i])
  PROVE  /\ IsSequence(FlattenSeq(ss))
         /\ Range(FlattenSeq(ss)) = UNION {Range(ss[i]) : i \in DOMAIN ss}
<1> DEFINE S == UNION {Range(ss[i]) : i \in DOMAIN ss}
<1>1. Len(ss) \in Nat /\ DOMAIN ss = 1..Len(ss) /\ ss = [i \in 1..Len(ss) |-> ss[i]]
  BY LenProperties DEF IsSequence
<1>2. ASSUME NEW i \in DOMAIN ss PROVE ss[i] \in Seq(S)
  <2>1. ss[i] \in Seq(Range(ss[i])) /\ Range(ss[i]) \subseteq S
    BY DEF IsSequence
  <2> HIDE DEF S
  <2> QED BY <2>1, SeqMonotonic
<1> HIDE DEF S
<1>3. ss \in Seq(Seq(S))
  BY <1>1, <1>2, SeqDef
<1>4. FlattenSeq(ss) \in Seq(S) /\ Range(FlattenSeq(ss)) = UNION {Range(ss[i]) : i \in DOMAIN ss}
  BY <1>3, FlattenRange
<1> QED BY <1>4, SequencesAre

(* Lists of facts, one after the other, are a list of these facts.         *)
LEMMA FlattenFacts ==
  ASSUME NEW ss, IsSequence(ss), \A i \in DOMAIN ss : AreFacts(ss[i])
  PROVE  /\ AreFacts(FlattenSeq(ss))
         /\ Range(FlattenSeq(ss)) = UNION {Range(ss[i]) : i \in DOMAIN ss}
<1>1. /\ IsSequence(FlattenSeq(ss))
      /\ Range(FlattenSeq(ss)) = UNION {Range(ss[i]) : i \in DOMAIN ss}
  BY FlattenSequences DEF AreFacts
<1>2. \A x \in Range(FlattenSeq(ss)) : Score(x) \in Int
  BY <1>1 DEF AreFacts
<1> QED BY <1>1, <1>2 DEF AreFacts

LEMMA GraphAssertionWeighs ==
  ASSUME NEW n, NEW prop, NEW domain, NEW scope
  PROVE  /\ Score(GraphAssertion(n, prop, domain, scope)) \in Int
         /\ InDomain({GraphAssertion(n, prop, domain, scope)}, domain)
<1>1. Score(GraphAssertion(n, prop, domain, scope)) \in Int
  BY DEF Score, GraphAssertion, SourcePriority
<1>2. InDomain({GraphAssertion(n, prop, domain, scope)}, domain)
  BY DEF InDomain, GraphAssertion, Slot, ConceptId
<1> QED BY <1>1, <1>2

LEMMA ReplyWeighs ==
  ASSUME NEW x, IsAssertion(x)
  PROVE  Score(WithDefaults(x)) \in Int /\ WithDefaults(x).slot = x.slot
<1> DEFINE y == WithDefaults(x)
<1>1. y.authority \in Int /\ y.confidence \in Int
  BY DEF IsAssertion, WithDefaults
<1>2. \A k \in DOMAIN SourcePriority : SourcePriority[k] \in Int
  BY DEF SourcePriority
<1>3. y.slot = x.slot
  BY DEF IsAssertion, WithDefaults
<1> HIDE DEF y
<1> QED BY <1>1, <1>2, <1>3 DEF Score, y

LEMMA SingletonIsFacts ==
  ASSUME NEW x, Score(x) \in Int
  PROVE  AreFacts(<<x>>) /\ Range(<<x>>) = {x}
<1>1. DOMAIN <<x>> = {1} /\ <<x>>[1] = x
  OBVIOUS
<1>2. Range(<<x>>) = {x}
  BY <1>1 DEF Range
<1>3. <<x>> \in Seq({x})
  OBVIOUS
<1> QED BY <1>2, <1>3 DEF AreFacts, IsSequence

LEMMA NodeStatesFacts ==
  ASSUME NEW n, IsSequence(n.props), NEW domain, NEW scope, NEW targets
  PROVE  LET facts == NodeFacts(n, domain, scope, targets) IN
         AreFacts(facts) /\ InDomain(Range(facts), domain)
<1> DEFINE ss == [i \in DOMAIN n.props |->
                    IF PropertyWanted(n.props[i][1], domain, targets)
                    THEN <<GraphAssertion(n, n.props[i], domain, scope)>> ELSE <<>>]
<1>1. Len(n.props) \in Nat /\ DOMAIN n.props = 1..Len(n.props)
  BY LenProperties DEF IsSequence
<1>2. ASSUME NEW i \in DOMAIN ss PROVE AreFacts(ss[i]) /\ InDomain(Range(ss[i]), domain)
  <2> DEFINE x == GraphAssertion(n, n.props[i], domain, scope)
  <2>1. /\ AreFacts(<<x>>) /\ Range(<<x>>) = {x} /\ InDomain({x}, domain)
    BY GraphAssertionWeighs, SingletonIsFacts
  <2>2. InDomain(Range(<<x>>), domain)
    BY <2>1
  <2>3. AreFacts(<<>>) /\ InDomain(Range(<<>>), domain)
    BY EmptyIsFacts, EmptySeq DEF InDomain, Range
  <2> HIDE DEF x
  <2>4. ss[i] = <<x>> \/ ss[i] = <<>>
    BY DEF x
  <2> HIDE DEF ss
  <2> QED BY <2>1, <2>2, <2>3, <2>4
<1>3. DOMAIN ss = 1..Len(n.props) /\ ss = [i \in DOMAIN ss |-> ss[i]]
  BY <1>1
<1>4. NodeFacts(n, domain, scope, targets) = FlattenSeq(ss)
  BY DEF NodeFacts
<1> HIDE DEF ss
<1>5. IsSequence(ss)
  BY <1>1, <1>3, FunctionsOfIndexes
<1>6. AreFacts(FlattenSeq(ss)) /\ InDomain(Range(FlattenSeq(ss)), domain)
  BY <1>2, <1>5, FlattenFacts DEF InDomain
<1> QED BY <1>4, <1>6

(* What a retriever returns.                                               *)
IsResult(r) ==
  /\ r = [failed |-> r.failed, assertions |-> r.assertions, knowledge |-> r.knowledge,
          paths |-> r.paths, gaps |-> r.gaps]
  /\ r.failed \in BOOLEAN
  /\ AreFacts(r.assertions)

(* The results that are NoResult but for some of the fields.               *)
IsRecord(q) ==
  q = [failed |-> q.failed, assertions |-> q.assertions, knowledge |-> q.knowledge,
       paths |-> q.paths, gaps |-> q.gaps]

LEMMA OneField ==
  ASSUME NEW q, IsRecord(q), NEW x
  PROVE  /\ [q EXCEPT !.failed = x] =
              [failed |-> x, assertions |-> q.assertions, knowledge |-> q.knowledge,
               paths |-> q.paths, gaps |-> q.gaps]
         /\ [q EXCEPT !.assertions = x] =
              [failed |-> q.failed, assertions |-> x, knowledge |-> q.knowledge,
               paths |-> q.paths, gaps |-> q.gaps]
         /\ [q EXCEPT !.knowledge = x] =
              [failed |-> q.failed, assertions |-> q.assertions, knowledge |-> x,
               paths |-> q.paths, gaps |-> q.gaps]
         /\ [q EXCEPT !.paths = x] =
              [failed |-> q.failed, assertions |-> q.assertions, knowledge |-> q.knowledge,
               paths |-> x, gaps |-> q.gaps]
         /\ [q EXCEPT !.gaps = x] =
              [failed |-> q.failed, assertions |-> q.assertions, knowledge |-> q.knowledge,
               paths |-> q.paths, gaps |-> x]
BY DEF IsRecord

LEMMA NoResultFields ==
  /\ IsRecord(NoResult)
  /\ NoResult.failed = FALSE /\ NoResult.assertions = <<>> /\ NoResult.knowledge = {}
  /\ NoResult.paths = {} /\ NoResult.gaps = {}
BY DEF IsRecord, NoResult

LEMMA NoResultBut ==
  ASSUME NEW x
  PROVE  /\ [NoResult EXCEPT !.failed = x] =
              [failed |-> x, assertions |-> <<>>, knowledge |-> {}, paths |-> {}, gaps |-> {}]
         /\ [NoResult EXCEPT !.assertions = x] =
              [failed |-> FALSE, assertions |-> x, knowledge |-> {}, paths |-> {}, gaps |-> {}]
         /\ [NoResult EXCEPT !.knowledge = x] =
              [failed |-> FALSE, assertions |-> <<>>, knowledge |-> x, paths |-> {}, gaps |-> {}]
<1>1. PICK q : q = NoResult
  OBVIOUS
<1>2. IsRecord(q)
  BY <1>1, NoResultFields
<1>3. q.failed = FALSE /\ q.assertions = <<>> /\ q.knowledge = {} /\ q.paths = {} /\ q.gaps = {}
  BY <1>1, NoResultFields
<1>4. [q EXCEPT !.failed = x] =
        [failed |-> x, assertions |-> q.assertions, knowledge |-> q.knowledge,
         paths |-> q.paths, gaps |-> q.gaps]
  BY <1>2, OneField
<1>5. [q EXCEPT !.assertions = x] =
        [failed |-> q.failed, assertions |-> x, knowledge |-> q.knowledge,
         paths |-> q.paths, gaps |-> q.gaps]
  BY <1>2, OneField
<1>6. [q EXCEPT !.knowledge = x] =
        [failed |-> q.failed, assertions |-> q.assertions, knowledge |-> x,
         paths |-> q.paths, gaps |-> q.gaps]
  BY <1>2, OneField
<1> QED BY <1>1, <1>3, <1>4, <1>5, <1>6, Zenon

LEMMA KnowledgeFields ==
  ASSUME NEW k, NEW g
  PROVE  [NoResult EXCEPT !.knowledge = k, !.gaps = g] =
           [failed |-> FALSE, assertions |-> <<>>, knowledge |-> k, paths |-> {}, gaps |-> g]
<1>1. PICK q : q = [NoResult EXCEPT !.knowledge = k]
  OBVIOUS
<1>2. [NoResult EXCEPT !.knowledge = k, !.gaps = g] = [q EXCEPT !.gaps = g]
  BY <1>1
<1>3. q = [failed |-> FALSE, assertions |-> <<>>, knowledge |-> k, paths |-> {}, gaps |-> {}]
  BY <1>1, NoResultBut, Zenon
<1>4. IsRecord(q)
  BY <1>3 DEF IsRecord
<1>5. [q EXCEPT !.gaps = g] =
        [failed |-> q.failed, assertions |-> q.assertions, knowledge |-> q.knowledge,
         paths |-> q.paths, gaps |-> g]
  BY <1>4, OneField, Zenon
<1> QED BY <1>2, <1>3, <1>5

LEMMA GraphFields ==
  ASSUME NEW a, NEW p, NEW g
  PROVE  [NoResult EXCEPT !.assertions = a, !.paths = p, !.gaps = g] =
           [failed |-> FALSE, assertions |-> a, knowledge |-> {}, paths |-> p, gaps |-> g]
<1>1. PICK q : q = [NoResult EXCEPT !.assertions = a]
  OBVIOUS
<1>2. PICK r : r = [q EXCEPT !.paths = p]
  OBVIOUS
<1>3. [NoResult EXCEPT !.assertions = a, !.paths = p, !.gaps = g] = [r EXCEPT !.gaps = g]
  BY <1>1, <1>2
<1>4. q = [failed |-> FALSE, assertions |-> a, knowledge |-> {}, paths |-> {}, gaps |-> {}]
  BY <1>1, NoResultBut, Zenon
<1>5. IsRecord(q)
  BY <1>4 DEF IsRecord
<1>6. r = [failed |-> FALSE, assertions |-> a, knowledge |-> {}, paths |-> p, gaps |-> {}]
  <2>1. r = [failed |-> q.failed, assertions |-> q.assertions, knowledge |-> q.knowledge,
             paths |-> p, gaps |-> q.gaps]
    BY <1>2, <1>5, OneField, Zenon
  <2> QED BY <1>4, <2>1
<1>7. IsRecord(r)
  BY <1>6 DEF IsRecord
<1>8. [r EXCEPT !.gaps = g] =
        [failed |-> r.failed, assertions |-> r.assertions, knowledge |-> r.knowledge,
         paths |-> r.paths, gaps |-> g]
  BY <1>7, OneField, Zenon
<1> QED BY <1>3, <1>6, <1>8

LEMMA SimpleResults ==
  /\ IsResult(NoResult) /\ NoResult.assertions = <<>>
  /\ IsResult(AnError) /\ AnError.assertions = <<>>
  /\ \A found : LET r == RetrieveWiki(found) IN IsResult(r) /\ r.assertions = <<>>
  /\ \A its, words :
       LET r == RetrieveOntologies(its, words) IN IsResult(r) /\ r.assertions = <<>>
<1>1. IsResult(NoResult) /\ NoResult.assertions = <<>>
  BY NoResultFields, EmptyIsFacts DEF IsResult, IsRecord
<1>2. IsResult(AnError) /\ AnError.assertions = <<>>
  <2>1. AnError = [failed |-> TRUE, assertions |-> <<>>, knowledge |-> {}, paths |-> {}, gaps |-> {}]
    BY NoResultBut, Zenon DEF AnError
  <2> QED BY <2>1, EmptyIsFacts DEF IsResult
<1>3. ASSUME NEW found
      PROVE  IsResult(RetrieveWiki(found)) /\ RetrieveWiki(found).assertions = <<>>
  <2>1. RetrieveWiki(found) =
          [failed |-> FALSE, assertions |-> <<>>, knowledge |-> found, paths |-> {}, gaps |-> {}]
    BY NoResultBut, Zenon DEF RetrieveWiki
  <2> QED BY <2>1, EmptyIsFacts DEF IsResult
<1>4. ASSUME NEW its, NEW words
      PROVE  /\ IsResult(RetrieveOntologies(its, words))
             /\ RetrieveOntologies(its, words).assertions = <<>>
  <2>1. PICK k, g : RetrieveOntologies(its, words) = [NoResult EXCEPT !.knowledge = k, !.gaps = g]
    BY Zenon DEF RetrieveOntologies
  <2>2. RetrieveOntologies(its, words) =
          [failed |-> FALSE, assertions |-> <<>>, knowledge |-> k, paths |-> {}, gaps |-> g]
    BY <2>1, KnowledgeFields, Zenon
  <2> QED BY <2>2, EmptyIsFacts DEF IsResult
<1> QED BY <1>1, <1>2, <1>3, <1>4

LEMMA BusinessResults ==
  ASSUME NEW reply \in BusinessReplies
  PROVE  LET r == RetrieveBusinessData(reply) IN
         /\ IsResult(r)
         /\ \A x \in Range(r.assertions) : \E y \in Range(reply) : x.slot = y.slot
<1> DEFINE t == [i \in DOMAIN reply |-> WithDefaults(reply[i])]
<1>1. IsSequence(reply) /\ \A x \in Range(reply) : IsAssertion(x)
  BY RepliesAssumption
<1>2. Len(reply) \in Nat /\ DOMAIN reply = 1..Len(reply)
  BY <1>1, LenProperties DEF IsSequence
<1>3. \A i \in DOMAIN t : Score(t[i]) \in Int /\ t[i].slot = reply[i].slot
  BY <1>1, ReplyWeighs DEF Range
<1>7. DOMAIN t = DOMAIN reply
  OBVIOUS
<1>4. DOMAIN t = 1..Len(reply) /\ t = [i \in DOMAIN t |-> t[i]]
  BY <1>2
<1>5. RetrieveBusinessData(reply) =
        [failed |-> FALSE, assertions |-> t, knowledge |-> {}, paths |-> {}, gaps |-> {}]
  BY NoResultBut, Zenon DEF RetrieveBusinessData
<1> HIDE DEF t
<1>6. AreFacts(t)
  BY <1>2, <1>3, <1>4, FunctionsOfIndexes DEF AreFacts, Range
<1>8. \A x \in Range(t) : \E y \in Range(reply) : x.slot = y.slot
  BY <1>3, <1>7 DEF Range
<1> QED BY <1>5, <1>6, <1>8 DEF IsResult

LEMMA ViewResults ==
  ASSUME NEW v \in Views, NEW words, NEW domain, NEW scope, NEW targets
  PROVE  LET r == GraphViewToResult(v, words, domain, scope, targets) IN
         IsResult(r) /\ InDomain(Range(r.assertions), domain)
<1> DEFINE selected == {i \in DOMAIN v.nodes : NodeSelected(v.nodes[i], words, targets)}
           ss == [i \in DOMAIN v.nodes |->
                    IF i \in selected THEN NodeFacts(v.nodes[i], domain, scope, targets) ELSE <<>>]
           r  == GraphViewToResult(v, words, domain, scope, targets)
<1>1. IsSequence(v.nodes) /\ \A n \in Range(v.nodes) : IsSequence(n.props)
  BY ViewsAssumption
<1>2. Len(v.nodes) \in Nat /\ DOMAIN v.nodes = 1..Len(v.nodes)
  BY <1>1, LenProperties DEF IsSequence
<1>3. ASSUME NEW i \in DOMAIN ss PROVE AreFacts(ss[i]) /\ InDomain(Range(ss[i]), domain)
  <2>1. IsSequence(v.nodes[i].props)
    BY <1>1 DEF Range
  <2> DEFINE facts == NodeFacts(v.nodes[i], domain, scope, targets)
  <2>2. AreFacts(facts) /\ InDomain(Range(facts), domain)
    BY <2>1, NodeStatesFacts
  <2>3. AreFacts(<<>>) /\ InDomain(Range(<<>>), domain)
    BY EmptyIsFacts, EmptySeq DEF InDomain, Range
  <2>4. ss[i] = facts \/ ss[i] = <<>>
    OBVIOUS
  <2> HIDE DEF ss, facts
  <2> QED BY <2>2, <2>3, <2>4
<1>4. DOMAIN ss = 1..Len(v.nodes) /\ ss = [i \in DOMAIN ss |-> ss[i]]
  BY <1>2
<1>5. /\ r.assertions = FlattenSeq(ss) /\ r.failed = FALSE
      /\ r = [failed |-> r.failed, assertions |-> r.assertions, knowledge |-> r.knowledge,
              paths |-> r.paths, gaps |-> r.gaps]
  <2>1. \E p, g : r = [NoResult EXCEPT !.assertions = FlattenSeq(ss), !.paths = p, !.gaps = g]
    BY Zenon DEF GraphViewToResult
  <2>2. \E p, g : r = [failed |-> FALSE, assertions |-> FlattenSeq(ss), knowledge |-> {},
                       paths |-> p, gaps |-> g]
    BY GraphFields, <2>1, Zenon
  <2> HIDE DEF r, ss
  <2> QED BY <2>2
<1> HIDE DEF ss, r
<1>6. AreFacts(FlattenSeq(ss)) /\ InDomain(Range(FlattenSeq(ss)), domain)
  <2>1. IsSequence(ss)
    BY <1>2, <1>4, FunctionsOfIndexes
  <2> QED BY <1>3, <2>1, FlattenFacts DEF InDomain
<1>7. IsResult(r) /\ InDomain(Range(r.assertions), domain)
  BY <1>5, <1>6 DEF IsResult
<1> QED BY <1>7 DEF r

(* The answers of the knowledge bases together, with a gap for each base   *)
(* that could not be asked.                                                *)
LEMMA EntityResults ==
  ASSUME NEW bases, IsSequence(bases), NEW views, NEW words, NEW domain, NEW scope, NEW targets,
         \A i \in DOMAIN bases : views[i] \in Views \/ views[i] = Unreachable
  PROVE  LET r == RetrieveEntities(bases, views, words, domain, scope, targets) IN
         /\ IsResult(r) /\ InDomain(Range(r.assertions), domain)
         /\ \A i \in DOMAIN bases : views[i] = Unreachable => <<"entity_graph", bases[i]>> \in r.gaps
<1> DEFINE part(i) == AskKnowledgeBase(bases[i], views[i], words, domain, scope, targets)
           ss  == [i \in DOMAIN bases |-> part(i).assertions]
           all == [failed |-> FALSE, assertions |-> FlattenSeq(ss), knowledge |-> {},
                   paths |-> UNION {part(i).paths : i \in DOMAIN bases},
                   gaps |-> UNION {part(i).gaps : i \in DOMAIN bases}]
           r == RetrieveEntities(bases, views, words, domain, scope, targets)
<1>1. Len(bases) \in Nat /\ DOMAIN bases = 1..Len(bases)
  BY LenProperties DEF IsSequence
<1>2. ASSUME NEW i \in DOMAIN bases
      PROVE  AreFacts(part(i).assertions) /\ InDomain(Range(part(i).assertions), domain)
  <2>1. CASE views[i].down
    <3>1. part(i).assertions = <<>>
      BY <2>1 DEF AskKnowledgeBase, NoResult
    <3>2. AreFacts(<<>>) /\ InDomain(Range(<<>>), domain)
      BY EmptyIsFacts, EmptySeq DEF InDomain, Range
    <3> HIDE DEF part
    <3> QED BY <3>1, <3>2
  <2>2. CASE ~views[i].down
    <3>1. views[i] \in Views
      BY <2>2 DEF Unreachable
    <3>2. part(i) = GraphViewToResult(views[i], words, domain, scope, targets)
      BY <2>2 DEF AskKnowledgeBase
    <3> QED BY <3>1, <3>2, ViewResults DEF IsResult
  <2> QED BY <2>1, <2>2
<1>3. ASSUME NEW i \in DOMAIN bases, views[i] = Unreachable
      PROVE  <<"entity_graph", bases[i]>> \in part(i).gaps
  BY <1>3 DEF AskKnowledgeBase, Unreachable, NoResult
<1>4. r = IF bases = <<>> THEN [NoResult EXCEPT !.gaps = {<<"entity_graph", "no scope">>}]
          ELSE IF Usable(all) \/ all.gaps # {} THEN all
          ELSE [all EXCEPT !.gaps = {<<"entity_graph", "nothing matched">>}]
  <2> DEFINE paths == UNION {part(i).paths : i \in DOMAIN bases}
             gaps  == UNION {part(i).gaps : i \in DOMAIN bases}
  <2>1. [NoResult EXCEPT !.assertions = FlattenSeq(ss), !.paths = paths, !.gaps = gaps] = all
    <3> HIDE DEF ss, part
    <3> QED BY GraphFields, Zenon
  <2> HIDE DEF all
  <2> QED BY <2>1, Zenon DEF RetrieveEntities
<1> HIDE DEF part, r
<1>5. DOMAIN ss = 1..Len(bases) /\ ss = [i \in DOMAIN ss |-> ss[i]] /\ \A i \in DOMAIN ss : AreFacts(ss[i])
  BY <1>1, <1>2
<1>9. \A i \in DOMAIN ss : InDomain(Range(ss[i]), domain)
  BY <1>2
<1> HIDE DEF ss
<1>6. AreFacts(FlattenSeq(ss)) /\ InDomain(Range(FlattenSeq(ss)), domain)
  <2>1. IsSequence(ss)
    BY <1>1, <1>5, FunctionsOfIndexes
  <2> QED BY <1>5, <1>9, <2>1, FlattenFacts DEF InDomain
<1>7. IsResult(r) /\ InDomain(Range(r.assertions), domain)
  <2>1. r.assertions = FlattenSeq(ss) \/ r.assertions = <<>>
    BY <1>4 DEF NoResult
  <2>2. InDomain(Range(<<>>), domain)
    BY EmptySeq DEF InDomain, Range
  <2>3. IsResult(r)
    BY <1>4, <1>6, EmptyIsFacts DEF IsResult, NoResult
  <2> HIDE DEF all
  <2> QED BY <1>6, <2>1, <2>2, <2>3
<1>8. ASSUME NEW i \in DOMAIN bases, views[i] = Unreachable
      PROVE  <<"entity_graph", bases[i]>> \in r.gaps
  <2>1. <<"entity_graph", bases[i]>> \in all.gaps
    BY <1>3, <1>8
  <2>2. bases # <<>>
    BY <1>8
  <2>3. r = all
    BY <1>4, <2>1, <2>2
  <2> QED BY <2>1, <2>3
<1> QED BY <1>7, <1>8 DEF r

(***************************************************************************)
(* Plans, and what the service keeps of a result                           *)
(***************************************************************************)

LEMMA PlansChooseSources ==
  ASSUME NEW q, NEW catalog
  PROVE  LET p == Plan(q, catalog) IN
         /\ DOMAIN p.steps \subseteq Sources
         /\ \A s \in DOMAIN p.steps : p.steps[s] \in BOOLEAN
<1>1. \E required, optional : SourceChoices(q, catalog) = Choice(required, optional)
  BY Zenon DEF SourceChoices
<1>2. PICK required, optional : SourceChoices(q, catalog) = Choice(required, optional)
  BY <1>1
<1>3. /\ DOMAIN SourceChoices(q, catalog) = required \cup optional
      /\ \A s \in required \cup optional : SourceChoices(q, catalog)[s] \in BOOLEAN
  <2>1. DOMAIN Choice(required, optional) = required \cup optional
    BY DEF Choice
  <2>2. ASSUME NEW s \in required \cup optional
        PROVE  Choice(required, optional)[s] \in BOOLEAN
    <3>1. Choice(required, optional)[s] = (s \in required)
      BY Zenon DEF Choice
    <3>2. CASE s \in required
      BY <3>1, <3>2
    <3>3. CASE s \notin required
      BY <3>1, <3>3
    <3> QED BY <3>2, <3>3
  <2> QED BY <1>2, <2>1, <2>2
<1>4. /\ DOMAIN PlanSteps(q, catalog) = DOMAIN SourceChoices(q, catalog) \cap Sources
      /\ \A s \in DOMAIN PlanSteps(q, catalog) : PlanSteps(q, catalog)[s] = SourceChoices(q, catalog)[s]
  BY DEF PlanSteps, Restrict
<1>5. Plan(q, catalog).steps = PlanSteps(q, catalog)
  BY DEF Plan
<1> QED BY <1>3, <1>4, <1>5

(* A result as it is kept, and what the rest of the pack may rely on.      *)
IsItem(p, it) ==
  /\ it.source \in DOMAIN p.steps
  /\ it.required = p.steps[it.source]
  /\ it.satisfied => Usable(it)
  /\ AreFacts(it.assertions)

LEMMA GatheredIsItem ==
  ASSUME NEW p, NEW source \in DOMAIN p.steps, NEW r, IsResult(r)
  PROVE  /\ IsItem(p, Gather(p, source, r))
         /\ Gather(p, source, r).source = source
         /\ r.gaps \subseteq Gather(p, source, r).gaps
<1> DEFINE it == Gather(p, source, r)
<1>1. /\ it.source = source /\ it.required = p.steps[source]
      /\ it.satisfied = (~r.failed /\ Usable(r))
      /\ it.assertions = IF r.failed THEN <<>> ELSE r.assertions
      /\ it.knowledge = r.knowledge /\ it.paths = r.paths
      /\ r.gaps \subseteq it.gaps
  BY DEF Gather
<1> HIDE DEF it
<1>2. it.satisfied => Usable(it)
  BY <1>1 DEF Usable
<1>3. AreFacts(it.assertions)
  BY <1>1, EmptyIsFacts DEF IsResult
<1>4. IsItem(p, it)
  BY <1>1, <1>2, <1>3 DEF IsItem
<1> QED BY <1>1, <1>4 DEF it

(***************************************************************************)
(* The pack                                                                *)
(***************************************************************************)
IsPack(k) ==
  k = [facts |-> k.facts, knowledge |-> k.knowledge, paths |-> k.paths, gaps |-> k.gaps,
       blocking |-> k.blocking, status |-> k.status, complete |-> k.complete,
       fallback |-> k.fallback]

FactsOf(results) == FlattenSeq([i \in DOMAIN results |-> results[i].assertions])

Blocking(p, results) ==
  {<<"ontology", term>> : term \in p.blockingIssues}
    \cup {<<"source", r.source>> : r \in {r \in Range(results) : r.required /\ ~r.satisfied}}
    \cup {<<"fact", v.slot>> : v \in {v \in Arbitrate(FactsOf(results)) :
                                        v.status = "unresolved_conflict"}}

LEMMA PackFields ==
  ASSUME NEW p, NEW results
  PROVE  LET k == AssemblePack(p, results) IN
         /\ IsPack(k)
         /\ k.facts = UNION {v.accepted : v \in Arbitrate(FactsOf(results))}
         /\ k.knowledge = UNION {r.knowledge : r \in Range(results)}
         /\ k.paths = UNION {r.paths : r \in Range(results)}
         /\ k.gaps = UNION {r.gaps : r \in Range(results)}
         /\ k.blocking = Blocking(p, results)
         /\ k.complete = (k.blocking = {} /\ ~Empty(k))
         /\ k.fallback = FALSE
<1> DEFINE facts     == UNION {v.accepted : v \in Arbitrate(FactsOf(results))}
           knowledge == UNION {r.knowledge : r \in Range(results)}
           paths     == UNION {r.paths : r \in Range(results)}
           gaps      == UNION {r.gaps : r \in Range(results)}
           blocking  == Blocking(p, results)
           content   == [facts |-> facts, knowledge |-> knowledge, paths |-> paths]
           k         == AssemblePack(p, results)
<1>1. PICK status :
        k = [facts |-> facts, knowledge |-> knowledge, paths |-> paths, gaps |-> gaps,
             blocking |-> blocking, status |-> status,
             complete |-> IsComplete(blocking, content), fallback |-> FALSE]
  BY Zenon DEF AssemblePack, Blocking, FactsOf
<1> HIDE DEF k, facts, knowledge, paths, gaps, blocking
<1>2. IsComplete(blocking, content) = (blocking = {} /\ ~Empty(content))
  BY DEF IsComplete
<1>3. /\ k.facts = facts /\ k.knowledge = knowledge /\ k.paths = paths /\ k.gaps = gaps
      /\ k.blocking = blocking /\ k.complete = IsComplete(blocking, content) /\ k.fallback = FALSE
      /\ IsPack(k)
  BY <1>1 DEF IsPack
<1>4. Empty(k) = Empty(content)
  BY <1>3 DEF Empty
<1> QED BY <1>2, <1>3, <1>4, Zenon DEF k, facts, knowledge, paths, gaps, blocking

(* The facts of the results, in whatever order they are.                   *)
LEMMA FactsOfItems ==
  ASSUME NEW results, IsSequence(results), \A r \in Range(results) : AreFacts(r.assertions)
  PROVE  /\ AreFacts(FactsOf(results))
         /\ Range(FactsOf(results)) = UNION {Range(r.assertions) : r \in Range(results)}
<1> DEFINE ss == [i \in DOMAIN results |-> results[i].assertions]
<1>1. Len(results) \in Nat /\ DOMAIN results = 1..Len(results)
  BY LenProperties DEF IsSequence
<1>2. /\ DOMAIN ss = 1..Len(results) /\ ss = [i \in DOMAIN ss |-> ss[i]]
      /\ \A i \in DOMAIN ss : AreFacts(ss[i])
  BY <1>1 DEF Range
<1>3. UNION {Range(ss[i]) : i \in DOMAIN ss} = UNION {Range(r.assertions) : r \in Range(results)}
  BY DEF Range
<1>4. FactsOf(results) = FlattenSeq(ss)
  BY DEF FactsOf
<1> HIDE DEF ss
<1>5. IsSequence(ss)
  BY <1>1, <1>2, FunctionsOfIndexes
<1> QED BY <1>2, <1>3, <1>4, <1>5, FlattenFacts

(***************************************************************************)
(* The request: an invariant                                               *)
(***************************************************************************)

(* What is under way has one item for each source that returned; a pack    *)
(* that is complete is the one that was assembled, and what a fallback     *)
(* adds is added to a pack without content.                                *)
ItemsAreSound ==
  /\ IsSequence(items)
  /\ \A r \in Range(items) : IsItem(plan, r)
  /\ stage \in {"answered", "fallback"} => running = {}

GapsAreKept ==
  /\ IsSequence(request.bases) /\ request.down \subseteq Range(request.bases)
  /\ "entity_graph" \in Retrievers =>
       \A r \in Range(items) : r.source = "entity_graph" =>
         \A kb \in request.down : <<"entity_graph", kb>> \in r.gaps
  /\ stage = "answered" => pack.gaps = UNION {r.gaps : r \in Range(items)}

PackIsAssembled ==
  /\ IsPack(pack)
  /\ stage \in {"idle", "retrieving", "failed"} => pack = NoPack
  /\ stage = "fallback" => pack = AssemblePack(plan, items)
  /\ pack.complete => pack = AssemblePack(plan, items)
  /\ pack.fallback => ~pack.complete

ContextInvariant == TypeOK /\ ItemsAreSound /\ GapsAreKept /\ PackIsAssembled

LEMMA FiniteSources == IsFiniteSet(Sources)
<1>1. /\ IsFiniteSet({"business_data"}) /\ IsFiniteSet({"entity_graph"})
      /\ IsFiniteSet({"wiki_rag"}) /\ IsFiniteSet({"ontology_graph"})
  BY FS_Singleton
<1>2. IsFiniteSet({"business_data"} \cup {"entity_graph"})
  BY <1>1, FS_Union
<1>3. IsFiniteSet({"wiki_rag"} \cup {"ontology_graph"})
  BY <1>1, FS_Union
<1>4. IsFiniteSet(({"business_data"} \cup {"entity_graph"}) \cup ({"wiki_rag"} \cup {"ontology_graph"}))
  BY <1>2, <1>3, FS_Union
<1>5. Sources = ({"business_data"} \cup {"entity_graph"}) \cup ({"wiki_rag"} \cup {"ontology_graph"})
  BY DEF Sources
<1> QED BY <1>4, <1>5

LEMMA AppendedItem ==
  ASSUME NEW x, IsSequence(items)
  PROVE  /\ IsSequence(Append(items, x))
         /\ Range(Append(items, x)) = Range(items) \cup {x}
         /\ Len(Append(items, x)) = Len(items) + 1
<1> DEFINE S == Range(items) \cup {x}
           t == Append(items, x)
<1>1. items \in Seq(S)
  BY SeqMonotonic DEF IsSequence
<1>2. /\ t \in Seq(S) /\ Len(t) = Len(items) + 1
      /\ \A i \in 1..Len(items) : t[i] = items[i]
      /\ t[Len(items) + 1] = x
  BY <1>1, AppendProperties
<1> HIDE DEF S, t
<1>3. IsSequence(t)
  BY <1>2, SequencesAre
<1>4. Len(items) \in Nat /\ DOMAIN items = 1..Len(items) /\ DOMAIN t = 1..(Len(items) + 1)
  BY <1>1, <1>2, LenProperties
<1>5. DOMAIN t = DOMAIN items \cup {Len(items) + 1}
  BY <1>4
<1>6. Range(t) = Range(items) \cup {x}
  BY <1>2, <1>4, <1>5 DEF Range
<1> QED BY <1>2, <1>3, <1>6 DEF t

(* A retriever that returns.                                               *)
LEMMA ReturnKeeps ==
  ASSUME ContextInvariant, NEW source, NEW r, IsResult(r), Return(source, r),
         source = "entity_graph" => \A kb \in request.down : <<"entity_graph", kb>> \in r.gaps
  PROVE  ContextInvariant'
<1> DEFINE it == Gather(plan, source, r)
<1>1. /\ source \in running /\ running' = running \ {source} /\ items' = Append(items, it)
      /\ stage' = stage /\ request' = request /\ plan' = plan /\ pack' = pack
  BY DEF Return
<1>2. source \in DOMAIN plan.steps
  BY <1>1 DEF ContextInvariant, TypeOK
<1>3. IsItem(plan, it) /\ it.source = source /\ r.gaps \subseteq it.gaps
  BY <1>2, GatheredIsItem
<1> HIDE DEF it
<1>4. /\ IsSequence(items') /\ Range(items') = Range(items) \cup {it}
      /\ Len(items') = Len(items) + 1
  BY <1>1, AppendedItem DEF ContextInvariant, ItemsAreSound
<1>5. stage \notin {"answered", "fallback"} /\ pack = NoPack
  BY <1>1 DEF ContextInvariant, ItemsAreSound, PackIsAssembled, TypeOK
<1>6. TypeOK'
  <2>1. DOMAIN plan.steps \ running' = (DOMAIN plan.steps \ running) \cup {source}
        /\ source \notin DOMAIN plan.steps \ running
    BY <1>1, <1>2
  <2>2. IsFiniteSet(DOMAIN plan.steps \ running)
    <3>1. IsFiniteSet(Sources)
      BY FiniteSources
    <3>2. DOMAIN plan.steps \ running \in SUBSET Sources
      BY DEF ContextInvariant, TypeOK
    <3> QED BY <3>1, <3>2, FS_Subset
  <2>3. Cardinality(DOMAIN plan.steps \ running') = Cardinality(DOMAIN plan.steps \ running) + 1
    BY <2>1, <2>2, FS_AddElement
  <2>4. Len(items') = Cardinality(DOMAIN plan.steps \ running')
    BY <1>4, <2>3 DEF ContextInvariant, TypeOK
  <2>5. {x.source : x \in Range(items')} = {x.source : x \in Range(items)} \cup {source}
    BY <1>3, <1>4
  <2>6. {x.source : x \in Range(items')} = DOMAIN plan.steps \ running'
    BY <2>1, <2>5 DEF ContextInvariant, TypeOK
  <2> QED BY <1>1, <2>4, <2>6 DEF ContextInvariant, TypeOK, Empty
<1>7. ItemsAreSound'
  BY <1>1, <1>3, <1>4, <1>5 DEF ContextInvariant, ItemsAreSound
<1>8. GapsAreKept'
  <2>1. ASSUME "entity_graph" \in Retrievers, NEW x \in Range(items'), x.source = "entity_graph",
               NEW kb \in request.down
        PROVE  <<"entity_graph", kb>> \in x.gaps
    <3>1. CASE x \in Range(items)
      BY <2>1, <3>1 DEF ContextInvariant, GapsAreKept
    <3>2. CASE x = it
      BY <1>3, <2>1, <3>2
    <3> QED BY <1>4, <3>1, <3>2
  <2> QED BY <1>1, <1>5, <2>1 DEF ContextInvariant, GapsAreKept
<1>9. PackIsAssembled'
  <2>1. pack.complete = FALSE /\ pack.fallback = FALSE
    BY <1>5 DEF NoPack
  <2>2. stage' \in {"idle", "retrieving", "failed"}
    BY <1>1, <1>5 DEF ContextInvariant, TypeOK
  <2> QED BY <1>1, <1>5, <2>1, <2>2 DEF ContextInvariant, PackIsAssembled, IsPack
<1> QED BY <1>6, <1>7, <1>8, <1>9 DEF ContextInvariant

(* A request that is made: a planned source without a retriever has an     *)
(* item at once, and the entity graph has a retriever or none is known.    *)
LEMMA RetrieveKeeps ==
  ASSUME ContextInvariant, NEW question, NEW bases \in Scopes, NEW ontologies, NEW domain,
         NEW down \in SUBSET Range(bases), Retrieve(question, bases, ontologies, domain, down)
  PROVE  ContextInvariant'
<1> DEFINE planned == DOMAIN plan'.steps
           absent  == planned \ Registered(ontologies)
           s       == SetToSeq(absent)
           its     == [i \in DOMAIN s |-> Gather(plan', s[i], NoResult)]
<1>1. /\ stage' = "retrieving" /\ pack' = NoPack
      /\ request'.bases = bases /\ request'.down = down
      /\ running' = planned \cap Registered(ontologies)
      /\ items' = its
  BY DEF Retrieve
<1>2. PICK catalog : plan' = Plan(question, catalog)
  BY DEF Retrieve
<1>3. planned \subseteq Sources /\ \A x \in planned : plan'.steps[x] \in BOOLEAN
  BY <1>2, PlansChooseSources
<1>4. /\ s \in Seq(absent) /\ Len(s) = Cardinality(absent) /\ Range(s) = absent
  BY <1>3, FiniteSources, FS_Subset, EnumerationIsExact
<1>5. absent = planned \ running'
  BY <1>1
<1> HIDE DEF s
<1>6. /\ Len(s) \in Nat /\ DOMAIN s = 1..Len(s) /\ \A i \in DOMAIN s : s[i] \in planned
  BY <1>4, LenProperties, ElementOfSeq
<1>7. \A i \in DOMAIN its : IsItem(plan', its[i]) /\ its[i].source = s[i]
  BY <1>6, SimpleResults, GatheredIsItem
<1>8. DOMAIN its = 1..Len(s) /\ its = [i \in DOMAIN its |-> its[i]]
  BY <1>6
<1> HIDE DEF its
<1>9. IsSequence(its)
  BY <1>6, <1>8, FunctionsOfIndexes
<1>10. Len(its) = Len(s)
  BY <1>6, <1>8, <1>9, LenProperties DEF IsSequence
<1>11. {x.source : x \in Range(its)} = Range(s)
  BY <1>6, <1>7, <1>8 DEF Range
<1>12. TypeOK'
  <2>1. Len(items') = Cardinality(DOMAIN plan'.steps \ running')
    BY <1>1, <1>4, <1>5, <1>10
  <2>2. {x.source : x \in Range(items')} = DOMAIN plan'.steps \ running'
    BY <1>1, <1>4, <1>5, <1>11
  <2>3. pack'.complete = FALSE /\ pack'.fallback = FALSE
    BY <1>1 DEF NoPack
  <2> HIDE DEF absent
  <2> QED BY <1>1, <1>3, <2>1, <2>2, <2>3 DEF TypeOK
<1>13. ItemsAreSound'
  BY <1>1, <1>7, <1>9 DEF ItemsAreSound, Range
<1>14. GapsAreKept'
  <2>1. IsSequence(bases)
    BY ScopesAssumption, SequencesAre
  <2>2. ASSUME "entity_graph" \in Retrievers, NEW x \in Range(its) PROVE x.source # "entity_graph"
    <3>1. x.source \in Range(s)
      BY <1>11
    <3> QED BY <1>4, <2>2, <3>1 DEF Registered
  <2> QED BY <1>1, <2>1, <2>2 DEF GapsAreKept
<1>15. PackIsAssembled'
  <2>1. IsPack(NoPack) /\ NoPack.complete = FALSE /\ NoPack.fallback = FALSE
    BY DEF NoPack, IsPack
  <2> HIDE DEF IsPack
  <2> QED BY <1>1, <2>1 DEF PackIsAssembled
<1> QED BY <1>12, <1>13, <1>14, <1>15 DEF ContextInvariant

(* The retrievers' answers are results; that of the entity graph names     *)
(* every base that is out of reach.                                        *)
LEMMA RetrieversKeep ==
  ASSUME ContextInvariant, Returns
  PROVE  ContextInvariant'
<1>1. CASE EntityGraphReturns
  <2>1. PICK held \in [DOMAIN request.bases -> Views] :
          Return("entity_graph",
            RetrieveEntities(request.bases,
              [i \in DOMAIN held |-> IF request.bases[i] \in request.down THEN Unreachable ELSE held[i]],
              request.question.words, DomainOf(request), ScopeOf(request), plan.targets))
    BY <1>1, Zenon DEF EntityGraphReturns
  <2> DEFINE views == [i \in DOMAIN held |->
                         IF request.bases[i] \in request.down THEN Unreachable ELSE held[i]]
             r == RetrieveEntities(request.bases, views, request.question.words,
                                   DomainOf(request), ScopeOf(request), plan.targets)
  <2>2. IsSequence(request.bases) /\ request.down \subseteq Range(request.bases)
    BY DEF ContextInvariant, GapsAreKept
  <2>3. DOMAIN held = DOMAIN request.bases /\ \A i \in DOMAIN request.bases : held[i] \in Views
    OBVIOUS
  <2>4. /\ \A i \in DOMAIN request.bases : views[i] \in Views \/ views[i] = Unreachable
        /\ \A i \in DOMAIN request.bases : request.bases[i] \in request.down => views[i] = Unreachable
    BY <2>3
  <2>5. Return("entity_graph", r)
    BY <2>1
  <2> HIDE DEF views
  <2>6. /\ IsResult(r)
        /\ \A i \in DOMAIN request.bases :
             views[i] = Unreachable => <<"entity_graph", request.bases[i]>> \in r.gaps
    BY <2>2, <2>4, EntityResults
  <2> HIDE DEF r
  <2>7. \A kb \in request.down : <<"entity_graph", kb>> \in r.gaps
    BY <2>2, <2>4, <2>6 DEF Range
  <2> QED BY <2>5, <2>6, <2>7, ReturnKeeps
<1>2. CASE BusinessDataReturns
  <2>1. PICK reply \in BusinessReplies : Return("business_data", RetrieveBusinessData(reply))
    BY <1>2 DEF BusinessDataReturns
  <2> QED BY <2>1, BusinessResults, ReturnKeeps
<1>3. CASE WikiReturns
  <2>1. PICK found \in WikiItems : Return("wiki_rag", RetrieveWiki(found))
    BY <1>3 DEF WikiReturns
  <2> QED BY <2>1, SimpleResults, ReturnKeeps
<1>4. CASE OntologyReturns
  <2>1. Return("ontology_graph", RetrieveOntologies(request.ontologies, request.question.words))
    BY <1>4 DEF OntologyReturns
  <2> QED BY <2>1, SimpleResults, ReturnKeeps
<1>5. CASE RetrieverFails
  <2>1. PICK s \in {"business_data", "wiki_rag"} : Return(s, AnError)
    BY <1>5 DEF RetrieverFails
  <2> QED BY <2>1, SimpleResults, ReturnKeeps
<1> QED BY <1>1, <1>2, <1>3, <1>4, <1>5 DEF Returns

LEMMA InitIsSound == Init => ContextInvariant
<1> SUFFICES ASSUME Init PROVE ContextInvariant
  OBVIOUS
<1>1. /\ stage = "idle" /\ request.bases = <<>> /\ request.down = {} /\ running = {}
      /\ items = <<>> /\ pack = NoPack /\ plan.steps = <<>>
  BY DEF Init, NoRequest, NoPlan
<1>2. IsSequence(<<>>) /\ DOMAIN <<>> = {} /\ Len(<<>>) = 0 /\ Range(<<>>) = {}
  BY EmptyIsFacts, EmptySeq DEF AreFacts, Range
<1>3. IsPack(NoPack) /\ NoPack.complete = FALSE /\ NoPack.fallback = FALSE
  BY DEF NoPack, IsPack
<1>4. TypeOK
  BY <1>1, <1>2, <1>3, FS_EmptySet DEF TypeOK
<1>5. ItemsAreSound /\ GapsAreKept /\ PackIsAssembled
  <2> HIDE DEF IsPack
  <2> QED BY <1>1, <1>2, <1>3 DEF ItemsAreSound, GapsAreKept, PackIsAssembled
<1> QED BY <1>4, <1>5 DEF ContextInvariant

LEMMA NextKeeps ==
  ASSUME ContextInvariant, [Next]_vars
  PROVE  ContextInvariant'
<1>1. CASE UNCHANGED vars
  <2>1. /\ stage' = stage /\ request' = request /\ plan' = plan
        /\ running' = running /\ items' = items /\ pack' = pack
    BY <1>1 DEF vars
  <2>2. TypeOK'
    BY <2>1 DEF ContextInvariant, TypeOK, Empty
  <2>3. PackIsAssembled'
    <3>1. AssemblePack(plan, items)' = AssemblePack(plan, items)
      BY <2>1, Zenon
    <3> QED BY <2>1, <3>1 DEF ContextInvariant, PackIsAssembled, IsPack
  <2> QED BY <2>1, <2>2, <2>3 DEF ContextInvariant, ItemsAreSound, GapsAreKept
<1>2. CASE Ask
  <2>1. PICK question \in Questions, bases \in Scopes :
          \E ontologies \in Resolutions(bases), domain \in Domains \cup {NoDomain},
             down \in SUBSET Range(bases) : Retrieve(question, bases, ontologies, domain, down)
    BY <1>2, Zenon DEF Ask
  <2>2. PICK ontologies \in Resolutions(bases), domain \in Domains \cup {NoDomain},
             down \in SUBSET Range(bases) : Retrieve(question, bases, ontologies, domain, down)
    BY <2>1
  <2> QED BY <2>2, RetrieveKeeps
<1>3. CASE Refuse
  <2>1. /\ stage' = "failed" /\ request'.bases = <<>> /\ request'.down = {} /\ running' = {}
        /\ items' = <<>> /\ pack' = NoPack /\ plan'.steps = <<>>
    BY <1>3 DEF Refuse, NoRequest, NoPlan
  <2>2. IsSequence(<<>>) /\ DOMAIN <<>> = {} /\ Len(<<>>) = 0 /\ Range(<<>>) = {}
    BY EmptyIsFacts, EmptySeq DEF AreFacts, Range
  <2>3. IsPack(NoPack) /\ NoPack.complete = FALSE /\ NoPack.fallback = FALSE
    BY DEF NoPack, IsPack
  <2>4. TypeOK'
    BY <2>1, <2>2, <2>3, FS_EmptySet DEF TypeOK
  <2>5. ItemsAreSound' /\ GapsAreKept' /\ PackIsAssembled'
    <3> HIDE DEF IsPack
    <3> QED BY <2>1, <2>2, <2>3 DEF ItemsAreSound, GapsAreKept, PackIsAssembled
  <2> QED BY <2>4, <2>5 DEF ContextInvariant
<1>4. CASE Returns
  BY <1>4, RetrieversKeep
<1>5. CASE Assemble
  <2>9. pack' = AssemblePack(plan, items)
    BY <1>5 DEF Assemble
  <2>1. /\ stage = "retrieving" /\ running = {}
        /\ stage' \in {"fallback", "answered"}
        /\ stage' = "fallback" => Empty(pack')
        /\ request' = request /\ plan' = plan /\ running' = running /\ items' = items
    BY <1>5 DEF Assemble
  <2>2. /\ IsPack(pack') /\ pack'.gaps = UNION {r.gaps : r \in Range(items)}
        /\ pack'.complete \in BOOLEAN /\ pack'.fallback = FALSE
    <3>1. \A a, b : (a /\ b) \in BOOLEAN
      OBVIOUS
    <3> QED BY <2>9, PackFields, <3>1
  <2>3. TypeOK'
    BY <2>1, <2>2 DEF ContextInvariant, TypeOK, Empty
  <2>4. ItemsAreSound' /\ GapsAreKept'
    BY <2>1, <2>2 DEF ContextInvariant, ItemsAreSound, GapsAreKept
  <2>5. PackIsAssembled'
    <3>1. AssemblePack(plan, items)' = AssemblePack(plan, items)
      BY <2>1, Zenon
    <3>2. pack' = AssemblePack(plan, items)'
      BY <2>9, <3>1
    <3>3. IsPack(pack)'
      BY <2>2 DEF IsPack
    <3>4. stage' \notin {"idle", "retrieving", "failed"} /\ ~pack'.fallback
      BY <2>1, <2>2
    <3> QED BY <3>2, <3>3, <3>4 DEF PackIsAssembled
  <2> QED BY <2>3, <2>4, <2>5 DEF ContextInvariant
<1>6. CASE Fallback
  <2>1. PICK found : pack' = [pack EXCEPT !.knowledge = found, !.fallback = found # {}]
    BY <1>6 DEF Fallback
  <2>2. /\ stage = "fallback" /\ stage' = "answered"
        /\ request' = request /\ plan' = plan /\ running' = running /\ items' = items
    BY <1>6 DEF Fallback
  <2>3. /\ IsPack(pack) /\ pack = AssemblePack(plan, items) /\ Empty(pack)
    BY <2>2 DEF ContextInvariant, PackIsAssembled, TypeOK
  <2>4. pack.complete = FALSE /\ pack.gaps = UNION {r.gaps : r \in Range(items)}
    BY <2>3, PackFields
  <2>5. /\ IsPack(pack') /\ pack'.complete = pack.complete /\ pack'.gaps = pack.gaps
        /\ pack'.fallback = (found # {})
    <3>1. PICK k : k = [pack EXCEPT !.knowledge = found]
      OBVIOUS
    <3>2. pack' = [k EXCEPT !.fallback = found # {}]
      BY <2>1, <3>1
    <3>3. IsPack(k) /\ k.complete = pack.complete /\ k.gaps = pack.gaps
      BY <2>3, <3>1 DEF IsPack
    <3> QED BY <3>2, <3>3 DEF IsPack
  <2>6. TypeOK'
    BY <2>2, <2>4, <2>5 DEF ContextInvariant, TypeOK
  <2>7. ItemsAreSound' /\ GapsAreKept'
    BY <2>2, <2>4, <2>5 DEF ContextInvariant, ItemsAreSound, GapsAreKept
  <2>8. PackIsAssembled'
    BY <2>2, <2>4, <2>5 DEF PackIsAssembled, IsPack
  <2> QED BY <2>6, <2>7, <2>8 DEF ContextInvariant
<1> QED BY <1>1, <1>2, <1>3, <1>4, <1>5, <1>6 DEF Next, Returns

LEMMA ContextIsSound == Spec => []ContextInvariant
BY InitIsSound, NextKeeps, PTL DEF Spec

(***************************************************************************)
(* What an agent may rely on                                               *)
(***************************************************************************)

(* A request has a shape in every state: each planned source is waited for *)
(* or has exactly one result, and only a pack without content waits for    *)
(* the fallback.                                                           *)
THEOREM Typed == Spec => []TypeOK
<1>1. ContextInvariant => TypeOK
  BY DEF ContextInvariant
<1> QED BY <1>1, ContextIsSound, PTL

(* Documents of the fallback never make a pack complete.                   *)
THEOREM FallbacksStayIncomplete == Spec => []FallbackNeverCompletes
<1>1. ContextInvariant => FallbackNeverCompletes
  BY DEF ContextInvariant, PackIsAssembled, FallbackNeverCompletes
<1> QED BY <1>1, ContextIsSound, PTL

(* Every knowledge base that could not be asked is named in the answer.    *)
THEOREM MissingBasesAreNamed == Spec => []UnaskedBasesAreNamed
<1>1. ContextInvariant => UnaskedBasesAreNamed
  <2> SUFFICES ASSUME ContextInvariant, Answered, Planned("entity_graph"),
                      "entity_graph" \in Retrievers, NEW kb \in request.down
               PROVE  <<"entity_graph", kb>> \in pack.gaps
    BY DEF UnaskedBasesAreNamed
  <2>1. running = {} /\ "entity_graph" \in DOMAIN plan.steps
    BY DEF ContextInvariant, ItemsAreSound, Answered, Planned
  <2>2. "entity_graph" \in {r.source : r \in Range(items)}
    BY <2>1 DEF ContextInvariant, TypeOK
  <2>3. PICK r \in Range(items) : r.source = "entity_graph"
    BY <2>2
  <2>4. <<"entity_graph", kb>> \in r.gaps
    BY <2>3 DEF ContextInvariant, GapsAreKept
  <2>5. pack.gaps = UNION {x.gaps : x \in Range(items)}
    BY DEF ContextInvariant, GapsAreKept, Answered
  <2> QED BY <2>4, <2>5
<1> QED BY <1>1, ContextIsSound, PTL

(***************************************************************************)
(* Comparable facts are judged as a set                                    *)
(***************************************************************************)
DisputedSlots(F) == {slot \in {x.slot : x \in F} : Disputed(F, slot)}

AcceptedValues(F) ==
  {<<x.slot, x.value>> : x \in {x \in F : x \in BestOf(F, x.slot) /\ ~Disputed(F, x.slot)}}

UnresolvedSlots(V) == {v.slot : v \in {v \in V : v.status = "unresolved_conflict"}}

ValuesOf(facts) == {<<f.slot, f.value>> : f \in facts}

LEMMA VerdictsOnSets ==
  ASSUME NEW s, AreFacts(s), IsComparable(Range(s))
  PROVE  /\ UnresolvedSlots(Arbitrate(s)) = DisputedSlots(Range(s))
         /\ ValuesOf(UNION {v.accepted : v \in Arbitrate(s)}) = AcceptedValues(Range(s))
<1> DEFINE F == Range(s)
           slots == {x.slot : x \in F}
           verdict(slot) == ArbitrateSlot(s, slot)
<1>1. ASSUME NEW slot \in slots
      PROVE  /\ verdict(slot).slot = slot
             /\ verdict(slot).status = "unresolved_conflict" <=> Disputed(F, slot)
             /\ Disputed(F, slot) => verdict(slot).accepted = {}
             /\ ~Disputed(F, slot) =>
                  /\ \A f \in verdict(slot).accepted : f \in BestOf(F, slot)
                  /\ \A x \in BestOf(F, slot) : \E f \in verdict(slot).accepted : f.value = x.value
  BY VerdictOnSlot DEF AreFacts
<1>2. Arbitrate(s) = {verdict(slot) : slot \in slots}
  BY Zenon DEF Arbitrate
<1>3. \A slot : \A x \in BestOf(F, slot) : x \in F /\ x.slot = slot
  BY DEF BestOf, Contenders
<1> HIDE DEF verdict, F
<1>4. UnresolvedSlots(Arbitrate(s)) = DisputedSlots(F)
  BY <1>1, <1>2 DEF UnresolvedSlots, DisputedSlots
<1>5. ASSUME NEW v \in Arbitrate(s), NEW f \in v.accepted
      PROVE  <<f.slot, f.value>> \in AcceptedValues(F)
  <2>1. PICK slot \in slots : v = verdict(slot)
    BY <1>2
  <2>2. ~Disputed(F, slot) /\ f \in BestOf(F, slot)
    BY <1>1, <1>5, <2>1
  <2>3. f \in F /\ f.slot = slot
    BY <1>3, <2>2
  <2> QED BY <2>2, <2>3 DEF AcceptedValues
<1>6. ASSUME NEW x \in F, x \in BestOf(F, x.slot), ~Disputed(F, x.slot)
      PROVE  \E v \in Arbitrate(s) : \E f \in v.accepted : f.slot = x.slot /\ f.value = x.value
  <2>1. x.slot \in slots
    BY <1>6
  <2>2. PICK f \in verdict(x.slot).accepted : f.value = x.value
    BY <1>1, <1>6, <2>1
  <2>3. f.slot = x.slot
    BY <1>1, <1>3, <1>6, <2>1, <2>2
  <2> QED BY <1>2, <2>1, <2>2, <2>3
<1>7. ValuesOf(UNION {v.accepted : v \in Arbitrate(s)}) \subseteq AcceptedValues(F)
  BY <1>5 DEF ValuesOf
<1>8. AcceptedValues(F) \subseteq ValuesOf(UNION {v.accepted : v \in Arbitrate(s)})
  BY <1>6 DEF ValuesOf, AcceptedValues
<1> QED BY <1>4, <1>7, <1>8 DEF F

(* A pack is complete only if it is earned: every required source has an   *)
(* item with content, and no comparable fact disputes the best of a slot.  *)
THEOREM CompletenessIsEarned == Spec => []CompleteIsEarned
<1>1. ContextInvariant => CompleteIsEarned
  <2> SUFFICES ASSUME ContextInvariant, Answered, pack.complete
               PROVE  /\ \A s \in DOMAIN plan.steps : plan.steps[s] =>
                           \E r \in Range(items) :
                             r.source = s /\ (r.assertions # <<>> \/ r.knowledge # {} \/ r.paths # {})
                      /\ Comparable =>
                           \A x, y \in ValidFacts :
                             /\ x.slot = y.slot /\ x.value # y.value
                             /\ \A z \in ValidFacts : z.slot = x.slot => Score(z) <= Score(x)
                             => Score(x) - Score(y) > DefaultDelta
    BY DEF CompleteIsEarned
  <2>1. pack = AssemblePack(plan, items)
    BY DEF ContextInvariant, PackIsAssembled
  <2>2. Blocking(plan, items) = {}
    BY <2>1, PackFields
  <2>3. ASSUME NEW s \in DOMAIN plan.steps, plan.steps[s]
        PROVE  \E r \in Range(items) :
                 r.source = s /\ (r.assertions # <<>> \/ r.knowledge # {} \/ r.paths # {})
    <3>1. running = {}
      BY DEF ContextInvariant, ItemsAreSound, Answered
    <3>2. s \in {r.source : r \in Range(items)}
      BY <3>1 DEF ContextInvariant, TypeOK
    <3>3. PICK r \in Range(items) : r.source = s
      BY <3>2
    <3>4. IsItem(plan, r)
      BY DEF ContextInvariant, ItemsAreSound
    <3>5. r.required
      BY <2>3, <3>3, <3>4 DEF IsItem
    <3>6. r.satisfied
      BY <2>2, <3>5 DEF Blocking
    <3>7. Usable(r)
      BY <3>4, <3>6 DEF IsItem
    <3> QED BY <3>3, <3>7 DEF Usable
  <2>4. ASSUME Comparable, NEW x \in ValidFacts, NEW y \in ValidFacts,
               x.slot = y.slot, x.value # y.value,
               \A z \in ValidFacts : z.slot = x.slot => Score(z) <= Score(x)
        PROVE  Score(x) - Score(y) > DefaultDelta
    <3> DEFINE F == Range(Assertions)
    <3>1. Assertions = FactsOf(items)
      BY DEF Assertions, FactsOf
    <3>2. AreFacts(Assertions)
      BY <3>1, FactsOfItems DEF ContextInvariant, ItemsAreSound, IsItem
    <3>3. IsComparable(F)
      BY <2>4 DEF Comparable, IsComparable
    <3>4. UnresolvedSlots(Arbitrate(Assertions)) = DisputedSlots(F)
      BY <3>2, <3>3, VerdictsOnSets
    <3>5. UnresolvedSlots(Arbitrate(Assertions)) = {}
      <4>1. \A v \in Arbitrate(FactsOf(items)) :
              v.status = "unresolved_conflict" => <<"fact", v.slot>> \in Blocking(plan, items)
        BY DEF Blocking
      <4> QED BY <2>2, <3>1, <4>1 DEF UnresolvedSlots
    <3>6. x \in F /\ y \in F /\ x.valid /\ y.valid
      BY DEF ValidFacts
    <3>7. ~Disputed(F, x.slot)
      BY <3>4, <3>5, <3>6 DEF DisputedSlots
    <3>8. y \in Contenders(F, x.slot)
      BY <2>4, <3>6 DEF Contenders
    <3>9. x \in BestOf(F, x.slot)
      BY <2>4, <3>6 DEF BestOf, Contenders, ValidFacts
    <3>10. Score(x) \in Int /\ Score(y) \in Int
      BY <3>2, <3>6 DEF AreFacts
    <3>11. ~(Score(x) - Score(y) <= DefaultDelta)
      BY <2>4, <3>7, <3>8, <3>9 DEF Disputed
    <3> QED BY <3>10, <3>11 DEF DefaultDelta
  <2> QED BY <2>3, <2>4
<1> QED BY <1>1, ContextIsSound, PTL

(* Where the facts can be compared, an answer is the same in whatever      *)
(* order the retrievers returned.                                          *)
THEOREM OrderDoesNotMatter == Spec => []ComparableFactsInAnyOrder
<1>1. ASSUME NEW p, NEW s, NEW t, IsSequence(s), IsSequence(t), Range(s) = Range(t),
             \A r \in Range(s) : AreFacts(r.assertions), IsComparable(Range(FactsOf(s)))
      PROVE  Gist(AssemblePack(p, s)) = Gist(AssemblePack(p, t))
  <2> DEFINE a == AssemblePack(p, s)
             b == AssemblePack(p, t)
  <2>1. AreFacts(FactsOf(s)) /\ AreFacts(FactsOf(t)) /\ Range(FactsOf(s)) = Range(FactsOf(t))
    BY <1>1, FactsOfItems
  <2>2. /\ UnresolvedSlots(Arbitrate(FactsOf(s))) = UnresolvedSlots(Arbitrate(FactsOf(t)))
        /\ ValuesOf(UNION {v.accepted : v \in Arbitrate(FactsOf(s))})
             = ValuesOf(UNION {v.accepted : v \in Arbitrate(FactsOf(t))})
    BY <1>1, <2>1, VerdictsOnSets
  <2>3. ASSUME NEW results
        PROVE  Blocking(p, results) =
                 {<<"ontology", term>> : term \in p.blockingIssues}
                 \cup {<<"source", r.source>> : r \in {r \in Range(results) : r.required /\ ~r.satisfied}}
                 \cup {<<"fact", slot>> : slot \in UnresolvedSlots(Arbitrate(FactsOf(results)))}
    BY DEF Blocking, UnresolvedSlots
  <2>4. Blocking(p, s) = Blocking(p, t)
    BY <1>1, <2>2, <2>3
  <2>5. /\ a.blocking = b.blocking /\ a.knowledge = b.knowledge /\ a.paths = b.paths
        /\ ValuesOf(a.facts) = ValuesOf(b.facts)
        /\ a.complete = (a.blocking = {} /\ ~Empty(a))
        /\ b.complete = (b.blocking = {} /\ ~Empty(b))
    <3>1. /\ a.blocking = Blocking(p, s) /\ b.blocking = Blocking(p, t)
          /\ a.knowledge = UNION {r.knowledge : r \in Range(s)}
          /\ b.knowledge = UNION {r.knowledge : r \in Range(t)}
          /\ a.paths = UNION {r.paths : r \in Range(s)}
          /\ b.paths = UNION {r.paths : r \in Range(t)}
      BY PackFields
    <3>2. /\ a.facts = UNION {v.accepted : v \in Arbitrate(FactsOf(s))}
          /\ b.facts = UNION {v.accepted : v \in Arbitrate(FactsOf(t))}
          /\ a.complete = (a.blocking = {} /\ ~Empty(a))
          /\ b.complete = (b.blocking = {} /\ ~Empty(b))
      BY PackFields
    <3> HIDE DEF a, b
    <3>3. a.blocking = b.blocking /\ a.knowledge = b.knowledge /\ a.paths = b.paths
      BY <1>1, <2>4, <3>1, Zenon
    <3>4. ValuesOf(a.facts) = ValuesOf(b.facts)
      BY <2>2, <3>2, Zenon
    <3> QED BY <3>2, <3>3, <3>4
  <2> HIDE DEF a, b
  <2>6. a.facts = {} <=> b.facts = {}
    BY <2>5 DEF ValuesOf
  <2>7. Empty(a) = Empty(b)
    BY <2>5, <2>6 DEF Empty
  <2>8. a.complete = b.complete
    BY <2>5, <2>7
  <2>9. Gist(a) = Gist(b)
    BY <2>5, <2>8, Zenon DEF Gist, ValuesOf
  <2> QED BY <2>9 DEF a, b
<1>2. ContextInvariant => ComparableFactsInAnyOrder
  <2> SUFFICES ASSUME ContextInvariant, Comparable, NEW t \in Rearrangements(items)
               PROVE  Gist(AssemblePack(plan, t)) = Gist(AssemblePack(plan, items))
    BY DEF ComparableFactsInAnyOrder, SameInAnyOrder
  <2>1. PICK q \in Bijection(DOMAIN items, DOMAIN items) : t = [i \in DOMAIN items |-> items[q[i]]]
    BY DEF Rearrangements
  <2>2. /\ q \in [DOMAIN items -> DOMAIN items]
        /\ \A j \in DOMAIN items : \E i \in DOMAIN items : q[i] = j
    BY DEF Bijection, Surjection
  <2>3. IsSequence(items) /\ Len(items) \in Nat /\ DOMAIN items = 1..Len(items)
    BY LenProperties DEF ContextInvariant, ItemsAreSound, IsSequence
  <2>4. DOMAIN t = 1..Len(items) /\ t = [i \in DOMAIN t |-> t[i]]
    BY <2>1, <2>3
  <2>5. IsSequence(t)
    BY <2>3, <2>4, FunctionsOfIndexes
  <2>6. Range(t) = Range(items)
    BY <2>1, <2>2 DEF Range
  <2>7. \A r \in Range(items) : AreFacts(r.assertions)
    BY DEF ContextInvariant, ItemsAreSound, IsItem
  <2>8. Assertions = FactsOf(items)
    BY DEF Assertions, FactsOf
  <2>9. IsComparable(Range(FactsOf(items)))
    BY <2>8 DEF Comparable, IsComparable
  <2>10. Gist(AssemblePack(plan, items)) = Gist(AssemblePack(plan, t))
    BY <1>1, <2>3, <2>5, <2>6, <2>7, <2>9
  <2> QED BY <2>10
<1> QED BY <1>2, ContextIsSound, PTL
==============================================================================
