-------------------------- MODULE KnowledgeArbiter --------------------------
(***************************************************************************)
(* The arbiter (internal/retrieval/arbiter.go): of the facts the sources   *)
(* state for one slot, the one that is accepted, or that none is.          *)
(*                                                                         *)
(* An assertion is [id, slot, value, source, authority, confidence, valid, *)
(* scope, supersedes]; valid says whether the time of the question lies    *)
(* between its valid_from and valid_to.  Weights are in hundredths, scores *)
(* in ten-thousandths.  The policies of single predicates are not set by   *)
(* the runtime (runtimecontext/service.go:96), so neither an age limit nor *)
(* a preference for newer facts applies.                                   *)
(***************************************************************************)
EXTENDS Integers, SequencesExt

IsSequence(s) == s \in Seq(Range(s))

IsAssertion(x) ==
  /\ x = [id |-> x.id, slot |-> x.slot, value |-> x.value, source |-> x.source,
          authority |-> x.authority, confidence |-> x.confidence, valid |-> x.valid,
          scope |-> x.scope, supersedes |-> x.supersedes]
  /\ x.authority \in Int /\ x.confidence \in Int /\ x.valid \in BOOLEAN

SourcePriority == [business_data |-> 100, entity_graph |-> 80, weknora |-> 60]
DefaultDelta   == 500

Score(x) ==
  65 * (IF x.source \in DOMAIN SourcePriority THEN SourcePriority[x.source] ELSE x.authority)
    + 35 * x.confidence

(* Scopes that disagree on a key they share are of different facts; a      *)
(* scope is a function from keys, empty if the source gave none.           *)
ScopeCompatible(a, b) == \A k \in DOMAIN a \cap DOMAIN b : a[k] = b[k]

IsSupersededBy(old, new) == old.id \in new.supersedes

(* The assertions are a sequence s, and some of them a set I of positions. *)

(* Faulty: the facts are not sorted. *)
FirstArrived(s, I) == Min(I)

(* The first of the best: the sort by score is stable.                     *)
FirstBest(s, I) ==
  CHOOSE i \in I : \A j \in I : /\ Score(s[j]) <= Score(s[i])
                                /\ j < i => Score(s[j]) < Score(s[i])

(* Candidates whose scope does not fit that of the first one are left out. *)
ArbitrateSlot(s, slot) ==
  LET candidates == {i \in DOMAIN s : s[i].slot = slot}
      first      == s[Min(candidates)]
      valid      == {i \in candidates : s[i].valid /\ ScopeCompatible(s[i].scope, first.scope)}
      top        == s[FirstBest(s, valid)]
      conflicts  == {i \in valid : s[i].value # top.value /\ ~IsSupersededBy(s[i], top)}
      second     == s[FirstBest(s, conflicts)]
      verdict(status, accepted) == [slot |-> slot, status |-> status, accepted |-> accepted]
  IN  IF valid = {} THEN verdict("no_valid_assertion", {})
      ELSE IF conflicts = {} THEN verdict("accepted", {top})
      ELSE IF Score(top) - Score(second) <= DefaultDelta THEN verdict("unresolved_conflict", {})
      ELSE verdict("accepted_with_conflict", {top})

Arbitrate(s) == {ArbitrateSlot(s, slot) : slot \in {x.slot : x \in Range(s)}}
=============================================================================
