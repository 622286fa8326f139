--------------------------- MODULE PromotionStore ---------------------------
(***************************************************************************)
(* FSStore of internal/promotion/store.go: one JSON file per candidate.    *)
(* The mutex makes each call one step, and the write to a temporary file,  *)
(* fsync and rename make the file change all at once, also when the        *)
(* process dies.                                                           *)
(***************************************************************************)
EXTENDS PromotionTypes

VARIABLE store  \* candidate id -> the candidate in its file, or None

StoreType == store \in [CandidateIds -> Candidate \cup {None}]

StoreInit == store = [id \in CandidateIds |-> None]

(* Create: refused when the file exists. *)
StoreCreate(c) ==
  /\ store[c.id] = None
  /\ store' = [store EXCEPT ![c.id] = c]

(* Faulty: a conflict is not reported to the request. *)
VersionConflictIgnored(c) == FALSE

(* Update finds another version than the one the caller read. *)
VersionConflict(c) == store[c.id] # None /\ store[c.id].version # c.version

(* Faulty: the update compares with the version to be written. *)
StoreUpdateOffByOne(c) ==
  /\ store[c.id] # None
  /\ store[c.id].version = c.version + 1
  /\ store' = [store EXCEPT ![c.id] = [c EXCEPT !.version = @ + 1]]

(* Faulty: the write is not conditional on the version. *)
StoreUpdateUnchecked(c) ==
  /\ store[c.id] # None
  /\ store' = [store EXCEPT ![c.id] = [c EXCEPT !.version = @ + 1]]

(* Service.update and FSStore.Update: the candidate c that a request read  *)
(* and changed replaces the stored one, one version later, provided that   *)
(* the stored one still has the version that was read.                     *)
StoreUpdate(c) ==
  /\ store[c.id] # None
  /\ store[c.id].version = c.version
  /\ store' = [store EXCEPT ![c.id] = [c EXCEPT !.version = @ + 1]]
=============================================================================
