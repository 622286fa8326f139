----------------------------- MODULE MCOntology -----------------------------
(***************************************************************************)
(* Instances of OntologyRegistry for TLC.                                  *)
(***************************************************************************)
EXTENDS OntologyProperties, TLC

CONSTANTS grid, v1, v2, kb1, power, water, b1, f1, f2, server, command

(* Directories, bindings and versions are named apart. *)
MCFileName ==
  [n \in Names |-> IF n = v2 THEN f2 ELSE f1]

(* An ontology as discovery leaves it, one of another domain, one that is  *)
(* broken, one that was marked as approved before its review.              *)
Discovered(id) ==
  [id |-> id, version |-> v1, domain |-> power, body |-> b1, status |-> "candidate",
   valid |-> TRUE, openRisk |-> FALSE]

Rewritten  == [Discovered(grid) EXCEPT !.domain = water]
Broken     == [Discovered(grid) EXCEPT !.valid = FALSE]
Unreviewed == [Discovered(grid) EXCEPT !.openRisk = TRUE]

Approved(S) == {ApproveSnapshot(o, v) : o \in {x \in S : Approvable(x)}, v \in Versions}

MCApproved   == Approved({Discovered(grid), Broken})
MCUnreviewed ==
  MCApproved \cup {Discovered(grid), [Unreviewed EXCEPT !.status = "approved", !.version = v2]}
MCTwoDomains == Approved({Discovered(grid), Rewritten})

MCSole   == [p \in Processes |-> IF p = server THEN OntologyIds ELSE {}]
MCShared == [p \in Processes |-> OntologyIds]
=============================================================================
