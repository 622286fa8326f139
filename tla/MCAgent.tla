------------------------------ MODULE MCAgent ------------------------------
(***************************************************************************)
(* A small gateway: one profile and another one, two workspaces, a session *)
(* with a session id and one without.                                      *)
(***************************************************************************)
EXTENDS AgentProperties, TLC

CONSTANTS p1, p2, s1, s2, t1, t2, w1, w2, a, b

MCWorkspaceOrder == <<w1, w2>>
MCKeys           == {KeyOf(s, g) : s \in Sessions, g \in 0..MaxResets}

(* p1 owns w1, p2 owns w2 and sees w1; each has a session.                 *)
MCInit ==
  /\ Init
  /\ members = (w1 :> (p1 :> "owner" @@ p2 :> "viewer") @@ w2 :> (p1 :> None @@ p2 :> "owner"))
  /\ actor = (s1 :> p1 @@ s2 :> p2)

MCSpec == MCInit /\ [][Next]_vars

Symmetry == Permutations({t1, t2}) \cup Permutations({a, b})
=============================================================================
