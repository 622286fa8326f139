-------------------------- MODULE WorkspaceRegistry --------------------------
(***************************************************************************)
(* The workspace core (integrations/openclaw/workspace-core/index.js): who *)
(* is a member of which workspace, which workspace a profile has selected, *)
(* and the workspace a conversation is bound to.                           *)
(*                                                                         *)
(* Memberships are in the registry file, selections and bindings in the    *)
(* state file.  All plugins run in one Node process and every method is    *)
(* synchronous and replaces a file by a rename: a method is one step.      *)
(***************************************************************************)
EXTENDS Naturals, Sequences, FiniteSets

CONSTANTS
  Profiles,        \* human profiles
  Workspaces,      \* workspaces
  WorkspaceOrder,  \* the workspaces as the registry lists them
  Keys,            \* session binding keys
  Roles,           \* the roles of members, "owner" among them
  None             \* no role, no selection, no binding, no workspace

ASSUME WorkspaceAssumption ==
  /\ WorkspaceOrder \in Seq(Workspaces)
  /\ Workspaces = {WorkspaceOrder[i] : i \in DOMAIN WorkspaceOrder}
  /\ "owner" \in Roles
  /\ None \notin Roles \cup Workspaces \cup Profiles
  /\ None \notin [profile : Profiles, workspace : Workspaces]

VARIABLES
  members,    \* the registry: the role of a profile in a workspace
  selected,   \* the state: the workspace a profile switched to
  bound       \* the state: the profile and workspace of a conversation

registryVars == <<members, selected, bound>>

IsMember(p, w) == members[w][p] # None
IsOwner(p, w)  == members[w][p] = "owner"
Owners(w)      == {p \in Profiles : IsOwner(p, w)}

(* Somebody has set up the registry with an owner for every workspace.     *)
RegistryInit ==
  /\ members \in [Workspaces -> [Profiles -> Roles \cup {None}]]
  /\ \A w \in Workspaces : Owners(w) # {}
  /\ selected = [p \in Profiles |-> None]
  /\ bound = [k \in Keys |-> None]

(***************************************************************************)
(* resolve: the workspace a profile works in, or None for a refusal.  A    *)
(* workspace that is asked for or selected must be accessible; without one *)
(* it is the first accessible one.                                         *)
(***************************************************************************)
Accessible(p) == {i \in DOMAIN WorkspaceOrder : IsMember(p, WorkspaceOrder[i])}

FirstAccessible(p) ==
  WorkspaceOrder[CHOOSE i \in Accessible(p) : \A j \in Accessible(p) : i <= j]

Resolve(p, requested) ==
  LET wanted == IF requested # None THEN requested ELSE selected[p]
  IN  IF Accessible(p) = {} THEN None
      ELSE IF wanted = None THEN FirstAccessible(p)
      ELSE IF IsMember(p, wanted) THEN wanted ELSE None

(***************************************************************************)
(* resolveSession: a conversation is bound on first access and keeps its   *)
(* workspace; the session of another profile, a workspace that was lost or *)
(* a session without a human are refused.                                  *)
(***************************************************************************)
Binding(p, w) == [profile |-> p, workspace |-> w]

(* Faulty: the workspace of the binding is written and never read. *)
SelectedWorkspace(p, k) ==
  IF p = None \/ (bound[k] # None /\ bound[k].profile # p) THEN None ELSE Resolve(p, None)

(* Faulty: a binding is taken without looking at the members. *)
BoundWorkspace(p, k) ==
  IF p = None THEN None
  ELSE IF bound[k] = None THEN Resolve(p, None)
  ELSE IF bound[k].profile = p THEN bound[k].workspace ELSE None

SessionWorkspace(p, k) ==
  IF p = None THEN None
  ELSE IF bound[k] = None THEN Resolve(p, None)
  ELSE IF bound[k].profile = p THEN Resolve(p, bound[k].workspace) ELSE None

ResolveSession(p, k) ==
  /\ bound' = IF SessionWorkspace(p, k) # None /\ bound[k] = None
              THEN [bound EXCEPT ![k] = Binding(p, SessionWorkspace(p, k))] ELSE bound
  /\ UNCHANGED <<members, selected>>

(***************************************************************************)
(* switch, upsertMember, removeMember                                      *)
(***************************************************************************)
Switch(p, w) ==
  /\ Resolve(p, w) = w
  /\ selected' = [selected EXCEPT ![p] = w]
  /\ UNCHANGED <<members, bound>>

(* Faulty: the owners are not counted. *)
MayDemote(w, target, role) == TRUE

(* The last owner of a workspace may not be given another role.            *)
MayUpsert(w, target, role) ==
  IsOwner(target, w) /\ role # "owner" => Cardinality(Owners(w)) > 1

UpsertMember(caller, w, target, role) ==
  /\ IsOwner(caller, w)
  /\ MayUpsert(w, target, role)
  /\ members' = [members EXCEPT ![w][target] = role]
  /\ UNCHANGED <<selected, bound>>

MayRemove(w, target) ==
  IsMember(target, w) /\ (IsOwner(target, w) => Cardinality(Owners(w)) > 1)

RemoveMember(caller, w, target) ==
  /\ IsOwner(caller, w)
  /\ caller # target
  /\ MayRemove(w, target)
  /\ members' = [members EXCEPT ![w][target] = None]
  /\ UNCHANGED <<selected, bound>>

Administer ==
  \/ \E p \in Profiles, w \in Workspaces : Switch(p, w)
  \/ \E c, t \in Profiles, w \in Workspaces, r \in Roles : UpsertMember(c, w, t, r)
  \/ \E c, t \in Profiles, w \in Workspaces : RemoveMember(c, w, t)
=============================================================================
