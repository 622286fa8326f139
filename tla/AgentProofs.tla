----------------------------- MODULE AgentProofs -----------------------------
(***************************************************************************)
(* Proofs about the workspaces and conversations of agents, for any number *)
(* of profiles, workspaces, sessions and hooks.                            *)
(***************************************************************************)
EXTENDS AgentProperties, FiniteSetTheorems, WellFoundedInduction, TLAPS

(***************************************************************************)
(* Lemmas about the workspace registry                                     *)
(***************************************************************************)

(* A set of naturals that is not empty has a least member.                 *)
LEMMA LeastExists ==
  ASSUME NEW S \in SUBSET Nat, S # {}
  PROVE  \E i \in S : \A j \in S : i <= j
<1>1. PICK i \in S : \A j \in S : ~(<<j, i>> \in OpToRel(<, Nat))
  BY NatLessThanWellFounded, WFMin, Zenon
<1>2. \A j \in S : ~(j < i)
  BY <1>1 DEF OpToRel
<1> QED BY <1>2

(* Without a choice of its own a profile works where it is a member.       *)
LEMMA FirstIsAccessible ==
  ASSUME NEW p, Accessible(p) # {}
  PROVE  FirstAccessible(p) \in Workspaces /\ IsMember(p, FirstAccessible(p))
<1>1. Accessible(p) \in SUBSET Nat
  BY WorkspaceAssumption DEF Accessible
<1>2. \E i \in Accessible(p) : \A j \in Accessible(p) : i <= j
  BY <1>1, LeastExists
<1> QED BY <1>2, WorkspaceAssumption DEF FirstAccessible, Accessible

(* A session works in the workspace its conversation is bound to, and only *)
(* as a member; otherwise it does not work at all.                         *)
LEMMA SessionWorkspaceIsMine ==
  ASSUME TypeOK, NEW p \in Profiles \cup {None}, NEW k \in Keys,
         SessionWorkspace(p, k) # None
  PROVE  /\ p \in Profiles
         /\ SessionWorkspace(p, k) \in Workspaces
         /\ IsMember(p, SessionWorkspace(p, k))
         /\ bound[k] # None => bound[k] = Binding(p, SessionWorkspace(p, k))
<1> DEFINE R(x) == Resolve(p, x)
<1>1. ASSUME NEW x \in Workspaces \cup {None}, R(x) # None
      PROVE  /\ R(x) \in Workspaces
             /\ IsMember(p, R(x))
             /\ x # None => R(x) = x
  <2>1. p \in Profiles => selected[p] \in Workspaces \cup {None}
    BY DEF TypeOK
  <2>2. CASE x # None
    BY <1>1, <2>2 DEF Resolve
  <2>3. CASE x = None /\ selected[p] = None
    BY <1>1, <2>3, FirstIsAccessible DEF Resolve
  <2>4. CASE x = None /\ selected[p] # None
    <3>1. R(x) = selected[p] /\ IsMember(p, selected[p])
      BY <1>1, <2>4 DEF Resolve
    <3> QED
      BY <1>1, <2>1, <2>4, <3>1 DEF SessionWorkspace
  <2> QED
    BY <2>2, <2>3, <2>4
<1>2. p \in Profiles
  BY DEF SessionWorkspace
<1>3. CASE bound[k] = None
  <2>1. SessionWorkspace(p, k) = R(None)
    BY <1>2, <1>3, WorkspaceAssumption DEF SessionWorkspace
  <2> QED
    BY <1>1, <1>2, <1>3, <2>1
<1>4. CASE bound[k] # None
  <2>1. bound[k] \in [profile : Profiles, workspace : Workspaces]
    BY <1>4 DEF TypeOK
  <2>2. SessionWorkspace(p, k) = R(bound[k].workspace) /\ bound[k].profile = p
    BY <1>2, <1>4, WorkspaceAssumption DEF SessionWorkspace
  <2>3. SessionWorkspace(p, k) = bound[k].workspace
    BY <1>1, <2>1, <2>2, WorkspaceAssumption
  <2> QED
    BY <1>1, <1>2, <2>1, <2>2, <2>3, WorkspaceAssumption DEF Binding
<1> QED
  BY <1>3, <1>4

(***************************************************************************)
(* The inductive invariant.  Every hook under way works in the binding of  *)
(* its conversation, a conversation has reached only the workspace it is   *)
(* bound to, and bindings never change: that is what keeps a conversation  *)
(* in one workspace.                                                       *)
(***************************************************************************)
Ready(x) ==
  /\ x.at \in {"user", "assistant"} => x.turn \in Turns
  /\ x.at = "get" => x.skill \in SkillNames

InBinding(c) == bound[c.key] = Binding(c.profile, c.workspace)

TasksWork ==
  \A t \in Tasks : tasks[t] # Idle => Ready(tasks[t]) /\ InBinding(ConversationOf(t))

ReachedInBinding ==
  \A k \in Keys : \A w \in reached[k] : bound[k] # None /\ bound[k].workspace = w

SkillsCounted == \A w \in Workspaces, n \in SkillNames : skills[w][n] <= events + 1

IInv ==
  TypeOK /\ OwnersRemain /\ TasksWork /\ ReachedInBinding /\ PromptsCarryOneSkill /\ SkillsCounted

(* Bindings are only added. *)
BindingsStay == \A k \in Keys : bound[k] # None => bound'[k] = bound[k]

LEMMA InitHolds == Init => IInv
<1> SUFFICES ASSUME Init PROVE IInv
  OBVIOUS
<1>1. TypeOK
  BY WorkspaceAssumption, RuntimeAssumption
  DEF Init, RegistryInit, TypeOK, TaskType, Idle, Conversations
<1>2. OwnersRemain
  BY DEF Init, RegistryInit, OwnersRemain
<1>3. TasksWork /\ ReachedInBinding /\ PromptsCarryOneSkill /\ SkillsCounted
  BY DEF Init, TasksWork, ReachedInBinding, PromptsCarryOneSkill, SkillsCounted
<1> QED BY <1>1, <1>2, <1>3 DEF IInv

(***************************************************************************)
(* Lemmas about the parts of a step                                        *)
(***************************************************************************)

(* The conversation that starts for a session has a key.                   *)
LEMMA CurrentKeyTyped ==
  ASSUME TypeOK, NEW s \in Sessions
  PROVE  CurrentKey(s) \in Keys /\ actor[s] \in Profiles \cup {None}
BY KeysAssumption DEF TypeOK, CurrentKey

(* Resolving a session adds at most the binding of that session.           *)
LEMMA ResolveSessionBinds ==
  ASSUME TypeOK, NEW p \in Profiles \cup {None}, NEW k \in Keys, ResolveSession(p, k)
  PROVE  /\ bound' \in [Keys -> [profile : Profiles, workspace : Workspaces] \cup {None}]
         /\ BindingsStay
         /\ members' = members /\ selected' = selected
         /\ LET w == SessionWorkspace(p, k)
            IN  w # None => /\ p \in Profiles /\ w \in Workspaces /\ IsMember(p, w)
                            /\ bound'[k] = Binding(p, w)
<1> DEFINE w == SessionWorkspace(p, k)
<1>1. w # None => /\ p \in Profiles /\ w \in Workspaces /\ IsMember(p, w)
                  /\ bound[k] # None => bound[k] = Binding(p, w)
  BY SessionWorkspaceIsMine
<1>2. bound \in [Keys -> [profile : Profiles, workspace : Workspaces] \cup {None}]
  BY DEF TypeOK
<1>3. CASE w # None /\ bound[k] = None
  <2>1. bound' = [bound EXCEPT ![k] = Binding(p, w)]
    BY <1>3 DEF ResolveSession
  <2>2. Binding(p, w) \in [profile : Profiles, workspace : Workspaces]
    BY <1>1, <1>3 DEF Binding
  <2> QED
    BY <1>1, <1>2, <1>3, <2>1, <2>2 DEF ResolveSession, BindingsStay
<1>4. CASE ~(w # None /\ bound[k] = None)
  <2>1. bound' = bound
    BY <1>4 DEF ResolveSession
  <2> QED
    BY <1>1, <1>2, <1>4, <2>1 DEF ResolveSession, BindingsStay
<1> QED
  BY <1>3, <1>4

(* What a hook is waiting for changes and the hook itself does not.        *)
LEMMA TaskGoesOn ==
  ASSUME TypeOK, TasksWork, BindingsStay, NEW t \in Tasks, NEW x \in TaskType \cup {Idle},
         tasks' = [tasks EXCEPT ![t] = x],
         x # Idle => Ready(x) /\ bound'[x.conversation.key]
                                   = Binding(x.conversation.profile, x.conversation.workspace)
  PROVE  tasks' \in [Tasks -> TaskType \cup {Idle}] /\ TasksWork'
<1>1. tasks' \in [Tasks -> TaskType \cup {Idle}]
  BY DEF TypeOK
<1>2. ASSUME NEW y \in Tasks, tasks'[y] # Idle
      PROVE  Ready(tasks'[y]) /\ InBinding(ConversationOf(y))'
  <2>1. CASE y = t
    BY <1>2, <2>1 DEF TypeOK, InBinding, ConversationOf
  <2>2. CASE y # t
    <3>1. tasks'[y] = tasks[y]
      BY <2>2 DEF TypeOK
    <3>2. Ready(tasks[y]) /\ InBinding(ConversationOf(y))
      BY <1>2, <3>1 DEF TasksWork
    <3>3. ConversationOf(y).key \in Keys /\ Binding(ConversationOf(y).profile, ConversationOf(y).workspace) # None
      BY <1>2, <3>1, WorkspaceAssumption
      DEF TypeOK, TaskType, Conversations, ConversationOf, Binding
    <3> QED
      BY <3>1, <3>2, <3>3 DEF InBinding, ConversationOf, BindingsStay
  <2> QED BY <2>1, <2>2
<1> QED
  BY <1>1, <1>2 DEF TasksWork, Ready, Idle

(* A hook that waits belongs to a conversation.                            *)
LEMMA WaitingTask ==
  ASSUME TypeOK, NEW t \in Tasks, NEW at, at # "idle", Waiting(t, at)
  PROVE  /\ tasks[t] \in TaskType /\ tasks[t] # Idle
         /\ ConversationOf(t) \in Conversations
BY DEF TypeOK, Waiting, Idle, TaskType, ConversationOf

LEMMA IdleTask ==
  ASSUME TypeOK, NEW t \in Tasks, Waiting(t, "idle")
  PROVE  tasks[t] = Idle
BY DEF TypeOK, Waiting, TaskType

(* A hook that starts works for a member in the binding of its session.    *)
LEMMA StartBinds ==
  ASSUME TypeOK, TasksWork, NEW t \in Tasks, NEW s \in Sessions,
         NEW at \in {"find", "user", "inspect"}, NEW turn \in Turns \cup {None},
         at = "user" => turn \in Turns, Start(t, s, at, turn)
  PROVE  /\ tasks' \in [Tasks -> TaskType \cup {Idle}] /\ TasksWork'
         /\ bound' \in [Keys -> [profile : Profiles, workspace : Workspaces] \cup {None}]
         /\ BindingsStay
         /\ members' = members /\ selected' = selected
         /\ \A x \in Tasks : Waiting(x, "idle") /\ tasks'[x].at # "idle" =>
              LET c == tasks'[x].conversation
              IN  IsMember(c.profile, c.workspace) /\ bound'[c.key].profile = c.profile
<1> DEFINE p == actor[s]
           k == CurrentKey(s)
           w == SessionWorkspace(p, k)
           c == Conversation(w, p, k)
           x == [at |-> at, session |-> s, conversation |-> c,
                 turn |-> turn, skill |-> None, tools |-> None]
<1>1. k \in Keys /\ p \in Profiles \cup {None}
  BY CurrentKeyTyped
<1>2. ResolveSession(p, k)
  BY DEF Start
<1>3. /\ bound' \in [Keys -> [profile : Profiles, workspace : Workspaces] \cup {None}]
      /\ BindingsStay
      /\ members' = members /\ selected' = selected
      /\ w # None => /\ p \in Profiles /\ w \in Workspaces /\ IsMember(p, w)
                     /\ bound'[k] = Binding(p, w)
  <2> HIDE DEF p, k
  <2> QED BY <1>1, <1>2, ResolveSessionBinds
<1>4. tasks[t] = Idle
  BY IdleTask DEF Start
<1>5. CASE w = None
  <2>1. tasks' = tasks
    BY <1>5 DEF Start
  <2>2. tasks' = [tasks EXCEPT ![t] = Idle]
    BY <1>4, <2>1 DEF TypeOK
  <2>3. tasks' \in [Tasks -> TaskType \cup {Idle}] /\ TasksWork'
    BY <1>3, <2>2, TaskGoesOn
  <2> QED
    BY <1>3, <2>1, <2>3 DEF Waiting
<1>6. CASE w # None
  <2>1. tasks' = [tasks EXCEPT ![t] = x]
    BY <1>6 DEF Start
  <2>2. c \in Conversations /\ c.key = k /\ c.profile = p /\ c.workspace = w
    BY <1>1, <1>3, <1>6 DEF Conversation, Conversations
  <2>3. x \in TaskType /\ Ready(x) /\ x.conversation = c
    <3> HIDE DEF c
    <3> QED BY <2>2 DEF TaskType, Ready
  <2>4. tasks' \in [Tasks -> TaskType \cup {Idle}] /\ TasksWork'
    <3> HIDE DEF x, c, w, k, p
    <3> QED BY <1>3, <1>6, <2>1, <2>2, <2>3, TaskGoesOn
  <2>5. \A y \in Tasks : y # t => tasks'[y] = tasks[y]
    BY <2>1 DEF TypeOK
  <2>6. tasks'[t] = x
    BY <2>1 DEF TypeOK
  <2>7. IsMember(p, w) /\ bound'[k].profile = p
    BY <1>3, <1>6 DEF Binding
  <2> HIDE DEF x, c, w, k, p
  <2> QED
    BY <1>3, <2>2, <2>3, <2>4, <2>5, <2>6, <2>7 DEF Waiting
<1> QED
  BY <1>5, <1>6

(* Keeping the bindings keeps what is said about conversations.            *)
LEMMA BindingsKept ==
  ASSUME TypeOK, ReachedInBinding, PromptsCarryOneSkill, BindingsStay
  PROVE  /\ reached' = reached => ReachedInBinding'
         /\ context' = context => PromptsCarryOneSkill'
<1>1. ASSUME reached' = reached PROVE ReachedInBinding'
  BY <1>1 DEF TypeOK, ReachedInBinding, BindingsStay
<1>2. ASSUME context' = context PROVE PromptsCarryOneSkill'
  <2>1. ASSUME NEW s \in Sessions, context'[s] # None
        PROVE  /\ context'[s].instructions = context'[s].tools
               /\ \E k \in Keys : bound'[k] # None /\ context'[s].workspace = bound'[k].workspace
    <3>1. PICK k \in Keys : bound[k] # None /\ context[s].workspace = bound[k].workspace
      BY <1>2, <2>1 DEF PromptsCarryOneSkill
    <3>2. bound'[k] = bound[k]
      BY <3>1 DEF BindingsStay
    <3> QED
      BY <1>2, <2>1, <3>1, <3>2 DEF PromptsCarryOneSkill
  <2> QED BY <2>1 DEF PromptsCarryOneSkill
<1> QED BY <1>1, <1>2

(* A call reaches the workspace its hook works in.                         *)
LEMMA ReachKeeps ==
  ASSUME TypeOK, TasksWork, ReachedInBinding, NEW t \in Tasks, tasks[t] \in TaskType,
         tasks[t] # Idle, Reach(t), bound' = bound
  PROVE  reached' \in [Keys -> SUBSET Workspaces] /\ ReachedInBinding'
<1> DEFINE c == ConversationOf(t)
<1>1. c.key \in Keys /\ c.workspace \in Workspaces
  BY DEF TaskType, Conversations, ConversationOf
<1>2. bound[c.key] # None /\ bound[c.key].workspace = c.workspace
  <2>1. bound[c.key] = Binding(c.profile, c.workspace)
    BY DEF TasksWork, InBinding
  <2>2. c.profile \in Profiles
    BY DEF TaskType, Conversations, ConversationOf
  <2> QED BY <1>1, <2>1, <2>2, WorkspaceAssumption DEF Binding
<1>3. reached' = [reached EXCEPT ![c.key] = @ \cup {c.workspace}]
  BY DEF Reach
<1> HIDE DEF c
<1> QED BY <1>1, <1>2, <1>3 DEF TypeOK, ReachedInBinding

(* A message is stored at the end of a conversation.                       *)
LEMMA StoreKeeps ==
  ASSUME TypeOK, NEW t \in Tasks, ConversationOf(t) \in Conversations, tasks[t].turn \in Turns,
         NEW role \in {"user", "assistant"}, Store(t, role)
  PROVE  /\ log' \in [Conversations -> Seq([role : {"user", "assistant"}, turn : Turns])]
         /\ \A c \in Conversations : committed[c] <= Len(log'[c])
<1> DEFINE c == ConversationOf(t)
           m == Message(role, tasks[t].turn)
           M == [role : {"user", "assistant"}, turn : Turns]
<1>1. m \in M
  BY DEF Message
<1>2. log \in [Conversations -> Seq(M)] /\ committed \in [Conversations -> Nat]
      /\ \A d \in Conversations : committed[d] <= Len(log[d])
  BY DEF TypeOK
<1>3. log' = [log EXCEPT ![c] = Append(log[c], m)]
  BY DEF Store
<1> HIDE DEF c, m, M
<1>4. c \in Conversations
  BY DEF c
<1>5. log'[c] = Append(log[c], m) /\ \A d \in Conversations \ {c} : log'[d] = log[d]
  BY <1>2, <1>3, <1>4
<1>6. Append(log[c], m) \in Seq(M) /\ Len(Append(log[c], m)) = Len(log[c]) + 1
  BY <1>1, <1>2, <1>4
<1>7. log' \in [Conversations -> Seq(M)]
  BY <1>2, <1>3, <1>4, <1>6
<1>8. \A d \in Conversations : Len(log[d]) \in Nat
  BY <1>2
<1>9. ASSUME NEW d \in Conversations PROVE committed[d] <= Len(log'[d])
  <2>1. committed[d] \in Nat /\ committed[d] <= Len(log[d]) /\ Len(log[d]) \in Nat
    BY <1>2, <1>8
  <2>2. Len(log'[d]) = Len(log[d]) \/ Len(log'[d]) = Len(log[d]) + 1
    BY <1>5, <1>6
  <2> QED BY <2>1, <2>2
<1> QED
  BY <1>7, <1>9 DEF M

(* A commit commits messages there are.                                    *)
LEMMA CommitKeeps ==
  ASSUME TypeOK, NEW keep \in Nat, NEW c \in Conversations, CommitAllBut(keep, c)
  PROVE  /\ committed' \in [Conversations -> Nat]
         /\ \A d \in Conversations : committed'[d] <= Len(log[d])
<1> DEFINE a == committed[c]
           b == Len(log[c]) - keep
<1>1. a \in Nat /\ b \in Int /\ a <= Len(log[c]) /\ b <= Len(log[c])
  BY DEF TypeOK
<1>2. Max({a, b}) \in Nat /\ Max({a, b}) <= Len(log[c])
  <2> HIDE DEF a, b
  <2>1. \E x \in {a, b} : \A y \in {a, b} : x >= y
    BY <1>1
  <2>2. Max({a, b}) \in {a, b} /\ \A y \in {a, b} : Max({a, b}) >= y
    BY <2>1 DEF Max
  <2> QED BY <1>1, <2>2
<1>3. committed' = [committed EXCEPT ![c] = Max({a, b})]
  BY DEF CommitAllBut
<1> HIDE DEF a, b
<1> QED BY <1>2, <1>3 DEF TypeOK

(***************************************************************************)
(* Every step keeps the invariant                                          *)
(***************************************************************************)

(* What the steps of hooks have in common: they change no membership and   *)
(* no skill, and keep what is bound.                                       *)
HookTypes ==
  /\ tasks \in [Tasks -> TaskType \cup {Idle}]
  /\ bound \in [Keys -> [profile : Profiles, workspace : Workspaces] \cup {None}]
  /\ actor \in [Sessions -> Profiles \cup {None}]
  /\ generation \in [Sessions -> 0..MaxResets]
  /\ lastCaptured \in [Sessions -> Turns \cup {None}]
  /\ log \in [Conversations -> Seq([role : {"user", "assistant"}, turn : Turns])]
  /\ committed \in [Conversations -> Nat]
  /\ \A c \in Conversations : committed[c] <= Len(log[c])
  /\ context \in [Sessions -> [workspace : Workspaces, instructions : 1..(MaxEvents + 1),
                               tools : 1..(MaxEvents + 1)] \cup {None}]
  /\ reached \in [Keys -> SUBSET Workspaces]
  /\ disturbed \subseteq Conversations

LEMMA HookStep ==
  ASSUME IInv, HookTypes', TasksWork', ReachedInBinding', PromptsCarryOneSkill',
         UNCHANGED <<members, selected, skills>>, UNCHANGED events \/ Event
  PROVE  IInv'
<1>1. events \in 0..MaxEvents /\ events' \in 0..MaxEvents /\ events <= events'
  BY RuntimeAssumption DEF IInv, TypeOK, Event
<1>2. SkillsCounted'
  <2>1. \A w \in Workspaces, n \in SkillNames : skills[w][n] \in Nat
    BY DEF IInv, TypeOK
  <2> QED BY <1>1, <2>1 DEF IInv, SkillsCounted
<1>3. OwnersRemain'
  BY DEF IInv, OwnersRemain, Owners, IsOwner
<1>4. TypeOK'
  BY <1>1 DEF IInv, TypeOK, HookTypes, TaskType, Conversations, Idle
<1> QED BY <1>2, <1>3, <1>4 DEF IInv

LEMMA TypesOfHooks == IInv => HookTypes
BY DEF IInv, TypeOK, HookTypes

(* The tasks and bindings after a hook has started, or was turned away     *)
(* because its turn repeats the last one.                                  *)
LEMMA EndTurnBinds ==
  ASSUME TypeOK, TasksWork, NEW t \in Tasks, NEW s \in Sessions, NEW turn \in Turns,
         EndTurn(t, s, turn)
  PROVE  /\ tasks' \in [Tasks -> TaskType \cup {Idle}] /\ TasksWork'
         /\ bound' \in [Keys -> [profile : Profiles, workspace : Workspaces] \cup {None}]
         /\ BindingsStay
         /\ members' = members /\ selected' = selected
         /\ \A x \in Tasks : Waiting(x, "idle") /\ tasks'[x].at # "idle" =>
              LET c == tasks'[x].conversation
              IN  IsMember(c.profile, c.workspace) /\ bound'[c.key].profile = c.profile
<1>1. CASE lastCaptured[s] = turn
  <2>1. tasks' = tasks /\ tasks[t] = Idle
    BY <1>1, IdleTask DEF EndTurn
  <2>2. ResolveSession(actor[s], CurrentKey(s))
    BY <1>1 DEF EndTurn
  <2>3. /\ bound' \in [Keys -> [profile : Profiles, workspace : Workspaces] \cup {None}]
        /\ BindingsStay
        /\ members' = members /\ selected' = selected
    BY <2>2, CurrentKeyTyped, ResolveSessionBinds
  <2>4. tasks' = [tasks EXCEPT ![t] = Idle]
    BY <2>1 DEF TypeOK
  <2>5. tasks' \in [Tasks -> TaskType \cup {Idle}] /\ TasksWork'
    BY <2>3, <2>4, TaskGoesOn
  <2> QED
    BY <2>1, <2>3, <2>5 DEF Waiting
<1>2. CASE lastCaptured[s] # turn
  <2>1. Start(t, s, "user", turn)
    BY <1>2 DEF EndTurn
  <2> QED BY <2>1, StartBinds
<1> QED BY <1>1, <1>2

LEMMA BuildPromptHolds ==
  ASSUME IInv, NEW t \in Tasks, NEW s \in Sessions, BuildPrompt(t, s)
  PROVE  IInv'
<1>1. /\ tasks' \in [Tasks -> TaskType \cup {Idle}] /\ TasksWork'
      /\ bound' \in [Keys -> [profile : Profiles, workspace : Workspaces] \cup {None}]
      /\ BindingsStay
      /\ members' = members /\ selected' = selected
  BY StartBinds DEF IInv, BuildPrompt
<1>2. ReachedInBinding'
  BY <1>1, BindingsKept DEF IInv, BuildPrompt
<1>3. context' = [context EXCEPT ![s] = None]
  BY DEF BuildPrompt
<1>4. PromptsCarryOneSkill'
  <2>1. ASSUME NEW x \in Sessions, context'[x] # None
        PROVE  /\ context'[x].instructions = context'[x].tools
               /\ \E k \in Keys : bound'[k] # None /\ context'[x].workspace = bound'[k].workspace
    <3>1. context'[x] = context[x]
      BY <1>3, <2>1 DEF IInv, TypeOK
    <3>2. context[x].instructions = context[x].tools
      BY <2>1, <3>1 DEF IInv, PromptsCarryOneSkill
    <3>3. PICK k \in Keys : bound[k] # None /\ context[x].workspace = bound[k].workspace
      BY <2>1, <3>1 DEF IInv, PromptsCarryOneSkill
    <3> QED
      BY <1>1, <3>1, <3>2, <3>3 DEF BindingsStay
  <2> QED BY <2>1 DEF PromptsCarryOneSkill
<1>5. HookTypes'
  BY <1>1, <1>3, TypesOfHooks DEF BuildPrompt, serverVars, HookTypes, TaskType, Conversations, Idle
<1> QED
  BY <1>1, <1>2, <1>4, <1>5, HookStep DEF BuildPrompt, serverVars

LEMMA EndTurnHolds ==
  ASSUME IInv, NEW t \in Tasks, NEW s \in Sessions, NEW turn \in Turns, EndTurn(t, s, turn)
  PROVE  IInv'
<1>1. /\ tasks' \in [Tasks -> TaskType \cup {Idle}] /\ TasksWork'
      /\ bound' \in [Keys -> [profile : Profiles, workspace : Workspaces] \cup {None}]
      /\ BindingsStay
      /\ members' = members /\ selected' = selected
  BY EndTurnBinds DEF IInv
<1>2. ReachedInBinding' /\ PromptsCarryOneSkill'
  BY <1>1, BindingsKept DEF IInv, EndTurn
<1>3. disturbed' \subseteq Conversations
  BY TypesOfHooks DEF EndTurn, Disturb, HookTypes
<1>4. HookTypes'
  BY <1>1, <1>3, TypesOfHooks DEF EndTurn, serverVars, HookTypes, TaskType, Conversations, Idle
<1> QED
  BY <1>1, <1>2, <1>4, HookStep DEF EndTurn, serverVars

LEMMA ResetHolds ==
  ASSUME IInv, NEW t \in Tasks, NEW s \in Sessions, Reset(t, s)
  PROVE  IInv'
<1>1. /\ tasks' \in [Tasks -> TaskType \cup {Idle}] /\ TasksWork'
      /\ bound' \in [Keys -> [profile : Profiles, workspace : Workspaces] \cup {None}]
      /\ BindingsStay
      /\ members' = members /\ selected' = selected
  BY StartBinds DEF IInv, Reset
<1>2. ReachedInBinding' /\ PromptsCarryOneSkill'
  BY <1>1, BindingsKept DEF IInv, Reset
<1>3. disturbed' \subseteq Conversations
  <2>1. \A x \in CapturesOf(s) : ConversationOf(x) \in Conversations
    BY WaitingTask DEF IInv, CapturesOf, Waiting
  <2> QED BY <2>1, TypesOfHooks DEF Reset, Disturb, HookTypes
<1>4. generation' \in [Sessions -> 0..MaxResets]
  BY TypesOfHooks, RuntimeAssumption DEF Reset, HookTypes
<1>5. actor' \in [Sessions -> Profiles \cup {None}]
  BY TypesOfHooks DEF Reset, HookTypes
<1>6. HookTypes'
  BY <1>1, <1>3, <1>4, <1>5, TypesOfHooks DEF Reset, serverVars, HookTypes, TaskType, Conversations, Idle
<1> QED
  BY <1>1, <1>2, <1>6, HookStep DEF Reset, serverVars

(* A hook that is at a call ends or goes on to the next one.               *)
LEMMA CallMovesTask ==
  ASSUME IInv, NEW t \in Tasks, Call(t)
  PROVE  /\ tasks[t] \in TaskType /\ tasks[t] # Idle
         /\ ConversationOf(t) \in Conversations
         /\ Waiting(t, "user") \/ Waiting(t, "assistant") => tasks[t].turn \in Turns
         /\ tasks' \in [Tasks -> TaskType \cup {Idle}] /\ TasksWork'
         /\ UNCHANGED <<registryVars, hostVars, skills>>
         /\ BindingsStay
         /\ \A x \in Tasks : ~Waiting(x, "idle") \/ tasks'[x].at = "idle"
<1>1. /\ tasks[t] \in TaskType /\ tasks[t] # Idle
      /\ ConversationOf(t) \in Conversations
  BY WaitingTask DEF IInv, Call, FindSkill, GetSkill, AddUser, AddAssistant, Check, Commit, Inspect, Flush
<1>2. UNCHANGED <<registryVars, hostVars, skills>>
  BY DEF Call, FindSkill, GetSkill, AddUser, AddAssistant, Check, Commit, Inspect, Flush, serverVars
<1>3. BindingsStay
  BY <1>2 DEF BindingsStay, registryVars
<1>4. Ready(tasks[t]) /\ InBinding(ConversationOf(t))
  BY <1>1 DEF IInv, TasksWork
<1>5. Waiting(t, "user") \/ Waiting(t, "assistant") => tasks[t].turn \in Turns
  BY <1>4 DEF Ready, Waiting
<1> DEFINE Moves ==
      \E x \in TaskType \cup {Idle} :
        /\ tasks' = [tasks EXCEPT ![t] = x]
        /\ x # Idle => Ready(x) /\ x.conversation = ConversationOf(t)
<1>6. Moves
  <2>1. CASE End(t)
    BY <2>1 DEF End
  <2>2. ASSUME NEW at \in {"assistant", "check", "commit", "flush"}, Goto(t, at),
               at = "assistant" => Waiting(t, "user")
        PROVE  Moves
    <3>1. tasks' = [tasks EXCEPT ![t] = [tasks[t] EXCEPT !.at = at]]
      BY <2>2 DEF Goto
    <3>2. [tasks[t] EXCEPT !.at = at] \in TaskType
      BY <1>1 DEF TaskType
    <3>3. Ready([tasks[t] EXCEPT !.at = at])
          /\ [tasks[t] EXCEPT !.at = at].conversation = ConversationOf(t)
      BY <1>1, <1>5, <2>2 DEF TaskType, Ready, ConversationOf
    <3> QED BY <3>1, <3>2, <3>3
  <2>3. CASE FindSkill(t) /\ ~End(t)
    <3>1. PICK n \in SkillNames :
            tasks' = [tasks EXCEPT ![t].at = "get", ![t].skill = n,
                                   ![t].tools = skills[ConversationOf(t).workspace][n]]
      BY <2>3 DEF FindSkill
    <3> DEFINE v == skills[ConversationOf(t).workspace][n]
               x == [tasks[t] EXCEPT !.at = "get", !.skill = n, !.tools = v]
    <3>2. v \in 1..(MaxEvents + 1)
      BY <1>1 DEF IInv, TypeOK, Conversations
    <3>3. tasks' = [tasks EXCEPT ![t] = x]
      BY <3>1 DEF IInv, TypeOK
    <3> HIDE DEF v
    <3>4. x \in TaskType /\ Ready(x) /\ x.conversation = ConversationOf(t)
      BY <1>1, <3>2 DEF TaskType, Ready, ConversationOf
    <3> QED BY <3>3, <3>4
  <2>4. CASE ~FindSkill(t) /\ ~End(t)
    <3> HIDE DEF Moves
    <3> QED BY <2>2, <2>4 DEF Call, GetSkill, AddUser, AddAssistant, Check, Commit, Inspect, Flush
  <2> QED BY <2>1, <2>3, <2>4
<1>7. tasks' \in [Tasks -> TaskType \cup {Idle}] /\ TasksWork'
  <2>1. PICK x \in TaskType \cup {Idle} :
          /\ tasks' = [tasks EXCEPT ![t] = x]
          /\ x # Idle => Ready(x) /\ x.conversation = ConversationOf(t)
    BY <1>6
  <2>2. x # Idle => Ready(x) /\ bound'[x.conversation.key]
                                  = Binding(x.conversation.profile, x.conversation.workspace)
    BY <1>2, <1>4, <2>1 DEF InBinding, registryVars
  <2> QED BY <1>3, <2>1, <2>2, TaskGoesOn DEF IInv
<1>8. \A x \in Tasks : Waiting(x, "idle") => x # t
  BY <1>1, IdleTask DEF IInv
<1>9. \A x \in Tasks : x # t => tasks'[x] = tasks[x]
  BY <1>6 DEF IInv, TypeOK
<1>10. \A x \in Tasks : ~Waiting(x, "idle") \/ tasks'[x].at = "idle"
  BY <1>8, <1>9 DEF Waiting
<1> QED
  BY <1>1, <1>2, <1>3, <1>5, <1>7, <1>10

(* What a call leaves to be shown.                                         *)
LEMMA CallStep ==
  ASSUME IInv, NEW t \in Tasks, Call(t), PromptsCarryOneSkill',
         ReachedInBinding', reached' \in [Keys -> SUBSET Workspaces],
         lastCaptured' \in [Sessions -> Turns \cup {None}],
         log' \in [Conversations -> Seq([role : {"user", "assistant"}, turn : Turns])],
         committed' \in [Conversations -> Nat],
         \A c \in Conversations : committed'[c] <= Len(log'[c]),
         context' \in [Sessions -> [workspace : Workspaces, instructions : 1..(MaxEvents + 1),
                                    tools : 1..(MaxEvents + 1)] \cup {None}],
         disturbed' \subseteq Conversations
  PROVE  IInv'
<1>1. HookTypes'
  BY CallMovesTask, TypesOfHooks
  DEF HookTypes, registryVars, hostVars, TaskType, Conversations, Idle
<1> QED
  BY <1>1, CallMovesTask, HookStep DEF registryVars, hostVars

LEMMA CallHolds ==
  ASSUME IInv, NEW t \in Tasks, Call(t)
  PROVE  IInv'
<1> USE CallMovesTask
<1>0. /\ context' = context => PromptsCarryOneSkill'
      /\ reached' = reached => ReachedInBinding'
      /\ Reach(t) => reached' \in [Keys -> SUBSET Workspaces] /\ ReachedInBinding'
  BY BindingsKept, ReachKeeps DEF IInv, registryVars
<1>1. HookTypes
  BY TypesOfHooks
<1>2. CASE FindSkill(t)
  BY <1>0, <1>1, <1>2, CallStep DEF FindSkill, serverVars, HookTypes
<1>3. CASE GetSkill(t)
  <2> DEFINE w == ConversationOf(t).workspace
             v == skills[w][tasks[t].skill]
             s == tasks[t].session
  <2>1. CASE context' = [context EXCEPT ![s] = SkillContext(w, tasks[t])]
    <3>1. s \in Sessions /\ w \in Workspaces /\ ConversationOf(t).key \in Keys
          /\ ConversationOf(t).profile \in Profiles
      BY DEF TaskType, Conversations
    <3>2. bound[ConversationOf(t).key] = Binding(ConversationOf(t).profile, w)
      BY DEF IInv, TasksWork, InBinding
    <3>3. bound[ConversationOf(t).key] # None /\ w = bound[ConversationOf(t).key].workspace
      BY <3>1, <3>2, WorkspaceAssumption DEF Binding
    <3>4. tasks[t].skill \in SkillNames
      BY <1>3 DEF IInv, TasksWork, Ready, GetSkill, Waiting
    <3>5. v \in 1..(MaxEvents + 1)
      BY <3>1, <3>4 DEF IInv, TypeOK
    <3>6. SkillContext(w, tasks[t]) = [workspace |-> w, instructions |-> v, tools |-> v]
      BY DEF SkillContext
    <3>7. bound' = bound
      BY DEF registryVars
    <3> HIDE DEF s, v, w
    <3>8. context' \in [Sessions -> [workspace : Workspaces, instructions : 1..(MaxEvents + 1),
                                     tools : 1..(MaxEvents + 1)] \cup {None}]
      BY <1>1, <2>1, <3>1, <3>5, <3>6 DEF HookTypes
    <3>9. PromptsCarryOneSkill'
      <4>1. ASSUME NEW x \in Sessions, context'[x] # None
            PROVE  /\ context'[x].instructions = context'[x].tools
                   /\ \E k \in Keys : bound'[k] # None /\ context'[x].workspace = bound'[k].workspace
        <5>1. CASE x = s
          <6>1. context'[x] = [workspace |-> w, instructions |-> v, tools |-> v]
            BY <1>1, <2>1, <3>6, <5>1 DEF HookTypes
          <6> QED BY <3>1, <3>3, <3>7, <6>1
        <5>2. CASE x # s
          <6>1. context'[x] = context[x]
            BY <1>1, <2>1, <5>2 DEF HookTypes
          <6> QED BY <3>7, <4>1, <6>1 DEF IInv, PromptsCarryOneSkill
        <5> QED BY <5>1, <5>2
      <4> QED BY <4>1 DEF PromptsCarryOneSkill
    <3> QED BY <1>0, <1>1, <1>3, <3>8, <3>9, CallStep DEF GetSkill, serverVars, HookTypes
  <2>2. CASE context' = context
    BY <1>0, <1>1, <1>3, <2>2, CallStep DEF GetSkill, serverVars, HookTypes
  <2> QED BY <1>3, <2>1, <2>2 DEF GetSkill
<1>4. CASE AddUser(t)
  <2>1. /\ log' \in [Conversations -> Seq([role : {"user", "assistant"}, turn : Turns])]
        /\ \A c \in Conversations : committed[c] <= Len(log'[c])
    BY <1>1, <1>4, StoreKeeps DEF IInv, AddUser, HookTypes
  <2>2. disturbed' \subseteq Conversations
    BY <1>1, <1>4 DEF AddUser, Disturb, HookTypes
  <2> QED BY <1>0, <1>1, <1>4, <2>1, <2>2, CallStep DEF AddUser, HookTypes
<1>5. CASE AddAssistant(t)
  <2>1. /\ log' \in [Conversations -> Seq([role : {"user", "assistant"}, turn : Turns])]
        /\ \A c \in Conversations : committed[c] <= Len(log'[c])
    BY <1>1, <1>5, StoreKeeps DEF IInv, AddAssistant, HookTypes
  <2>2. disturbed' \subseteq Conversations
    BY <1>1, <1>5 DEF AddAssistant, Disturb, HookTypes
  <2>3. lastCaptured' \in [Sessions -> Turns \cup {None}]
    BY <1>1, <1>5 DEF AddAssistant, HookTypes
  <2> QED BY <1>0, <1>1, <1>5, <2>1, <2>2, <2>3, CallStep DEF AddAssistant, HookTypes
<1>6. CASE Check(t)
  BY <1>0, <1>1, <1>6, CallStep DEF Check, serverVars, HookTypes
<1>7. CASE Commit(t)
  <2>1. /\ committed' \in [Conversations -> Nat]
        /\ \A c \in Conversations : committed'[c] <= Len(log[c])
    BY <1>1, <1>7, CommitKeeps, RuntimeAssumption DEF IInv, Commit, HookTypes
  <2> QED BY <1>0, <1>1, <1>7, <2>1, CallStep DEF Commit, HookTypes
<1>8. CASE Inspect(t)
  <2>1. disturbed' \subseteq Conversations
    BY <1>1, <1>8 DEF Inspect, Disturb, HookTypes
  <2> QED BY <1>0, <1>1, <1>8, <2>1, CallStep DEF Inspect, serverVars, HookTypes
<1>9. CASE Flush(t)
  <2>1. /\ committed' \in [Conversations -> Nat]
        /\ \A c \in Conversations : committed'[c] <= Len(log[c])
    BY <1>1, <1>9, CommitKeeps DEF IInv, Flush, HookTypes
  <2>2. disturbed' \subseteq Conversations
    BY <1>1, <1>9 DEF Flush, Disturb, HookTypes
  <2> QED BY <1>0, <1>1, <1>9, <2>1, <2>2, CallStep DEF Flush, HookTypes
<1> QED
  BY <1>2, <1>3, <1>4, <1>5, <1>6, <1>7, <1>8, <1>9 DEF Call

(***************************************************************************)
(* Steps around the hooks                                                  *)
(***************************************************************************)

(* An owner that goes leaves another one behind.                           *)
LEMMA AnotherOwner ==
  ASSUME NEW w, NEW target, Cardinality(Owners(w)) > 1
  PROVE  \E p \in Profiles : p # target /\ IsOwner(p, w)
<1> SUFFICES ASSUME \A p \in Profiles : IsOwner(p, w) => p = target PROVE FALSE
  OBVIOUS
<1>1. Owners(w) = {} \/ Owners(w) = {target}
  BY DEF Owners
<1>2. Cardinality({}) = 0 /\ Cardinality({target}) = 1
  BY FS_EmptySet, FS_Singleton
<1> QED BY <1>1, <1>2

(* Whoever changes the members, every workspace keeps an owner.            *)
LEMMA AdministerKeepsOwners ==
  ASSUME TypeOK, OwnersRemain, Administer
  PROVE  /\ members' \in [Workspaces -> [Profiles -> Roles \cup {None}]]
         /\ selected' \in [Profiles -> Workspaces \cup {None}]
         /\ bound' = bound /\ OwnersRemain'
<1>1. ASSUME NEW p \in Profiles, NEW w \in Workspaces, Switch(p, w)
      PROVE  /\ members' = members /\ bound' = bound
             /\ selected' \in [Profiles -> Workspaces \cup {None}]
  BY <1>1 DEF Switch, TypeOK
<1>2. ASSUME NEW w \in Workspaces, NEW target \in Profiles, NEW role \in Roles \cup {None},
             IsOwner(target, w) /\ role # "owner" => Cardinality(Owners(w)) > 1,
             members' = [members EXCEPT ![w][target] = role]
      PROVE  members' \in [Workspaces -> [Profiles -> Roles \cup {None}]] /\ OwnersRemain'
  <2>1. members' \in [Workspaces -> [Profiles -> Roles \cup {None}]]
    BY <1>2 DEF TypeOK
  <2>2. \A x \in Workspaces, p \in Profiles :
          ~(x = w /\ p = target) => members'[x][p] = members[x][p]
    BY <1>2 DEF TypeOK
  <2>3. members'[w][target] = role
    BY <1>2 DEF TypeOK
  <2>4. ASSUME NEW x \in Workspaces PROVE Owners(x)' # {}
    <3>1. PICK p \in Profiles : IsOwner(p, x)
      BY DEF OwnersRemain, Owners
    <3>2. CASE x = w /\ p = target /\ role # "owner"
      <4>1. PICK q \in Profiles : q # target /\ IsOwner(q, w)
        BY <1>2, <3>1, <3>2, AnotherOwner
      <4> QED BY <2>2, <3>2, <4>1 DEF Owners, IsOwner
    <3>3. CASE x = w /\ p = target /\ role = "owner"
      BY <2>3, <3>3 DEF Owners, IsOwner
    <3>4. CASE ~(x = w /\ p = target)
      BY <2>2, <3>1, <3>4 DEF Owners, IsOwner
    <3> QED BY <3>2, <3>3, <3>4
  <2> QED BY <2>1, <2>4 DEF OwnersRemain
<1>3. CASE \E p \in Profiles, w \in Workspaces : Switch(p, w)
  BY <1>1, <1>3 DEF TypeOK, OwnersRemain, Owners, IsOwner
<1>4. CASE \E c, target \in Profiles, w \in Workspaces, r \in Roles : UpsertMember(c, w, target, r)
  BY <1>2, <1>4 DEF TypeOK, UpsertMember, MayUpsert
<1>5. CASE \E c, target \in Profiles, w \in Workspaces : RemoveMember(c, w, target)
  BY <1>2, <1>5 DEF TypeOK, RemoveMember, MayRemove
<1> QED
  BY <1>3, <1>4, <1>5 DEF Administer

LEMMA ChangeMembersHolds ==
  ASSUME IInv, ChangeMembers
  PROVE  IInv'
<1>1. /\ members' \in [Workspaces -> [Profiles -> Roles \cup {None}]]
      /\ selected' \in [Profiles -> Workspaces \cup {None}]
      /\ bound' = bound /\ OwnersRemain'
  BY AdministerKeepsOwners DEF IInv, ChangeMembers
<1>2. events \in 0..MaxEvents /\ events' = events + 1 /\ events' \in 0..MaxEvents
  BY RuntimeAssumption DEF IInv, TypeOK, ChangeMembers, Event
<1>3. TypeOK'
  BY <1>1, <1>2 DEF IInv, TypeOK, ChangeMembers, serverVars, TaskType, Conversations, Idle
<1>4. TasksWork' /\ ReachedInBinding' /\ PromptsCarryOneSkill'
  BY <1>1 DEF IInv, ChangeMembers, TasksWork, Ready, InBinding, ConversationOf, Idle,
              ReachedInBinding, PromptsCarryOneSkill
<1>5. SkillsCounted'
  <2>1. \A w \in Workspaces, n \in SkillNames : skills[w][n] \in Nat
    BY DEF IInv, TypeOK
  <2> QED BY <1>2, <2>1 DEF IInv, SkillsCounted, ChangeMembers, serverVars
<1> QED BY <1>1, <1>3, <1>4, <1>5 DEF IInv

LEMMA UpdateSkillHolds ==
  ASSUME IInv, NEW w \in Workspaces, NEW n \in SkillNames, UpdateSkill(w, n)
  PROVE  IInv'
<1>1. events \in 0..MaxEvents /\ events < MaxEvents /\ events' = events + 1
  BY DEF IInv, TypeOK, UpdateSkill, Event
<1>2. skills \in [Workspaces -> [SkillNames -> 1..(MaxEvents + 1)]]
  BY DEF IInv, TypeOK
<1>3. skills' = [skills EXCEPT ![w][n] = @ + 1]
  BY DEF UpdateSkill
<1>4. skills[w][n] <= events + 1
  BY DEF IInv, SkillsCounted
<1>5. skills[w][n] + 1 \in 1..(MaxEvents + 1) /\ events' \in 0..MaxEvents
  BY <1>1, <1>2, <1>4, RuntimeAssumption
<1>6. skills' \in [Workspaces -> [SkillNames -> 1..(MaxEvents + 1)]]
  BY <1>2, <1>3, <1>5
<1>7. SkillsCounted'
  <2>1. \A x \in Workspaces, y \in SkillNames : skills[x][y] \in Nat /\ skills[x][y] <= events + 1
    BY <1>2 DEF IInv, SkillsCounted
  <2>2. \A x \in Workspaces, y \in SkillNames :
          skills'[x][y] = IF x = w /\ y = n THEN skills[x][y] + 1 ELSE skills[x][y]
    BY <1>2, <1>3
  <2> QED BY <1>1, <2>1, <2>2 DEF SkillsCounted
<1>8. TypeOK'
  BY <1>5, <1>6 DEF IInv, TypeOK, UpdateSkill, registryVars, TaskType, Conversations, Idle
<1>9. OwnersRemain' /\ TasksWork' /\ ReachedInBinding' /\ PromptsCarryOneSkill'
  BY DEF IInv, UpdateSkill, registryVars, OwnersRemain, Owners, IsOwner, TasksWork, Ready,
         InBinding, ConversationOf, Idle, ReachedInBinding, PromptsCarryOneSkill
<1> QED BY <1>7, <1>8, <1>9 DEF IInv

LEMMA RestartHolds ==
  ASSUME IInv, Restart
  PROVE  IInv'
<1>1. BindingsStay /\ bound' = bound
  BY DEF Restart, registryVars, BindingsStay
<1>2. ReachedInBinding' /\ PromptsCarryOneSkill'
  BY <1>1, BindingsKept DEF IInv, Restart
<1>3. disturbed' \subseteq Conversations
  <2>1. \A x \in Tasks : ~Waiting(x, "idle") => ConversationOf(x) \in Conversations
    <3>1. \A x \in Tasks : tasks[x] \in TaskType => ConversationOf(x) \in Conversations
      BY DEF TaskType, ConversationOf
    <3>2. \A x \in Tasks : ~Waiting(x, "idle") => tasks[x] \in TaskType
      BY DEF IInv, TypeOK, Waiting, Idle
    <3> QED BY <3>1, <3>2
  <2>2. {ConversationOf(t) : t \in {x \in Tasks : ~Waiting(x, "idle")}} \subseteq Conversations
    BY <2>1
  <2> QED BY <2>2, TypesOfHooks DEF Restart, Disturb, HookTypes
<1>4. TasksWork'
  BY DEF Restart, TasksWork
<1>5. HookTypes'
  BY <1>1, <1>3, TypesOfHooks DEF Restart, serverVars, HookTypes, TaskType, Conversations, Idle
<1> QED
  BY <1>2, <1>4, <1>5, HookStep DEF Restart, registryVars, serverVars

LEMMA StepHolds == IInv /\ [Next]_vars => IInv'
<1> SUFFICES ASSUME IInv, [Next]_vars PROVE IInv'
  OBVIOUS
<1>1. CASE UNCHANGED vars
  <2> USE <1>1 DEF vars, registryVars, hostVars, serverVars
  <2>1. HookTypes'
    BY TypesOfHooks DEF HookTypes, TaskType, Conversations, Idle
  <2>2. TasksWork'
    BY DEF IInv, TasksWork, Ready, InBinding, ConversationOf, Idle
  <2>3. ReachedInBinding' /\ PromptsCarryOneSkill'
    BY DEF IInv, ReachedInBinding, PromptsCarryOneSkill
  <2> QED BY <2>1, <2>2, <2>3, HookStep
<1>2. CASE Next
  BY <1>2, BuildPromptHolds, ResetHolds, EndTurnHolds, CallHolds, ChangeMembersHolds,
     UpdateSkillHolds, RestartHolds DEF Next
<1> QED BY <1>1, <1>2

(***************************************************************************)
(* Theorems                                                                *)
(***************************************************************************)
THEOREM Invariant == Spec => []IInv
BY InitHolds, StepHolds, PTL DEF Spec

(* Every state is one a gateway can be in, and every hook under way has a  *)
(* principal.                                                              *)
THEOREM Typed == Spec => []TypeOK
<1>1. IInv => TypeOK
  BY DEF IInv
<1> QED BY <1>1, Invariant, PTL

(* Whatever owners do to the members, a workspace keeps an owner.          *)
THEOREM OwnersStay == Spec => []OwnersRemain
<1>1. IInv => OwnersRemain
  BY DEF IInv
<1> QED BY <1>1, Invariant, PTL

(* A conversation reaches the memory of one workspace only.                *)
THEOREM OneWorkspace == Spec => []OneWorkspacePerConversation
<1>1. ASSUME IInv PROVE OneWorkspacePerConversation
  <2>1. ASSUME NEW k \in Keys PROVE Cardinality(reached[k]) <= 1
    <3>1. reached[k] = {} \/ reached[k] = {bound[k].workspace}
      BY <1>1 DEF IInv, ReachedInBinding
    <3>2. Cardinality({}) = 0 /\ Cardinality({bound[k].workspace}) = 1
      BY FS_EmptySet, FS_Singleton
    <3> QED BY <3>1, <3>2
  <2> QED BY <2>1 DEF OneWorkspacePerConversation
<1> QED BY <1>1, Invariant, PTL

(* A hook begins only for a member of the workspace of its conversation.   *)
THEOREM MembersServed == Spec => OnlyMembersAreServed
<1> DEFINE Served ==
      \A t \in Tasks : Waiting(t, "idle") /\ tasks'[t].at # "idle" =>
        LET c == tasks'[t].conversation
        IN  IsMember(c.profile, c.workspace) /\ bound'[c.key].profile = c.profile
<1>1. ASSUME IInv, [Next]_vars PROVE [Served]_vars
  <2>1. ASSUME NEW t \in Tasks, NEW s \in Sessions, BuildPrompt(t, s) PROVE Served
    BY <1>1, <2>1, StartBinds DEF IInv, BuildPrompt
  <2>2. ASSUME NEW t \in Tasks, NEW s \in Sessions, Reset(t, s) PROVE Served
    BY <1>1, <2>2, StartBinds DEF IInv, Reset
  <2>3. ASSUME NEW t \in Tasks, NEW s \in Sessions, NEW turn \in Turns, EndTurn(t, s, turn)
        PROVE  Served
    BY <1>1, <2>3, EndTurnBinds DEF IInv
  <2>4. ASSUME NEW t \in Tasks, Call(t) PROVE Served
    BY <1>1, <2>4, CallMovesTask
  <2>5. CASE ChangeMembers
    BY <2>5 DEF ChangeMembers, Waiting
  <2>6. CASE \E w \in Workspaces, n \in SkillNames : UpdateSkill(w, n)
    BY <2>6 DEF UpdateSkill, Waiting
  <2>7. CASE Restart
    BY <2>7 DEF Restart, Idle
  <2> HIDE DEF Served
  <2> QED BY <1>1, <2>1, <2>2, <2>3, <2>4, <2>5, <2>6, <2>7 DEF Next
<1> QED BY <1>1, Invariant, PTL DEF Spec, OnlyMembersAreServed

(* A prompt carries one version of a skill of a workspace of a binding.    *)
THEOREM OneSkill == Spec => []PromptsCarryOneSkill
<1>1. IInv => PromptsCarryOneSkill
  BY DEF IInv
<1> QED BY <1>1, Invariant, PTL
=============================================================================
