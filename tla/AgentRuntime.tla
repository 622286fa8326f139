---------------------------- MODULE AgentRuntime ----------------------------
(***************************************************************************)
(* The hooks by which conversations use OpenViking                         *)
(* (integrations/openclaw/openviking-plugin/lib): before_prompt_build      *)
(* recalls memory and activates a skill, agent_end stores the last turn    *)
(* and commits when enough is pending, before_reset commits what is left.  *)
(*                                                                         *)
(* A hook resolves the workspace of its conversation and then calls the    *)
(* server, one call after the other; at every call other hooks, gateway    *)
(* requests and members interleave.  A task is a hook that is waiting for  *)
(* a call.  A call succeeds, is refused, or is carried out while its reply *)
(* is lost or comes after the timeout.                                     *)
(***************************************************************************)
EXTENDS WorkspaceRegistry, FiniteSetsExt

CONSTANTS
  Sessions,       \* session keys of the host
  Identified,     \* those for which the host also gives a session id
  Turns,          \* texts of a question and its answer
  SkillNames,     \* names of skills
  Tasks,          \* bounds the hooks that are under way at one time
  CommitPending,  \* commitPendingTokens, counted in messages
  KeepRecent,     \* commitKeepRecentCount
  MaxResets,      \* bounds the resets of a session
  MaxEvents       \* bounds the hooks that start and the changes around them

ASSUME RuntimeAssumption ==
  /\ Identified \subseteq Sessions
  /\ CommitPending \in Nat /\ KeepRecent \in Nat
  /\ MaxResets \in Nat /\ MaxEvents \in Nat

VARIABLES
  actor,         \* the profile that created the session, or None
  generation,    \* how often the session was reset
  tasks,         \* the hooks that wait for a call
  lastCaptured,  \* the last turn stored for a session key, in memory
  log,           \* the server: the messages of a conversation
  committed,     \* the server: how many of them are committed
  skills,        \* the server: the version of a skill in a workspace
  context,       \* the skill and tools of the last prompt of a session
  reached,       \* the workspaces whose account a conversation has reached
  disturbed,     \* the conversations a failure, a crash or an overlap befell
  events         \* counts the hooks that started and the changes around them

serverVars == <<log, committed, skills>>
hostVars   == <<actor, generation, events>>
vars == <<registryVars, hostVars, tasks, lastCaptured, serverVars, context, reached, disturbed>>

(* sessionBindingKey: the session id, which a reset renews, else the key.  *)
KeyOf(s, g)   == IF s \in Identified THEN <<s, g>> ELSE <<s, 0>>
CurrentKey(s) == KeyOf(s, generation[s])

ASSUME KeysAssumption == \A s \in Sessions, g \in 0..MaxResets : KeyOf(s, g) \in Keys

(* The OpenViking session of a conversation; memory is stored under the    *)
(* account of the workspace and the profile.                               *)
Conversation(w, p, k)  == [workspace |-> w, profile |-> p, key |-> k]
Conversations          == [workspace : Workspaces, profile : Profiles, key : Keys]
ConversationOf(t)      == tasks[t].conversation
Idle                   == [at |-> "idle"]
Waiting(t, at)         == tasks[t].at = at
Goto(t, at)            == tasks' = [tasks EXCEPT ![t].at = at]
End(t)                 == tasks' = [tasks EXCEPT ![t] = Idle]
Message(role, turn)    == [role |-> role, turn |-> turn]
Pending(c)             == Len(log[c]) - committed[c]
CapturesOf(s)          == {t \in Tasks : /\ tasks[t].at \in {"user", "assistant"}
                                         /\ tasks[t].session = s}

Init ==
  /\ RegistryInit
  /\ actor \in [Sessions -> Profiles \cup {None}]
  /\ generation = [s \in Sessions |-> 0]
  /\ tasks = [t \in Tasks |-> Idle]
  /\ lastCaptured = [s \in Sessions |-> None]
  /\ log = [c \in Conversations |-> <<>>]
  /\ committed = [c \in Conversations |-> 0]
  /\ skills = [w \in Workspaces |-> [n \in SkillNames |-> 1]]
  /\ context = [s \in Sessions |-> None]
  /\ reached = [k \in Keys |-> {}]
  /\ disturbed = {}
  /\ events = 0

(***************************************************************************)
(* Starting a hook: the principal is resolved, which may bind the session; *)
(* without one the hook does nothing.                                      *)
(***************************************************************************)
Event == events < MaxEvents /\ events' = events + 1

(* Faulty: a hook without a principal goes on. *)
StartAnyway(t, s, at, turn) ==
  /\ Waiting(t, "idle")
  /\ ResolveSession(actor[s], CurrentKey(s))
  /\ tasks' = [tasks EXCEPT ![t] =
                 [at |-> at, session |-> s, turn |-> turn, skill |-> None, tools |-> None,
                  conversation |-> Conversation(SessionWorkspace(actor[s], CurrentKey(s)),
                                                actor[s], CurrentKey(s))]]

Start(t, s, at, turn) ==
  LET w == SessionWorkspace(actor[s], CurrentKey(s))
      c == Conversation(w, actor[s], CurrentKey(s))
  IN  /\ Waiting(t, "idle")
      /\ ResolveSession(actor[s], CurrentKey(s))
      /\ tasks' = IF w = None THEN tasks
                  ELSE [tasks EXCEPT ![t] = [at |-> at, session |-> s, conversation |-> c,
                                             turn |-> turn, skill |-> None, tools |-> None]]

Reach(t) ==
  reached' = [reached EXCEPT ![ConversationOf(t).key] = @ \cup {ConversationOf(t).workspace}]

Disturb(C) == disturbed' = disturbed \cup C

(***************************************************************************)
(* before_prompt_build                                                     *)
(***************************************************************************)
BuildPrompt(t, s) ==
  /\ Event
  /\ Start(t, s, "find", None)
  /\ context' = [context EXCEPT ![s] = None]
  /\ UNCHANGED <<actor, generation, lastCaptured, serverVars, reached, disturbed>>

(* The server ranks the skills; the first one is read next, if there is    *)
(* one.  The recall before it changes only the text of the prompt.         *)
FindSkill(t) ==
  /\ Waiting(t, "find")
  /\ \/ End(t)
     \/ \E n \in SkillNames :
          tasks' = [tasks EXCEPT ![t].at = "get", ![t].skill = n,
                                 ![t].tools = skills[ConversationOf(t).workspace][n]]
  /\ Reach(t)
  /\ UNCHANGED <<registryVars, hostVars, lastCaptured, serverVars, context, disturbed>>

(* Faulty: the tools are those the search listed. *)
ListedSkillContext(w, task) ==
  [workspace |-> w, instructions |-> skills[w][task.skill], tools |-> task.tools]

(* Instructions and tools of the skill as the server has it by now; a      *)
(* version stands for the text and the list of tools it declares.          *)
SkillContext(w, task) ==
  [workspace |-> w, instructions |-> skills[w][task.skill], tools |-> skills[w][task.skill]]

GetSkill(t) ==
  /\ Waiting(t, "get")
  /\ \/ context' = [context EXCEPT ![tasks[t].session] =
                      SkillContext(ConversationOf(t).workspace, tasks[t])]
     \/ UNCHANGED context
  /\ End(t)
  /\ Reach(t)
  /\ UNCHANGED <<registryVars, hostVars, lastCaptured, serverVars, disturbed>>

(***************************************************************************)
(* agent_end.  A turn that repeats the last one of its session key is not  *)
(* stored again.  Nothing keeps the next turn from being stored while the  *)
(* calls of the last one are under way.                                    *)
(***************************************************************************)
EndTurn(t, s, turn) ==
  /\ Event
  /\ IF lastCaptured[s] = turn
     THEN Waiting(t, "idle") /\ ResolveSession(actor[s], CurrentKey(s)) /\ UNCHANGED tasks
     ELSE Start(t, s, "user", turn)
  /\ Disturb({c \in Conversations : c.key = CurrentKey(s) /\ CapturesOf(s) # {}})
  /\ UNCHANGED <<actor, generation, lastCaptured, serverVars, context, reached>>

Store(t, role) ==
  log' = [log EXCEPT ![ConversationOf(t)] = Append(@, Message(role, tasks[t].turn))]

(* Faulty: a question that was refused does not keep the answer out. *)
AddUserAnyway(t) ==
  /\ Waiting(t, "user")
  /\ Store(t, "user") \/ UNCHANGED log
  /\ Goto(t, "assistant")
  /\ Reach(t)
  /\ UNCHANGED <<registryVars, hostVars, lastCaptured, committed, skills, context, disturbed>>

AddUser(t) ==
  /\ Waiting(t, "user")
  /\ \/ Store(t, "user") /\ Goto(t, "assistant") /\ UNCHANGED disturbed
     \/ UNCHANGED log /\ End(t) /\ UNCHANGED disturbed
     \/ Store(t, "user") /\ End(t) /\ Disturb({ConversationOf(t)})
  /\ Reach(t)
  /\ UNCHANGED <<registryVars, hostVars, lastCaptured, committed, skills, context>>

(* Faulty: the turn is not remembered. *)
AddAssistantOnly(t) ==
  /\ Waiting(t, "assistant")
  /\ Store(t, "assistant") /\ Goto(t, "check")
  /\ UNCHANGED <<registryVars, hostVars, lastCaptured, committed, skills, context, reached, disturbed>>

(* Without the answer, or without knowing of it, the turn is not           *)
(* remembered: if it is repeated it is stored again.                       *)
AddAssistant(t) ==
  /\ Waiting(t, "assistant")
  /\ \/ /\ Store(t, "assistant") /\ Goto(t, "check")
        /\ lastCaptured' = [lastCaptured EXCEPT ![tasks[t].session] = tasks[t].turn]
        /\ UNCHANGED disturbed
     \/ /\ Store(t, "assistant") \/ UNCHANGED log
        /\ End(t) /\ Disturb({ConversationOf(t)}) /\ UNCHANGED lastCaptured
  /\ UNCHANGED <<registryVars, hostVars, committed, skills, context, reached>>

Check(t) ==
  /\ Waiting(t, "check")
  /\ \/ Pending(ConversationOf(t)) >= CommitPending /\ Goto(t, "commit")
     \/ End(t)
  /\ UNCHANGED <<registryVars, hostVars, lastCaptured, serverVars, context, reached, disturbed>>

(* The server commits all but the last keep messages.                      *)
CommitAllBut(keep, c) == committed' = [committed EXCEPT ![c] = Max({@, Len(log[c]) - keep})]

Commit(t) ==
  /\ Waiting(t, "commit")
  /\ CommitAllBut(KeepRecent, ConversationOf(t)) \/ UNCHANGED committed
  /\ End(t)
  /\ UNCHANGED <<registryVars, hostVars, lastCaptured, log, skills, context, reached, disturbed>>

(***************************************************************************)
(* before_reset, called with the session id that ends.  The session starts *)
(* over, perhaps for another profile, while the hook is under way.  What a *)
(* capture stores after the reset nobody commits.                          *)
(***************************************************************************)
Reset(t, s) ==
  /\ Event
  /\ generation[s] < MaxResets
  /\ Start(t, s, "inspect", None)
  /\ generation' = [generation EXCEPT ![s] = @ + 1]
  /\ \E p \in Profiles \cup {None} : actor' = [actor EXCEPT ![s] = p]
  /\ Disturb({ConversationOf(x) : x \in CapturesOf(s)}
               \cup {c \in Conversations : c.key = CurrentKey(s) /\ tasks' = tasks})
  /\ UNCHANGED <<lastCaptured, serverVars, context, reached>>

Inspect(t) ==
  /\ Waiting(t, "inspect")
  /\ \/ /\ IF Pending(ConversationOf(t)) > 0 THEN Goto(t, "flush") ELSE End(t)
        /\ UNCHANGED disturbed
     \/ End(t) /\ Disturb({ConversationOf(t)})
  /\ Reach(t)
  /\ UNCHANGED <<registryVars, hostVars, lastCaptured, serverVars, context>>

(* Faulty: the reset keeps what a commit between turns keeps. *)
FlushAllButRecent(t) ==
  /\ Waiting(t, "flush")
  /\ CommitAllBut(KeepRecent, ConversationOf(t)) /\ End(t)
  /\ UNCHANGED <<registryVars, hostVars, lastCaptured, log, skills, context, reached, disturbed>>

Flush(t) ==
  /\ Waiting(t, "flush")
  /\ \/ CommitAllBut(0, ConversationOf(t)) /\ UNCHANGED disturbed
     \/ UNCHANGED committed /\ Disturb({ConversationOf(t)})
  /\ End(t)
  /\ UNCHANGED <<registryVars, hostVars, lastCaptured, log, skills, context, reached>>

(***************************************************************************)
(* Around the hooks: members change, a skill gets a new version, and the   *)
(* gateway restarts, which forgets the hooks under way and the last turns. *)
(***************************************************************************)
ChangeMembers ==
  /\ Event
  /\ Administer
  /\ UNCHANGED <<actor, generation, tasks, lastCaptured, serverVars, context, reached, disturbed>>

UpdateSkill(w, n) ==
  /\ Event
  /\ skills' = [skills EXCEPT ![w][n] = @ + 1]
  /\ UNCHANGED <<registryVars, actor, generation, tasks, lastCaptured, log, committed,
                 context, reached, disturbed>>

Restart ==
  /\ Event
  /\ tasks' = [t \in Tasks |-> Idle]
  /\ lastCaptured' = [s \in Sessions |-> None]
  /\ Disturb({c \in Conversations : log[c] # <<>>}
               \cup {ConversationOf(t) : t \in {x \in Tasks : ~Waiting(x, "idle")}})
  /\ UNCHANGED <<registryVars, actor, generation, serverVars, context, reached>>

Call(t) ==
  \/ FindSkill(t) \/ GetSkill(t)
  \/ AddUser(t) \/ AddAssistant(t) \/ Check(t) \/ Commit(t)
  \/ Inspect(t) \/ Flush(t)

Next ==
  \/ \E t \in Tasks, s \in Sessions : BuildPrompt(t, s) \/ Reset(t, s)
  \/ \E t \in Tasks, s \in Sessions, turn \in Turns : EndTurn(t, s, turn)
  \/ \E t \in Tasks : Call(t)
  \/ ChangeMembers
  \/ \E w \in Workspaces, n \in SkillNames : UpdateSkill(w, n)
  \/ Restart

Spec == Init /\ [][Next]_vars
=============================================================================
