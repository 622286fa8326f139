-------------------------- MODULE AgentProperties --------------------------
(***************************************************************************)
(* What conversations rely on, while the hooks of several sessions         *)
(* interleave with members that change, failures and restarts.             *)
(***************************************************************************)
EXTENDS AgentRuntime

TaskType ==
  [at : {"find", "get", "user", "assistant", "check", "commit",
         "inspect", "flush"},
   session : Sessions, conversation : Conversations, turn : Turns \cup {None},
   skill : SkillNames \cup {None}, tools : 1..(MaxEvents + 1) \cup {None}]

(* Every hook that waits for a call works for a profile in a workspace; a  *)
(* session without a principal gets none.                                  *)
TypeOK ==
  /\ members \in [Workspaces -> [Profiles -> Roles \cup {None}]]
  /\ selected \in [Profiles -> Workspaces \cup {None}]
  /\ bound \in [Keys -> [profile : Profiles, workspace : Workspaces] \cup {None}]
  /\ actor \in [Sessions -> Profiles \cup {None}]
  /\ generation \in [Sessions -> 0..MaxResets]
  /\ tasks \in [Tasks -> TaskType \cup {Idle}]
  /\ lastCaptured \in [Sessions -> Turns \cup {None}]
  /\ log \in [Conversations -> Seq([role : {"user", "assistant"}, turn : Turns])]
  /\ committed \in [Conversations -> Nat]
  /\ \A c \in Conversations : committed[c] <= Len(log[c])
  /\ skills \in [Workspaces -> [SkillNames -> 1..(MaxEvents + 1)]]
  /\ context \in [Sessions -> [workspace : Workspaces, instructions : 1..(MaxEvents + 1),
                             tools : 1..(MaxEvents + 1)] \cup {None}]
  /\ reached \in [Keys -> SUBSET Workspaces]
  /\ disturbed \subseteq Conversations
  /\ events \in 0..MaxEvents

(* No sequence of changes by owners leaves a workspace without an owner    *)
(* (upsertMember and removeMember refuse the last one).                    *)
OwnersRemain == \A w \in Workspaces : Owners(w) # {}

(* A conversation uses the memory of one workspace from its first hook to  *)
(* its last, whatever its profile switches to meanwhile.                   *)
OneWorkspacePerConversation == \A k \in Keys : Cardinality(reached[k]) <= 1

(* A hook begins only for the profile its conversation is bound to, and    *)
(* only while that profile is a member of the workspace it is bound to:    *)
(* losing the membership stops a conversation (resolveSession).            *)
OnlyMembersAreServed ==
  [][\A t \in Tasks :
       Waiting(t, "idle") /\ tasks'[t].at # "idle" =>
         LET c == tasks'[t].conversation
         IN  IsMember(c.profile, c.workspace) /\ bound'[c.key].profile = c.profile]_vars

(* However captures interleave, fail or are cut off, a conversation holds  *)
(* no answer without its question: agent_end stores the question first and *)
(* gives up when that fails.                                               *)
Stored(c, n, m) == Cardinality({i \in 1..n : log[c][i] = m})

AnswersFollowQuestions ==
  \A c \in Conversations, turn \in Turns : \A n \in 1..Len(log[c]) :
    Stored(c, n, Message("assistant", turn)) <= Stored(c, n, Message("user", turn))

(* A conversation none of whose captures failed, was cut off or overlapped *)
(* another one of its session reads question, answer, question, answer,    *)
(* and no turn is stored twice in a row.                                   *)
Quiet(c) == \A t \in Tasks : ~Waiting(t, "idle") => ConversationOf(t) # c

TranscriptIsWellFormed ==
  \A c \in Conversations : Quiet(c) /\ c \notin disturbed =>
    LET n == Len(log[c])
    IN  /\ n % 2 = 0
        /\ \A i \in 1..n : log[c][i].role = IF i % 2 = 1 THEN "user" ELSE "assistant"
        /\ \A i \in 1..n : i % 2 = 1 => log[c][i].turn = log[c][i + 1].turn
        /\ \A i \in 1..(n - 2) : log[c][i].turn # log[c][i + 2].turn

(* A conversation that a reset has closed is committed to the last         *)
(* message, unless its reset failed, was refused, or overtook a capture.   *)
Closed(c) == \E s \in Identified, g \in 0..MaxResets : g < generation[s] /\ c.key = KeyOf(s, g)

ClosedConversationsAreCommitted ==
  \A c \in Conversations : Closed(c) /\ Quiet(c) /\ c \notin disturbed => Pending(c) = 0

(* A prompt carries instructions and tools of one version of a skill, of   *)
(* the workspace the conversation is bound to, although the skill may      *)
(* change between being found and being read.                              *)
PromptsCarryOneSkill ==
  \A s \in Sessions : context[s] # None =>
    /\ context[s].instructions = context[s].tools
    /\ \E k \in Keys : bound[k] # None /\ context[s].workspace = bound[k].workspace
=============================================================================
