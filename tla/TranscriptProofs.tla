--------------------------- MODULE TranscriptProofs ---------------------------
(***************************************************************************)
(* Proofs about what conversations store, for any number of sessions,      *)
(* hooks and resets: no answer without its question, transcripts of turns, *)
(* and nothing left uncommitted when a session starts over.                *)
(***************************************************************************)
EXTENDS AgentProofs

Capturing(t) == Waiting(t, "user") \/ Waiting(t, "assistant")

(***************************************************************************)
(* The answers that are still to be stored.  A question is stored before   *)
(* its hook goes on to the answer, so that the questions of a conversation *)
(* are at least its answers and the answers to come.                       *)
(***************************************************************************)
AnswersToCome(c, turn) ==
  {t \in Tasks : Waiting(t, "assistant") /\ ConversationOf(t) = c /\ tasks[t].turn = turn}

QuestionsSuffice ==
  \A c \in Conversations, turn \in Turns :
    /\ IsFiniteSet(AnswersToCome(c, turn))
    /\ Stored(c, Len(log[c]), Message("assistant", turn)) + Cardinality(AnswersToCome(c, turn))
         <= Stored(c, Len(log[c]), Message("user", turn))

AnswersInv == AnswersFollowQuestions /\ QuestionsSuffice

(***************************************************************************)
(* Keys.  A hook works for a conversation its session has had; a           *)
(* conversation that holds messages is one of a session's, and the one its *)
(* key is bound to.                                                        *)
(***************************************************************************)
Had(s, k) == \E g \in 0..generation[s] : k = KeyOf(s, g)

KeysHad ==
  /\ \A t \in Tasks : tasks[t] # Idle => Had(tasks[t].session, ConversationOf(t).key)
  /\ \A c \in Conversations : log[c] # <<>> =>
       InBinding(c) /\ \E s \in Sessions : Had(s, c.key)

(***************************************************************************)
(* A conversation that nothing disturbed: what it holds are turns, the     *)
(* last one perhaps without its answer yet, and at most one capture is     *)
(* under way, which goes on from there.                                    *)
(***************************************************************************)
Turned(s) ==
  LET n == Len(s) IN
  /\ \A i \in 1..n : s[i].role = IF i % 2 = 1 THEN "user" ELSE "assistant"
  /\ \A i \in 1..(n - 1) : i % 2 = 1 => s[i].turn = s[i + 1].turn
  /\ \A i \in 1..(n - 2) : s[i].turn # s[i + 2].turn

CaptureGoesOn(t) ==
  LET c == ConversationOf(t)
      n == Len(log[c])
  IN  /\ c.key = CurrentKey(tasks[t].session)
      /\ Waiting(t, "user") => n % 2 = 0 /\ (n > 0 => tasks[t].turn # log[c][n].turn)
      /\ Waiting(t, "assistant") => n % 2 = 1 /\ tasks[t].turn = log[c][n].turn
      /\ \A x \in CapturesOf(tasks[t].session) : x = t

TurnsIn(c) ==
  /\ Turned(log[c])
  /\ Len(log[c]) % 2 = 1 => \E t \in Tasks : Waiting(t, "assistant") /\ ConversationOf(t) = c
  /\ \A s \in Sessions : c.key = CurrentKey(s) /\ log[c] # <<>> =>
       /\ \A t \in CapturesOf(s) : ConversationOf(t) = c
       /\ Len(log[c]) % 2 = 0 => lastCaptured[s] = log[c][Len(log[c])].turn

TurnsStored ==
  /\ \A c \in Conversations : c \notin disturbed => TurnsIn(c)
  /\ \A t \in Tasks : Capturing(t) /\ ConversationOf(t) \notin disturbed => CaptureGoesOn(t)

(***************************************************************************)
(* A conversation that a reset has closed is committed, or its reset still *)
(* is under way.                                                           *)
(***************************************************************************)
Flushing(t) == Waiting(t, "inspect") \/ Waiting(t, "flush")

ClosedAreFlushed ==
  \A c \in Conversations : Closed(c) /\ c \notin disturbed =>
    \/ Pending(c) = 0
    \/ \E t \in Tasks : Flushing(t) /\ ConversationOf(t) = c

(***************************************************************************)
(* Counting messages                                                       *)
(***************************************************************************)
CountIn(s, n, m) == Cardinality({i \in 1..n : s[i] = m})

LEMMA CountTyped ==
  ASSUME NEW s, NEW n \in Nat, NEW m
  PROVE  CountIn(s, n, m) \in Nat /\ IsFiniteSet({i \in 1..n : s[i] = m})
<1>1. IsFiniteSet(1..n)
  BY FS_Interval
<1>2. IsFiniteSet({i \in 1..n : s[i] = m})
  BY <1>1, FS_Subset
<1> QED BY <1>2, FS_CardinalityType DEF CountIn

(* A message at the end is counted once, and nothing before it changes.    *)
LEMMA CountAppended ==
  ASSUME NEW M, NEW s \in Seq(M), NEW x \in M, NEW m
  PROVE  /\ \A n \in 0..Len(s) : CountIn(Append(s, x), n, m) = CountIn(s, n, m)
         /\ CountIn(Append(s, x), Len(s) + 1, m)
              = CountIn(s, Len(s), m) + (IF x = m THEN 1 ELSE 0)
<1> DEFINE N == Len(s)
           e == Append(s, x)
<1>1. N \in Nat /\ e[N + 1] = x /\ \A i \in 1..N : e[i] = s[i]
  OBVIOUS
<1> HIDE DEF N, e
<1>2. ASSUME NEW n \in 0..N PROVE CountIn(e, n, m) = CountIn(s, n, m)
  <2>1. \A i \in 1..n : i \in 1..N
    BY <1>1
  <2>2. {i \in 1..n : e[i] = m} = {i \in 1..n : s[i] = m}
    BY <1>1, <2>1
  <2> QED BY <2>2 DEF CountIn
<1>3. CountIn(e, N + 1, m) = CountIn(s, N, m) + (IF x = m THEN 1 ELSE 0)
  <2> DEFINE A == {i \in 1..N : s[i] = m}
             B == {i \in 1..(N + 1) : e[i] = m}
  <2>1. IsFiniteSet(A) /\ Cardinality(A) \in Nat
    BY <1>1, CountTyped DEF CountIn
  <2>2. 1..(N + 1) = 1..N \cup {N + 1} /\ N + 1 \notin 1..N
    BY <1>1
  <2>3. CASE x = m
    <3>1. B = A \cup {N + 1} /\ N + 1 \notin A
      BY <1>1, <2>2, <2>3
    <3>2. Cardinality(B) = Cardinality(A) + 1
      BY <2>1, <3>1, FS_AddElement
    <3> QED BY <2>3, <3>2 DEF CountIn
  <2>4. CASE x # m
    <3>1. B = A
      BY <1>1, <2>2, <2>4
    <3>2. Cardinality(B) = Cardinality(A)
      BY <3>1
    <3> HIDE DEF A, B
    <3>3. Cardinality(B) = Cardinality(A) + 0
      BY <2>1, <3>2
    <3> QED BY <2>4, <3>3 DEF CountIn, A, B
  <2> QED BY <2>3, <2>4
<1> QED BY <1>2, <1>3 DEF N, e

(* AnswersFollowQuestions and QuestionsSuffice in these terms.             *)
Followed(s) ==
  \A turn \in Turns : \A n \in 1..Len(s) :
    CountIn(s, n, Message("assistant", turn)) <= CountIn(s, n, Message("user", turn))

Sufficient(s, turn, A) ==
  /\ IsFiniteSet(A)
  /\ CountIn(s, Len(s), Message("assistant", turn)) + Cardinality(A)
       <= CountIn(s, Len(s), Message("user", turn))

LEMMA AnswersInTerms ==
  /\ AnswersInv <=> \A c \in Conversations :
       /\ Followed(log[c])
       /\ \A turn \in Turns : Sufficient(log[c], turn, AnswersToCome(c, turn))
  /\ AnswersInv' <=> \A c \in Conversations :
       /\ Followed(log'[c])
       /\ \A turn \in Turns : Sufficient(log'[c], turn, AnswersToCome(c, turn)')
<1>1. AnswersInv <=> \A c \in Conversations :
        /\ Followed(log[c])
        /\ \A turn \in Turns : Sufficient(log[c], turn, AnswersToCome(c, turn))
  BY DEF AnswersInv, AnswersFollowQuestions, QuestionsSuffice, Followed, Sufficient, Stored, CountIn
<1>2. AnswersInv' <=> \A c \in Conversations :
        /\ Followed(log'[c])
        /\ \A turn \in Turns : Sufficient(log'[c], turn, AnswersToCome(c, turn)')
  BY DEF AnswersInv, AnswersFollowQuestions, QuestionsSuffice, Followed, Sufficient, Stored, CountIn,
         Message, Conversations
<1> QED BY <1>1, <1>2

(***************************************************************************)
(* How the hooks move                                                      *)
(***************************************************************************)

(* After a call a hook has ended, or goes on for the same turn; an answer  *)
(* comes after its question and no call comes before one.                  *)
LEMMA CallMoves ==
  ASSUME IInv, NEW t \in Tasks, Call(t)
  PROVE  \E x \in TaskType \cup {Idle} :
           /\ tasks' = [tasks EXCEPT ![t] = x]
           /\ x # Idle => /\ x.session = tasks[t].session
                          /\ x.conversation = tasks[t].conversation
                          /\ x.turn = tasks[t].turn
           /\ x.at = "assistant" => AddUser(t)
           /\ x.at # "user"
<1>1. tasks[t] \in TaskType
  BY CallMovesTask
<1>2. tasks \in [Tasks -> TaskType \cup {Idle}]
  BY DEF IInv, TypeOK
<1> DEFINE Moves ==
      \E x \in TaskType \cup {Idle} :
           /\ tasks' = [tasks EXCEPT ![t] = x]
           /\ x # Idle => /\ x.session = tasks[t].session
                          /\ x.conversation = tasks[t].conversation
                          /\ x.turn = tasks[t].turn
           /\ x.at = "assistant" => AddUser(t)
           /\ x.at # "user"
<1>3. ASSUME End(t) PROVE Moves
  <2>1. Idle.at = "idle"
    BY DEF Idle
  <2> QED BY <1>3, <2>1 DEF End
<1>4. ASSUME NEW at \in {"assistant", "check", "commit", "flush"}, Goto(t, at),
             at = "assistant" => AddUser(t)
      PROVE  Moves
  <2> DEFINE x == [tasks[t] EXCEPT !.at = at]
  <2>1. tasks' = [tasks EXCEPT ![t] = x]
    BY <1>4 DEF Goto
  <2>2. /\ x \in TaskType /\ x.at = at /\ x.session = tasks[t].session
        /\ x.conversation = tasks[t].conversation /\ x.turn = tasks[t].turn
    BY <1>1 DEF TaskType
  <2> HIDE DEF x
  <2> QED BY <1>4, <2>1, <2>2
<1>5. ASSUME FindSkill(t), ~End(t) PROVE Moves
  <2>1. PICK n \in SkillNames :
          tasks' = [tasks EXCEPT ![t].at = "get", ![t].skill = n,
                                 ![t].tools = skills[ConversationOf(t).workspace][n]]
    BY <1>5 DEF FindSkill
  <2> DEFINE v == skills[ConversationOf(t).workspace][n]
             x == [tasks[t] EXCEPT !.at = "get", !.skill = n, !.tools = v]
  <2>2. v \in 1..(MaxEvents + 1)
    BY <1>1 DEF IInv, TypeOK, TaskType, Conversations, ConversationOf
  <2>3. tasks' = [tasks EXCEPT ![t] = x]
    BY <1>2, <2>1
  <2> HIDE DEF v
  <2>4. /\ x \in TaskType /\ x.at = "get" /\ x.session = tasks[t].session
        /\ x.conversation = tasks[t].conversation /\ x.turn = tasks[t].turn
    BY <1>1, <2>2 DEF TaskType
  <2> HIDE DEF x
  <2> QED BY <2>3, <2>4
<1>6. ASSUME ~FindSkill(t), ~End(t) PROVE Moves
  <2>1. CASE AddUser(t)
    <3>1. Goto(t, "assistant")
      BY <1>6, <2>1 DEF AddUser
    <3> HIDE DEF Moves
    <3> QED BY <1>4, <2>1, <3>1
  <2>2. CASE ~AddUser(t)
    <3> HIDE DEF Moves
    <3> QED BY <1>4, <1>6, <2>2 DEF Call, GetSkill, AddAssistant, Check, Commit, Inspect, Flush
  <2> QED BY <2>1, <2>2
<1> QED BY <1>3, <1>5, <1>6

(* A hook that starts works for the conversation its session has now.      *)
LEMMA StartMoves ==
  ASSUME IInv, NEW t \in Tasks, NEW s \in Sessions,
         NEW at \in {"find", "user", "inspect"}, NEW turn \in Turns \cup {None},
         at = "user" => turn \in Turns, Start(t, s, at, turn)
  PROVE  /\ tasks[t] = Idle
         /\ \/ tasks' = tasks
            \/ \E x \in TaskType :
                 /\ tasks' = [tasks EXCEPT ![t] = x] /\ x # Idle
                 /\ x.at = at /\ x.session = s /\ x.turn = turn
                 /\ x.conversation.key = CurrentKey(s)
<1>1. tasks[t] = Idle
  BY IdleTask DEF IInv, Start
<1> DEFINE p == actor[s]
           k == CurrentKey(s)
           w == SessionWorkspace(p, k)
           c == Conversation(w, p, k)
           x == [at |-> at, session |-> s, conversation |-> c,
                 turn |-> turn, skill |-> None, tools |-> None]
<1>2. k \in Keys /\ p \in Profiles \cup {None}
  BY CurrentKeyTyped DEF IInv
<1>3. CASE w = None
  BY <1>1, <1>3 DEF Start
<1>4. CASE w # None
  <2>1. tasks' = [tasks EXCEPT ![t] = x]
    BY <1>4 DEF Start
  <2>2. p \in Profiles /\ w \in Workspaces
    <3> HIDE DEF p, k
    <3> QED BY <1>2, <1>4, SessionWorkspaceIsMine DEF IInv
  <2>3. c \in Conversations /\ c.key = k
    BY <1>2, <2>2 DEF Conversation, Conversations
  <2>4. /\ x \in TaskType /\ x # Idle /\ x.at = at /\ x.session = s /\ x.turn = turn
        /\ x.conversation.key = k
    <3> HIDE DEF c, k, w, p
    <3> QED BY <2>3 DEF TaskType, Idle
  <2> HIDE DEF x, c, w, p
  <2> QED BY <1>1, <2>1, <2>4
<1> QED BY <1>3, <1>4

(***************************************************************************)
(* No answer without its question                                          *)
(***************************************************************************)
LEMMA AnswersInit == Init => AnswersInv
<1> SUFFICES ASSUME Init PROVE AnswersInv
  OBVIOUS
<1>1. ASSUME NEW c \in Conversations
      PROVE  /\ Followed(log[c])
             /\ \A turn \in Turns : Sufficient(log[c], turn, AnswersToCome(c, turn))
  <2>1. log[c] = <<>>
    BY DEF Init
  <2>2. \A turn : AnswersToCome(c, turn) = {}
    BY DEF Init, AnswersToCome, Waiting, Idle
  <2>3. \A m : CountIn(<<>>, 0, m) = 0
    <3>1. \A m : {i \in 1..0 : <<>>[i] = m} = {}
      OBVIOUS
    <3> QED BY <3>1, FS_EmptySet DEF CountIn
  <2>4. Len(log[c]) = 0
    BY <2>1
  <2> QED BY <2>1, <2>2, <2>3, <2>4, FS_EmptySet DEF Followed, Sufficient
<1> QED BY <1>1, AnswersInTerms

(* As long as the questions suffice, fewer answers may be to come.         *)
LEMMA FewerSuffice ==
  ASSUME NEW M, NEW s \in Seq(M), NEW turn, NEW A, NEW B \in SUBSET A, Sufficient(s, turn, A)
  PROVE  Sufficient(s, turn, B)
<1> DEFINE a == CountIn(s, Len(s), Message("assistant", turn))
           q == CountIn(s, Len(s), Message("user", turn))
<1>1. IsFiniteSet(A) /\ a + Cardinality(A) <= q
  BY DEF Sufficient
<1>2. IsFiniteSet(B) /\ Cardinality(B) <= Cardinality(A)
  BY <1>1, FS_Subset
<1>3. Cardinality(A) \in Nat /\ Cardinality(B) \in Nat
  BY <1>1, <1>2, FS_CardinalityType
<1>4. a \in Nat /\ q \in Nat
  <2>1. Len(s) \in Nat
    OBVIOUS
  <2> QED BY <2>1, CountTyped
<1> HIDE DEF a, q
<1>5. a + Cardinality(B) <= q
  BY <1>1, <1>2, <1>3, <1>4
<1> QED BY <1>2, <1>5 DEF Sufficient, a, q

(* Nothing is stored, and no answer is to come that was not before.        *)
LEMMA AnswersStay ==
  ASSUME AnswersInv, IInv, log' = log,
         \A c \in Conversations, turn \in Turns :
           AnswersToCome(c, turn)' \subseteq AnswersToCome(c, turn)
  PROVE  AnswersInv'
<1>1. ASSUME NEW c \in Conversations
      PROVE  /\ Followed(log'[c])
             /\ \A turn \in Turns : Sufficient(log'[c], turn, AnswersToCome(c, turn)')
  <2>1. log[c] \in Seq([role : {"user", "assistant"}, turn : Turns])
    BY DEF IInv, TypeOK
  <2>2. Followed(log[c])
    BY AnswersInTerms
  <2>3. ASSUME NEW turn \in Turns PROVE Sufficient(log[c], turn, AnswersToCome(c, turn)')
    <3>1. Sufficient(log[c], turn, AnswersToCome(c, turn))
      BY AnswersInTerms
    <3> QED BY <2>1, <3>1, FewerSuffice
  <2> QED BY <2>2, <2>3
<1> QED BY <1>1, AnswersInTerms

(* A question is stored before its answer is to come.                      *)
LEMMA QuestionSuffices ==
  ASSUME NEW M, NEW s \in Seq(M), NEW v, Message("user", v) \in M, NEW turn, NEW t, NEW A, NEW B,
         Sufficient(s, turn, A), B \subseteq IF turn = v THEN A \cup {t} ELSE A
  PROVE  Sufficient(Append(s, Message("user", v)), turn, B)
<1> DEFINE n == Len(s)
           e == Append(s, Message("user", v))
           a == CountIn(s, n, Message("assistant", turn))
           q == CountIn(s, n, Message("user", turn))
           C == IF turn = v THEN A \cup {t} ELSE A
<1>1. IsFiniteSet(A) /\ a + Cardinality(A) <= q
  BY DEF Sufficient
<1>2. Cardinality(A) \in Nat /\ a \in Nat /\ q \in Nat
  <2>1. n \in Nat
    OBVIOUS
  <2>2. a \in Nat /\ q \in Nat
    BY <2>1, CountTyped
  <2> QED BY <1>1, <2>2, FS_CardinalityType
<1>3. /\ IsFiniteSet(C) /\ Cardinality(C) \in Nat
      /\ Cardinality(C) <= Cardinality(A) + (IF turn = v THEN 1 ELSE 0)
  <2>1. IsFiniteSet(A \cup {t})
        /\ (Cardinality(A \cup {t}) = Cardinality(A) \/ Cardinality(A \cup {t}) = Cardinality(A) + 1)
    BY <1>1, FS_AddElement
  <2> QED BY <1>1, <1>2, <2>1
<1>4. IsFiniteSet(B) /\ Cardinality(B) \in Nat /\ Cardinality(B) <= Cardinality(C)
  BY <1>3, FS_Subset, FS_CardinalityType
<1>5. Len(e) = n + 1
  OBVIOUS
<1>6. CountIn(e, n + 1, Message("assistant", turn)) = a
  BY <1>2, CountAppended DEF Message
<1>7. CountIn(e, n + 1, Message("user", turn)) = q + (IF turn = v THEN 1 ELSE 0)
  BY CountAppended DEF Message
<1> HIDE DEF n, e, a, q, C
<1>8. a + Cardinality(B) <= q + (IF turn = v THEN 1 ELSE 0)
  BY <1>1, <1>2, <1>3, <1>4
<1>9. Sufficient(e, turn, B)
  BY <1>4, <1>5, <1>6, <1>7, <1>8 DEF Sufficient
<1> QED BY <1>9 DEF e

(* An answer that is stored was to come, and is not any more.              *)
LEMMA AnswerSuffices ==
  ASSUME NEW M, NEW s \in Seq(M), NEW v, Message("assistant", v) \in M, NEW turn, NEW t,
         NEW A, NEW B, Sufficient(s, turn, A), B \subseteq A \ {t}, turn = v => t \in A
  PROVE  Sufficient(Append(s, Message("assistant", v)), turn, B)
<1> DEFINE n == Len(s)
           e == Append(s, Message("assistant", v))
           a == CountIn(s, n, Message("assistant", turn))
           q == CountIn(s, n, Message("user", turn))
<1>1. IsFiniteSet(A) /\ a + Cardinality(A) <= q
  BY DEF Sufficient
<1>2. Cardinality(A) \in Nat /\ a \in Nat /\ q \in Nat
  <2>1. n \in Nat
    OBVIOUS
  <2>2. a \in Nat /\ q \in Nat
    BY <2>1, CountTyped
  <2> QED BY <1>1, <2>2, FS_CardinalityType
<1>3. IsFiniteSet(B) /\ Cardinality(B) \in Nat /\ Cardinality(B) <= Cardinality(A)
  BY <1>1, FS_Subset, FS_CardinalityType
<1>4. turn = v => Cardinality(B) <= Cardinality(A) - 1
  <2> SUFFICES ASSUME turn = v PROVE Cardinality(B) <= Cardinality(A) - 1
    OBVIOUS
  <2>1. IsFiniteSet(A \ {t}) /\ Cardinality(A \ {t}) = Cardinality(A) - 1
    BY <1>1, FS_RemoveElement
  <2> QED BY <2>1, FS_Subset
<1>5. Len(e) = n + 1
  OBVIOUS
<1>6. CountIn(e, n + 1, Message("user", turn)) = q
  BY <1>2, CountAppended DEF Message
<1>7. CountIn(e, n + 1, Message("assistant", turn)) = a + (IF turn = v THEN 1 ELSE 0)
  BY CountAppended DEF Message
<1> HIDE DEF n, e, a, q
<1>8. a + (IF turn = v THEN 1 ELSE 0) + Cardinality(B) <= q
  BY <1>1, <1>2, <1>3, <1>4
<1>9. Sufficient(e, turn, B)
  BY <1>3, <1>5, <1>6, <1>7, <1>8 DEF Sufficient
<1> QED BY <1>9 DEF e

(* What followed goes on to follow when the questions suffice at the end.  *)
LEMMA FollowsOn ==
  ASSUME NEW M, NEW s \in Seq(M), NEW x \in M, Followed(s),
         \A turn \in Turns : \E A : Sufficient(Append(s, x), turn, A)
  PROVE  Followed(Append(s, x))
<1> DEFINE e == Append(s, x)
<1> SUFFICES ASSUME NEW turn \in Turns, NEW n \in 1..Len(e)
             PROVE  CountIn(e, n, Message("assistant", turn)) <= CountIn(e, n, Message("user", turn))
  BY DEF Followed
<1>1. Len(e) = Len(s) + 1 /\ Len(s) \in Nat /\ e \in Seq(M)
  OBVIOUS
<1>2. CASE n \in 1..Len(s)
  BY <1>2, CountAppended DEF Followed
<1>3. CASE n = Len(e)
  <2>1. PICK A : Sufficient(e, turn, A)
    OBVIOUS
  <2> DEFINE a == CountIn(e, n, Message("assistant", turn))
             q == CountIn(e, n, Message("user", turn))
  <2>2. IsFiniteSet(A) /\ a + Cardinality(A) <= q
    BY <1>3, <2>1 DEF Sufficient
  <2>3. a \in Nat /\ q \in Nat
    <3>1. n \in Nat
      BY <1>1
    <3> QED BY <3>1, CountTyped
  <2>4. Cardinality(A) \in Nat
    BY <2>2, FS_CardinalityType
  <2> HIDE DEF a, q
  <2>5. a <= q
    BY <2>2, <2>3, <2>4
  <2> QED BY <2>5 DEF a, q
<1> HIDE DEF e
<1> QED BY <1>1, <1>2, <1>3

(* A message is stored: a question, and its answer may be to come; or an   *)
(* answer, which is not to come any more.                                  *)
LEMMA AnswersStored ==
  ASSUME AnswersInv, IInv, NEW t \in Tasks, ConversationOf(t) \in Conversations,
         tasks[t].turn \in Turns, NEW role \in {"user", "assistant"}, Waiting(t, role),
         Store(t, role),
         \A c \in Conversations, turn \in Turns :
           \/ AnswersToCome(c, turn)' \subseteq AnswersToCome(c, turn) \ {t}
           \/ /\ role = "user" /\ c = ConversationOf(t) /\ turn = tasks[t].turn
              /\ AnswersToCome(c, turn)' \subseteq AnswersToCome(c, turn) \cup {t}
  PROVE  AnswersInv'
<1> DEFINE M == [role : {"user", "assistant"}, turn : Turns]
<1>1. PICK d \in Conversations, v \in Turns : d = ConversationOf(t) /\ v = tasks[t].turn
  OBVIOUS
<1>2. /\ log \in [Conversations -> Seq(M)] /\ Message(role, v) \in M
      /\ log' = [log EXCEPT ![d] = Append(log[d], Message(role, v))]
  BY <1>1 DEF IInv, TypeOK, Store, Message
<1> HIDE DEF M
<1>3. log'[d] = Append(log[d], Message(role, v)) /\ log[d] \in Seq(M)
  BY <1>2
<1>4. \A c \in Conversations \ {d} : log'[c] = log[c]
  BY <1>2
<1>5. \A c \in Conversations, turn \in Turns : Sufficient(log[c], turn, AnswersToCome(c, turn))
  BY AnswersInTerms
<1>6. ASSUME NEW c \in Conversations, NEW turn \in Turns
      PROVE  Sufficient(log'[c], turn, AnswersToCome(c, turn)')
  <2> DEFINE A == AnswersToCome(c, turn)
             B == AnswersToCome(c, turn)'
  <2>1. Sufficient(log[c], turn, A) /\ log[c] \in Seq(M)
    BY <1>2, <1>5
  <2>2. \/ B \subseteq A \ {t}
        \/ role = "user" /\ c = d /\ turn = v /\ B \subseteq A \cup {t}
    BY <1>1
  <2>3. role = "assistant" /\ c = d /\ turn = v => t \in A
    BY <1>1 DEF AnswersToCome
  <2> HIDE DEF A, B
  <2>4. CASE c # d
    BY <1>4, <2>1, <2>2, <2>4, FewerSuffice DEF B
  <2>5. CASE c = d /\ role = "user"
    <3>1. B \subseteq IF turn = v THEN A \cup {t} ELSE A
      BY <2>2
    <3>2. Sufficient(Append(log[d], Message("user", v)), turn, B)
      BY <1>2, <2>1, <2>5, <3>1, QuestionSuffices
    <3> QED BY <1>3, <2>5, <3>2 DEF B
  <2>6. CASE c = d /\ role = "assistant"
    <3>1. B \subseteq A \ {t} /\ (turn = v => t \in A)
      BY <2>2, <2>3, <2>6
    <3>2. Sufficient(Append(log[d], Message("assistant", v)), turn, B)
      BY <1>2, <2>1, <2>6, <3>1, AnswerSuffices
    <3> QED BY <1>3, <2>6, <3>2 DEF B
  <2> QED BY <2>4, <2>5, <2>6
<1>7. ASSUME NEW c \in Conversations PROVE Followed(log'[c])
  <2>1. Followed(log[c])
    BY AnswersInTerms
  <2>2. CASE c = d
    <3>1. \A turn \in Turns : \E A : Sufficient(log'[d], turn, A)
      BY <1>6, <2>2
    <3> QED BY <1>2, <1>3, <2>1, <2>2, <3>1, FollowsOn
  <2> QED BY <1>4, <2>1, <2>2
<1> QED BY <1>6, <1>7, AnswersInTerms

(* A hook that moves and does not go on to the answer has none to come.    *)
LEMMA MovedAside ==
  ASSUME IInv, NEW t \in Tasks, NEW x, tasks' = [tasks EXCEPT ![t] = x], x.at # "assistant"
  PROVE  \A c \in Conversations, turn \in Turns :
           AnswersToCome(c, turn)' \subseteq AnswersToCome(c, turn) \ {t}
<1>1. tasks'[t] = x /\ \A y \in Tasks \ {t} : tasks'[y] = tasks[y]
  BY DEF IInv, TypeOK
<1> QED BY <1>1 DEF AnswersToCome, Waiting, ConversationOf

LEMMA StartAsksNothing ==
  ASSUME IInv, NEW t \in Tasks, NEW s \in Sessions,
         NEW at \in {"find", "user", "inspect"}, NEW turn \in Turns \cup {None},
         at = "user" => turn \in Turns, Start(t, s, at, turn)
  PROVE  \A c \in Conversations, u \in Turns : AnswersToCome(c, u)' \subseteq AnswersToCome(c, u)
<1>1. CASE tasks' = tasks
  BY <1>1 DEF AnswersToCome, Waiting, ConversationOf
<1>2. CASE tasks' # tasks
  <2>1. PICK x \in TaskType : tasks' = [tasks EXCEPT ![t] = x] /\ x.at = at
    BY <1>2, StartMoves
  <2> QED BY <2>1, MovedAside
<1> QED BY <1>1, <1>2

LEMMA AnswersCall ==
  ASSUME IInv, AnswersInv, NEW t \in Tasks, Call(t)
  PROVE  AnswersInv'
<1>1. /\ tasks[t] \in TaskType /\ ConversationOf(t) \in Conversations
      /\ Waiting(t, "user") \/ Waiting(t, "assistant") => tasks[t].turn \in Turns
  BY CallMovesTask
<1>2. PICK x \in TaskType \cup {Idle} :
        /\ tasks' = [tasks EXCEPT ![t] = x]
        /\ x # Idle => /\ x.session = tasks[t].session
                       /\ x.conversation = tasks[t].conversation
                       /\ x.turn = tasks[t].turn
        /\ x.at = "assistant" => AddUser(t)
        /\ x.at # "user"
  BY CallMoves
<1>3. tasks'[t] = x /\ \A y \in Tasks \ {t} : tasks'[y] = tasks[y]
  BY <1>2 DEF IInv, TypeOK
<1>4. x.at # "assistant" =>
        \A c \in Conversations, turn \in Turns :
          AnswersToCome(c, turn)' \subseteq AnswersToCome(c, turn) \ {t}
  BY <1>2, MovedAside
<1>5. CASE AddUser(t)
  <2>1. CASE log' = log /\ End(t)
    <3>1. tasks' = [tasks EXCEPT ![t] = Idle] /\ Idle.at # "assistant"
      BY <2>1 DEF End, Idle
    <3>2. \A c \in Conversations, turn \in Turns :
            AnswersToCome(c, turn)' \subseteq AnswersToCome(c, turn)
      BY <3>1, MovedAside
    <3> QED BY <2>1, <3>2, AnswersStay
  <2>2. CASE Store(t, "user")
    <3>1. ASSUME NEW c \in Conversations, NEW turn \in Turns,
                 ~(c = ConversationOf(t) /\ turn = tasks[t].turn)
          PROVE  AnswersToCome(c, turn)' \subseteq AnswersToCome(c, turn) \ {t}
      <4>1. t \notin AnswersToCome(c, turn)'
        <5>1. CASE x = Idle
          BY <1>3, <5>1 DEF AnswersToCome, Waiting, Idle
        <5>2. CASE x # Idle
          BY <1>2, <1>3, <3>1, <5>2 DEF AnswersToCome, ConversationOf
        <5> QED BY <5>1, <5>2
      <4> QED BY <1>3, <4>1 DEF AnswersToCome, Waiting, ConversationOf
    <3>2. \A c \in Conversations, turn \in Turns :
            AnswersToCome(c, turn)' \subseteq AnswersToCome(c, turn) \cup {t}
      BY <1>3 DEF AnswersToCome, Waiting, ConversationOf
    <3>3. Waiting(t, "user") /\ tasks[t].turn \in Turns
      BY <1>1, <1>5 DEF AddUser
    <3> QED BY <1>1, <2>2, <3>1, <3>2, <3>3, AnswersStored
  <2> QED BY <1>5, <2>1, <2>2 DEF AddUser
<1>6. CASE AddAssistant(t)
  <2>1. Waiting(t, "assistant") /\ ~AddUser(t)
    BY <1>6 DEF AddAssistant, AddUser, Waiting
  <2>2. \A c \in Conversations, turn \in Turns :
          AnswersToCome(c, turn)' \subseteq AnswersToCome(c, turn) \ {t}
    BY <1>2, <1>4, <2>1
  <2>3. CASE log' = log
    BY <2>2, <2>3, AnswersStay
  <2>4. CASE Store(t, "assistant")
    BY <1>1, <2>1, <2>2, <2>4, AnswersStored
  <2> QED BY <1>6, <2>3, <2>4 DEF AddAssistant
<1>7. CASE ~AddUser(t) /\ ~AddAssistant(t)
  <2>1. log' = log
    BY <1>7 DEF Call, FindSkill, GetSkill, Check, Commit, Inspect, Flush, serverVars
  <2>2. \A c \in Conversations, turn \in Turns :
          AnswersToCome(c, turn)' \subseteq AnswersToCome(c, turn)
    BY <1>2, <1>4, <1>7
  <2> QED BY <2>1, <2>2, AnswersStay
<1> QED BY <1>5, <1>6, <1>7

LEMMA AnswersHold == IInv /\ AnswersInv /\ [Next]_vars => AnswersInv'
<1> SUFFICES ASSUME IInv, AnswersInv, [Next]_vars PROVE AnswersInv'
  OBVIOUS
<1> DEFINE NoneToCome ==
      \A c \in Conversations, turn \in Turns :
        AnswersToCome(c, turn)' \subseteq AnswersToCome(c, turn)
<1>1. ASSUME tasks' = tasks PROVE NoneToCome
  BY <1>1 DEF AnswersToCome, Waiting, ConversationOf
<1>2. CASE UNCHANGED vars
  <2>1. tasks' = tasks /\ log' = log
    BY <1>2 DEF vars, serverVars
  <2> QED BY <1>1, <2>1, AnswersStay
<1>3. ASSUME NEW t \in Tasks, NEW s \in Sessions, BuildPrompt(t, s) PROVE AnswersInv'
  <2>1. Start(t, s, "find", None) /\ log' = log
    BY <1>3 DEF BuildPrompt, serverVars
  <2>2. NoneToCome
    BY <2>1, StartAsksNothing
  <2> QED BY <2>1, <2>2, AnswersStay
<1>4. ASSUME NEW t \in Tasks, NEW s \in Sessions, Reset(t, s) PROVE AnswersInv'
  <2>1. Start(t, s, "inspect", None) /\ log' = log
    BY <1>4 DEF Reset, serverVars
  <2>2. NoneToCome
    BY <2>1, StartAsksNothing
  <2> QED BY <2>1, <2>2, AnswersStay
<1>5. ASSUME NEW t \in Tasks, NEW s \in Sessions, NEW turn \in Turns, EndTurn(t, s, turn)
      PROVE  AnswersInv'
  <2>1. log' = log /\ (tasks' = tasks \/ Start(t, s, "user", turn))
    BY <1>5 DEF EndTurn, serverVars
  <2>2. NoneToCome
    BY <1>1, <2>1, StartAsksNothing
  <2> QED BY <2>1, <2>2, AnswersStay
<1>6. CASE ChangeMembers \/ \E w \in Workspaces, n \in SkillNames : UpdateSkill(w, n)
  <2>1. tasks' = tasks /\ log' = log
    BY <1>6 DEF ChangeMembers, UpdateSkill, serverVars
  <2> QED BY <1>1, <2>1, AnswersStay
<1>7. CASE Restart
  <2>1. log' = log /\ \A t \in Tasks : tasks'[t] = Idle
    BY <1>7 DEF Restart, serverVars
  <2>2. NoneToCome
    BY <2>1 DEF AnswersToCome, Waiting, Idle
  <2> QED BY <2>1, <2>2, AnswersStay
<1> HIDE DEF NoneToCome
<1> QED BY <1>2, <1>3, <1>4, <1>5, <1>6, <1>7, AnswersCall DEF Next

(***************************************************************************)
(* Keys                                                                    *)
(***************************************************************************)
LEMMA KeysInit == Init => KeysHad
BY DEF Init, KeysHad

(* Sessions only start over, hooks start for the conversation their        *)
(* session has now, and messages are stored by hooks.                      *)
LEMMA KeysStep ==
  ASSUME IInv, KeysHad, BindingsStay,
         \A s \in Sessions : generation'[s] \in Nat /\ generation[s] <= generation'[s],
         \A t \in Tasks : tasks'[t] # Idle =>
           \/ /\ tasks[t] # Idle
              /\ tasks'[t].session = tasks[t].session
              /\ tasks'[t].conversation = tasks[t].conversation
           \/ /\ tasks'[t].session \in Sessions
              /\ tasks'[t].conversation.key = CurrentKey(tasks'[t].session),
         \A c \in Conversations : log'[c] # <<>> =>
           \/ log[c] # <<>>
           \/ \E t \in Tasks : tasks[t] # Idle /\ ConversationOf(t) = c
  PROVE  KeysHad'
<1>1. \A s \in Sessions : generation[s] \in Nat
  BY DEF IInv, TypeOK
<1>2. \A s \in Sessions : \A k : Had(s, k) => \E g \in 0..generation'[s] : k = KeyOf(s, g)
  BY <1>1 DEF Had
<1>3. \A t \in Tasks : tasks[t] # Idle => tasks[t].session \in Sessions
  BY DEF IInv, TypeOK, TaskType
<1>4. ASSUME NEW t \in Tasks, tasks'[t] # Idle
      PROVE  \E g \in 0..generation'[tasks'[t].session] :
               tasks'[t].conversation.key = KeyOf(tasks'[t].session, g)
  <2>1. PICK s : s = tasks'[t].session
    OBVIOUS
  <2>2. PICK k : k = tasks'[t].conversation.key
    OBVIOUS
  <2>3. CASE tasks[t] # Idle /\ s = tasks[t].session /\ tasks'[t].conversation = tasks[t].conversation
    <3>1. s \in Sessions /\ Had(s, k)
      BY <1>3, <2>2, <2>3 DEF KeysHad, ConversationOf
    <3> QED BY <1>2, <2>1, <2>2, <3>1
  <2>4. CASE s \in Sessions /\ k = CurrentKey(s)
    <3>1. generation[s] \in 0..generation'[s]
      BY <1>1, <2>4
    <3> QED BY <2>1, <2>2, <2>4, <3>1 DEF CurrentKey
  <2> QED BY <1>4, <2>1, <2>2, <2>3, <2>4
<1>5. ASSUME NEW c \in Conversations, log'[c] # <<>>
      PROVE  /\ bound'[c.key] = Binding(c.profile, c.workspace)
             /\ \E s \in Sessions : \E g \in 0..generation'[s] : c.key = KeyOf(s, g)
  <2>1. InBinding(c) /\ \E s \in Sessions : Had(s, c.key)
    <3>1. CASE log[c] # <<>>
      BY <3>1 DEF KeysHad
    <3>2. CASE \E t \in Tasks : tasks[t] # Idle /\ ConversationOf(t) = c
      <4>1. PICK t \in Tasks : tasks[t] # Idle /\ ConversationOf(t) = c
        BY <3>2
      <4>2. InBinding(c)
        BY <4>1 DEF IInv, TasksWork
      <4>3. Had(tasks[t].session, c.key) /\ tasks[t].session \in Sessions
        BY <1>3, <4>1 DEF KeysHad
      <4> QED BY <4>2, <4>3
    <3> QED BY <1>5, <3>1, <3>2
  <2>2. c.key \in Keys /\ Binding(c.profile, c.workspace) # None
    BY WorkspaceAssumption DEF Conversations, Binding
  <2>3. bound'[c.key] = Binding(c.profile, c.workspace)
    BY <2>1, <2>2 DEF InBinding, BindingsStay
  <2> QED BY <1>2, <2>1, <2>3
<1> QED BY <1>4, <1>5 DEF KeysHad, Had, InBinding, ConversationOf, Conversations, Idle, Binding, KeyOf

LEMMA KeysCall ==
  ASSUME IInv, KeysHad, NEW t \in Tasks, Call(t)
  PROVE  KeysHad'
<1>1. /\ tasks[t] # Idle /\ ConversationOf(t) \in Conversations
      /\ generation' = generation /\ BindingsStay
  BY CallMovesTask DEF hostVars
<1>2. PICK x \in TaskType \cup {Idle} :
        /\ tasks' = [tasks EXCEPT ![t] = x]
        /\ x # Idle => /\ x.session = tasks[t].session
                       /\ x.conversation = tasks[t].conversation
  BY CallMoves
<1>3. \A y \in Tasks : tasks'[y] # Idle =>
        /\ tasks[y] # Idle
        /\ tasks'[y].session = tasks[y].session
        /\ tasks'[y].conversation = tasks[y].conversation
  BY <1>1, <1>2 DEF IInv, TypeOK
<1>4. \A c \in Conversations : log'[c] # log[c] => ConversationOf(t) = c
  <2>1. CASE log' = log
    BY <2>1
  <2>2. ASSUME NEW role, Store(t, role)
        PROVE  \A c \in Conversations : log'[c] # log[c] => ConversationOf(t) = c
    BY <2>2 DEF Store, IInv, TypeOK
  <2> QED
    BY <2>1, <2>2
    DEF Call, FindSkill, GetSkill, AddUser, AddAssistant, Check, Commit, Inspect, Flush, serverVars
<1>5. \A s \in Sessions : generation'[s] \in Nat /\ generation[s] <= generation'[s]
  BY <1>1 DEF IInv, TypeOK
<1> QED BY <1>1, <1>3, <1>4, <1>5, KeysStep

LEMMA StartKeys ==
  ASSUME IInv, NEW t \in Tasks, NEW s \in Sessions,
         NEW at \in {"find", "user", "inspect"}, NEW turn \in Turns \cup {None},
         at = "user" => turn \in Turns, Start(t, s, at, turn)
  PROVE  /\ BindingsStay
         /\ \A y \in Tasks : tasks'[y] # Idle =>
              \/ /\ tasks[y] # Idle
                 /\ tasks'[y].session = tasks[y].session
                 /\ tasks'[y].conversation = tasks[y].conversation
              \/ /\ tasks'[y].session \in Sessions
                 /\ tasks'[y].conversation.key = CurrentKey(tasks'[y].session)
<1>1. BindingsStay
  BY StartBinds DEF IInv
<1>2. CASE tasks' = tasks
  BY <1>1, <1>2
<1>3. CASE tasks' # tasks
  <2>1. PICK x \in TaskType :
          /\ tasks' = [tasks EXCEPT ![t] = x] /\ x # Idle
          /\ x.session = s /\ x.conversation.key = CurrentKey(s)
    BY <1>3, StartMoves
  <2> QED BY <1>1, <2>1 DEF IInv, TypeOK
<1> QED BY <1>2, <1>3

LEMMA KeysHold == IInv /\ KeysHad /\ [Next]_vars => KeysHad'
<1> SUFFICES ASSUME IInv, KeysHad, [Next]_vars PROVE KeysHad'
  OBVIOUS
<1>0. \A s \in Sessions : generation[s] \in Nat
  BY DEF IInv, TypeOK
<1>1. ASSUME tasks' = tasks, log' = log, generation' = generation, BindingsStay PROVE KeysHad'
  BY <1>0, <1>1, KeysStep
<1>2. ASSUME UNCHANGED bound PROVE BindingsStay
  BY <1>2 DEF BindingsStay
<1>3. CASE UNCHANGED vars
  BY <1>1, <1>2, <1>3 DEF vars, serverVars, hostVars, registryVars
<1>4. ASSUME NEW t \in Tasks, NEW s \in Sessions, BuildPrompt(t, s) PROVE KeysHad'
  <2>1. Start(t, s, "find", None) /\ log' = log /\ generation' = generation
    BY <1>4 DEF BuildPrompt, serverVars
  <2> QED BY <1>0, <2>1, StartKeys, KeysStep
<1>5. ASSUME NEW t \in Tasks, NEW s \in Sessions, Reset(t, s) PROVE KeysHad'
  <2>1. Start(t, s, "inspect", None) /\ log' = log
    BY <1>5 DEF Reset, serverVars
  <2>2. \A y \in Sessions : generation'[y] \in Nat /\ generation[y] <= generation'[y]
    BY <1>0, <1>5 DEF Reset, IInv, TypeOK
  <2> QED BY <2>1, <2>2, StartKeys, KeysStep
<1>6. ASSUME NEW t \in Tasks, NEW s \in Sessions, NEW turn \in Turns, EndTurn(t, s, turn)
      PROVE  KeysHad'
  <2>1. log' = log /\ generation' = generation /\ BindingsStay
    BY <1>6, EndTurnBinds DEF EndTurn, serverVars, IInv
  <2>2. CASE tasks' = tasks
    BY <1>1, <2>1, <2>2
  <2>3. CASE Start(t, s, "user", turn)
    BY <1>0, <2>1, <2>3, StartKeys, KeysStep
  <2> QED BY <1>6, <2>2, <2>3 DEF EndTurn
<1>7. CASE ChangeMembers
  <2>1. BindingsStay
    BY <1>7, AdministerKeepsOwners DEF ChangeMembers, IInv, BindingsStay
  <2> QED BY <1>1, <1>7, <2>1 DEF ChangeMembers, serverVars
<1>8. CASE \E w \in Workspaces, n \in SkillNames : UpdateSkill(w, n)
  BY <1>1, <1>2, <1>8 DEF UpdateSkill, registryVars
<1>9. CASE Restart
  <2>1. log' = log /\ generation' = generation /\ BindingsStay
    BY <1>2, <1>9 DEF Restart, serverVars, registryVars
  <2>2. \A t \in Tasks : tasks'[t] = Idle
    BY <1>9 DEF Restart
  <2> QED BY <1>0, <2>1, <2>2, KeysStep
<1> QED BY <1>3, <1>4, <1>5, <1>6, <1>7, <1>8, <1>9, KeysCall DEF Next

(***************************************************************************)
(* Turns                                                                   *)
(***************************************************************************)

(* The key of a conversation tells its session, and which one of them.     *)
LEMMA KeysDiffer ==
  ASSUME NEW s, NEW g, NEW s2, NEW g2, KeyOf(s, g) = KeyOf(s2, g2)
  PROVE  s = s2 /\ (s \in Identified => g = g2)
BY DEF KeyOf

LEMMA Parity ==
  ASSUME NEW n \in Nat
  PROVE  /\ n % 2 = 0 \/ n % 2 = 1
         /\ n % 2 = 0 => /\ (n + 1) % 2 = 1 /\ (n + 1) % 2 # 0
                         /\ n > 0 => (n - 1) % 2 = 1
         /\ n % 2 = 1 => /\ (n + 1) % 2 = 0 /\ (n + 1) % 2 # 1
                         /\ n > 0 /\ (n > 1 => (n - 2) % 2 = 1)
OBVIOUS

LEMMA TurnedQuestion ==
  ASSUME NEW s \in Seq([role : {"user", "assistant"}, turn : Turns]), NEW v \in Turns,
         Turned(s), Len(s) % 2 = 0, Len(s) > 0 => v # s[Len(s)].turn
  PROVE  Turned(Append(s, Message("user", v)))
<1> DEFINE n == Len(s)
           e == Append(s, Message("user", v))
<1>1. n \in Nat /\ Len(e) = n + 1 /\ e[n + 1] = Message("user", v) /\ \A i \in 1..n : e[i] = s[i]
  OBVIOUS
<1>2. Message("user", v).role = "user" /\ Message("user", v).turn = v
  BY DEF Message
<1>3. /\ n % 2 = 0 /\ (n > 0 => v # s[n].turn)
      /\ \A i \in 1..n : s[i].role = IF i % 2 = 1 THEN "user" ELSE "assistant"
      /\ \A i \in 1..(n - 1) : i % 2 = 1 => s[i].turn = s[i + 1].turn
      /\ \A i \in 1..(n - 2) : s[i].turn # s[i + 2].turn
  BY DEF Turned
<1> HIDE DEF n, e
<1>4. ASSUME NEW i \in 1..(n + 1) PROVE e[i].role = IF i % 2 = 1 THEN "user" ELSE "assistant"
  <2>1. CASE i \in 1..n
    BY <1>1, <1>3, <2>1
  <2>2. CASE i = n + 1
    <3>1. (n + 1) % 2 = 1
      BY <1>1, <1>3, Parity
    <3> QED BY <1>1, <1>2, <2>2, <3>1
  <2> QED BY <1>1, <2>1, <2>2
<1>5. ASSUME NEW i \in 1..n, i % 2 = 1 PROVE e[i].turn = e[i + 1].turn
  BY <1>1, <1>3, <1>5
<1>6. ASSUME NEW i \in 1..(n - 1) PROVE e[i].turn # e[i + 2].turn
  <2>1. CASE i = n - 1
    <3>1. i \in 1..(n - 1) /\ i + 1 = n /\ i + 2 = n + 1 /\ n > 0 /\ i \in 1..n
      BY <1>1, <2>1
    <3>2. i % 2 = 1
      BY <1>1, <1>3, <2>1, <3>1, Parity
    <3>3. s[i].turn = s[n].turn
      BY <1>3, <3>1, <3>2
    <3> QED BY <1>1, <1>2, <1>3, <3>1, <3>3
  <2>2. CASE i # n - 1
    <3>1. i \in 1..(n - 2) /\ i \in 1..n /\ i + 2 \in 1..n
      BY <1>1, <2>2
    <3> QED BY <1>1, <1>3, <3>1
  <2> QED BY <2>1, <2>2
<1>7. Turned(e)
  BY <1>1, <1>4, <1>5, <1>6 DEF Turned
<1> QED BY <1>7 DEF e

LEMMA TurnedAnswer ==
  ASSUME NEW s \in Seq([role : {"user", "assistant"}, turn : Turns]), NEW v \in Turns,
         Turned(s), Len(s) % 2 = 1, v = s[Len(s)].turn
  PROVE  Turned(Append(s, Message("assistant", v)))
<1> DEFINE n == Len(s)
           e == Append(s, Message("assistant", v))
<1>1. n \in Nat /\ Len(e) = n + 1 /\ e[n + 1] = Message("assistant", v) /\ \A i \in 1..n : e[i] = s[i]
  OBVIOUS
<1>2. Message("assistant", v).role = "assistant" /\ Message("assistant", v).turn = v
  BY DEF Message
<1>3. /\ n % 2 = 1 /\ v = s[n].turn
      /\ \A i \in 1..n : s[i].role = IF i % 2 = 1 THEN "user" ELSE "assistant"
      /\ \A i \in 1..(n - 1) : i % 2 = 1 => s[i].turn = s[i + 1].turn
      /\ \A i \in 1..(n - 2) : s[i].turn # s[i + 2].turn
  BY DEF Turned
<1> HIDE DEF n, e
<1>4. ASSUME NEW i \in 1..(n + 1) PROVE e[i].role = IF i % 2 = 1 THEN "user" ELSE "assistant"
  <2>1. CASE i \in 1..n
    BY <1>1, <1>3, <2>1
  <2>2. CASE i = n + 1
    <3>1. (n + 1) % 2 = 0
      BY <1>1, <1>3, Parity
    <3> QED BY <1>1, <1>2, <2>2, <3>1
  <2> QED BY <1>1, <2>1, <2>2
<1>5. ASSUME NEW i \in 1..n, i % 2 = 1 PROVE e[i].turn = e[i + 1].turn
  <2>1. CASE i = n
    BY <1>1, <1>2, <1>3, <2>1
  <2>2. CASE i # n
    <3>1. i \in 1..(n - 1) /\ i \in 1..n /\ i + 1 \in 1..n
      BY <1>1, <2>2
    <3> QED BY <1>1, <1>3, <1>5, <3>1
  <2> QED BY <2>1, <2>2
<1>6. ASSUME NEW i \in 1..(n - 1) PROVE e[i].turn # e[i + 2].turn
  <2>1. CASE i = n - 1
    <3>1. (n - 2) % 2 = 1 /\ n > 2
      <4>1. n > 1
        BY <1>1, <2>1
      <4>2. (n - 2) % 2 = 1
        BY <1>1, <1>3, <4>1, Parity
      <4>3. n # 2
        BY <1>3
      <4> QED BY <1>1, <4>1, <4>2, <4>3
    <3>2. /\ n - 2 \in 1..(n - 2) /\ n - 2 \in 1..(n - 1)
          /\ i = (n - 2) + 1 /\ i + 2 = n + 1 /\ i \in 1..n /\ (n - 2) + 2 = n
      BY <1>1, <2>1, <3>1
    <3>3. s[n - 2].turn = s[i].turn /\ s[n - 2].turn # s[n].turn
      BY <1>3, <3>1, <3>2
    <3> QED BY <1>1, <1>2, <1>3, <3>2, <3>3
  <2>2. CASE i # n - 1
    <3>1. i \in 1..(n - 2) /\ i \in 1..n /\ i + 2 \in 1..n
      BY <1>1, <2>2
    <3> QED BY <1>1, <1>3, <3>1
  <2> QED BY <2>1, <2>2
<1>7. Turned(e)
  BY <1>1, <1>4, <1>5, <1>6 DEF Turned
<1> QED BY <1>7 DEF e

LEMMA CapturingTask ==
  ASSUME IInv, NEW t \in Tasks, Capturing(t)
  PROVE  /\ tasks[t] \in TaskType /\ tasks[t].session \in Sessions
         /\ ConversationOf(t) \in Conversations /\ tasks[t].turn \in Turns
         /\ t \in CapturesOf(tasks[t].session)
<1>1. tasks[t] \in TaskType /\ tasks[t] # Idle /\ ConversationOf(t) \in Conversations
  BY WaitingTask DEF IInv, Capturing
<1>2. tasks[t].turn \in Turns
  BY <1>1 DEF IInv, TasksWork, Ready, Capturing, Waiting
<1> QED BY <1>1, <1>2 DEF TaskType, CapturesOf, Capturing, Waiting

(* Two captures of one conversation that nothing disturbed are one.        *)
LEMMA OneCapture ==
  ASSUME IInv, TurnsStored, NEW t \in Tasks, NEW y \in Tasks, Capturing(t), Capturing(y),
         ConversationOf(t) \notin disturbed,
         ConversationOf(y).key = ConversationOf(t).key,
         tasks[y].session = tasks[t].session \/ ConversationOf(y) \notin disturbed
  PROVE  y = t
<1>1. CaptureGoesOn(t)
  BY DEF TurnsStored
<1>2. tasks[y].session = tasks[t].session
  <2>1. CASE ConversationOf(y) \notin disturbed
    <3>1. CaptureGoesOn(y)
      BY <2>1 DEF TurnsStored
    <3> QED BY <1>1, <3>1, KeysDiffer DEF CaptureGoesOn, CurrentKey
  <2> QED BY <2>1
<1>3. y \in CapturesOf(tasks[t].session)
  BY <1>2, CapturingTask
<1> QED BY <1>1, <1>3 DEF CaptureGoesOn

LEMMA TurnsInit == Init => TurnsStored
<1> SUFFICES ASSUME Init PROVE TurnsStored
  OBVIOUS
<1>1. ASSUME NEW c \in Conversations PROVE TurnsIn(c)
  <2>1. log[c] = <<>>
    BY DEF Init
  <2>2. Turned(<<>>) /\ Len(<<>>) % 2 = 0
    BY DEF Turned
  <2> QED BY <2>1, <2>2 DEF TurnsIn
<1>2. \A t \in Tasks : ~Capturing(t)
  BY DEF Init, Idle, Capturing, Waiting
<1> QED BY <1>1, <1>2 DEF TurnsStored

(* A step that stores nothing, and starts no capture, in a conversation    *)
(* that it does not disturb.                                               *)
LEMMA TurnsQuiet ==
  ASSUME IInv, TurnsStored, disturbed \subseteq disturbed',
         \A c \in Conversations : c \notin disturbed' => log'[c] = log[c],
         \/ lastCaptured' = lastCaptured
         \/ \A c \in Conversations : c \notin disturbed' => log'[c] = <<>>,
         \A s \in Sessions :
           \/ CurrentKey(s)' = CurrentKey(s)
           \/ /\ \A t \in CapturesOf(s) : ConversationOf(t) \in disturbed'
              /\ \A c \in Conversations : c.key = CurrentKey(s)' => log'[c] = <<>>,
         \A t \in Tasks : Capturing(t)' => Capturing(t) /\ tasks'[t] = tasks[t],
         \A t \in Tasks : Waiting(t, "assistant") /\ ConversationOf(t) \notin disturbed' =>
           tasks'[t] = tasks[t]
  PROVE  TurnsStored'
<1>1. ASSUME NEW s \in Sessions, NEW t \in CapturesOf(s)'
      PROVE  t \in CapturesOf(s) /\ ConversationOf(t)' = ConversationOf(t)
  <2>1. t \in Tasks /\ tasks'[t].at \in {"user", "assistant"} /\ tasks'[t].session = s
    BY DEF CapturesOf
  <2>2. Capturing(t)'
    BY <2>1 DEF Capturing, Waiting
  <2>3. tasks'[t] = tasks[t]
    BY <2>1, <2>2
  <2> QED BY <2>1, <2>3 DEF CapturesOf, ConversationOf
<1>2. ASSUME NEW c \in Conversations, c \notin disturbed' PROVE TurnsIn(c)'
  <2>1. TurnsIn(c) /\ log'[c] = log[c]
    BY <1>2 DEF TurnsStored
  <2>2. Turned(log'[c])
    BY <2>1 DEF TurnsIn
  <2>3. ASSUME Len(log'[c]) % 2 = 1
        PROVE  \E t \in Tasks : Waiting(t, "assistant")' /\ ConversationOf(t)' = c
    <3>1. PICK t \in Tasks : Waiting(t, "assistant") /\ ConversationOf(t) = c
      BY <2>1, <2>3 DEF TurnsIn
    <3>2. tasks'[t] = tasks[t]
      BY <1>2, <3>1
    <3> QED BY <3>1, <3>2 DEF Waiting, ConversationOf
  <2>4. ASSUME NEW s \in Sessions, c.key = CurrentKey(s)', log'[c] # <<>>
        PROVE  /\ \A t \in CapturesOf(s)' : ConversationOf(t)' = c
               /\ Len(log'[c]) % 2 = 0 => lastCaptured'[s] = log'[c][Len(log'[c])].turn
    <3>1. c.key = CurrentKey(s) /\ log[c] # <<>>
      BY <2>1, <2>4
    <3>2. /\ \A t \in CapturesOf(s) : ConversationOf(t) = c
          /\ Len(log[c]) % 2 = 0 => lastCaptured[s] = log[c][Len(log[c])].turn
      BY <2>1, <3>1 DEF TurnsIn
    <3>3. \A t \in CapturesOf(s)' : ConversationOf(t)' = c
      BY <1>1, <3>2
    <3>4. lastCaptured' = lastCaptured
      BY <1>2, <2>4
    <3> QED BY <2>1, <3>2, <3>3, <3>4
  <2> QED BY <2>2, <2>3, <2>4 DEF TurnsIn, Turned, Conversations
<1>3. ASSUME NEW t \in Tasks, Capturing(t)', ConversationOf(t)' \notin disturbed'
      PROVE  CaptureGoesOn(t)'
  <2>1. Capturing(t) /\ tasks'[t] = tasks[t]
    BY <1>3
  <2>2. PICK c \in Conversations, s \in Sessions :
          c = ConversationOf(t) /\ s = tasks[t].session /\ t \in CapturesOf(s)
    BY <2>1, CapturingTask
  <2>3. c \notin disturbed' /\ c \notin disturbed /\ log'[c] = log[c]
    BY <1>3, <2>1, <2>2 DEF ConversationOf
  <2>4. CaptureGoesOn(t)
    BY <2>1, <2>2, <2>3 DEF TurnsStored
  <2>5. CurrentKey(s)' = CurrentKey(s)
    BY <2>2, <2>3
  <2>6. \A x \in CapturesOf(s)' : x = t
    BY <1>1, <2>2, <2>4 DEF CaptureGoesOn
  <2>7. ConversationOf(t)' = c /\ tasks'[t].session = s
    BY <2>1, <2>2 DEF ConversationOf
  <2>8. CurrentKey(tasks[t].session)' = CurrentKey(s)'
        /\ CapturesOf(tasks[t].session)' = CapturesOf(s)'
    BY <2>7 DEF CurrentKey, CapturesOf
  <2>9. log[ConversationOf(t)]' = log[c]
    BY <2>3, <2>7
  <2>10. (Waiting(t, "user") <=> Waiting(t, "user")')
         /\ (Waiting(t, "assistant") <=> Waiting(t, "assistant")')
    BY <2>1 DEF Waiting
  <2> QED BY <2>1, <2>2, <2>4, <2>5, <2>6, <2>7, <2>8, <2>9, <2>10 DEF CaptureGoesOn
<1> QED BY <1>2, <1>3 DEF TurnsStored, Conversations

(* A key is bound once: a conversation that holds messages is the one of   *)
(* its key that a hook works for.                                          *)
LEMMA SameConversation ==
  ASSUME KeysHad, BindingsStay, NEW c \in Conversations, log[c] # <<>>,
         NEW e \in Conversations, e.key = c.key, bound'[e.key] = Binding(e.profile, e.workspace)
  PROVE  c = e
<1>1. InBinding(c)
  BY DEF KeysHad
<1>2. c.key \in Keys /\ Binding(c.profile, c.workspace) # None
  BY WorkspaceAssumption DEF Conversations, Binding
<1>3. Binding(c.profile, c.workspace) = Binding(e.profile, e.workspace)
  BY <1>1, <1>2 DEF InBinding, BindingsStay
<1>4. c.profile = e.profile /\ c.workspace = e.workspace
  BY <1>3 DEF Binding
<1> QED BY <1>4 DEF Conversations

(* A capture starts when none of its session is under way, or disturbs the *)
(* conversations of the session.                                           *)
LEMMA TurnsStart ==
  ASSUME IInv, KeysHad, TurnsStored, NEW t \in Tasks, NEW s \in Sessions, NEW turn \in Turns,
         EndTurn(t, s, turn), tasks' # tasks
  PROVE  TurnsStored'
<1>1. Start(t, s, "user", turn) /\ lastCaptured[s] # turn
  BY DEF EndTurn
<1>2. tasks[t] = Idle
  BY <1>1, StartMoves
<1>3. PICK x \in TaskType :
        /\ tasks' = [tasks EXCEPT ![t] = x] /\ x # Idle
        /\ x.at = "user" /\ x.session = s /\ x.turn = turn
        /\ x.conversation.key = CurrentKey(s)
  BY <1>1, StartMoves
<1>4. PICK e \in Conversations : e = x.conversation
  BY DEF TaskType
<1>5. /\ tasks'[t] = x /\ \A y \in Tasks \ {t} : tasks'[y] = tasks[y]
      /\ ~Capturing(t)
  BY <1>2, <1>3 DEF IInv, TypeOK, Capturing, Waiting, Idle
<1>6. /\ log' = log /\ lastCaptured' = lastCaptured /\ generation' = generation
      /\ disturbed' = disturbed \cup {c \in Conversations : c.key = CurrentKey(s) /\ CapturesOf(s) # {}}
  BY DEF EndTurn, serverVars, Disturb
<1>7. \A c \in Conversations : c \notin disturbed' =>
        c \notin disturbed /\ (c.key = CurrentKey(s) => CapturesOf(s) = {})
  BY <1>6
<1>8. \A z \in Sessions : CurrentKey(z)' = CurrentKey(z)
  BY <1>6 DEF CurrentKey, KeyOf
<1>9. \A y \in Tasks \ {t} : (Capturing(y)' <=> Capturing(y)) /\ ConversationOf(y)' = ConversationOf(y)
  BY <1>5 DEF Capturing, Waiting, ConversationOf
<1>10. ConversationOf(t)' = e /\ e.key = CurrentKey(s)
  BY <1>3, <1>4, <1>5 DEF ConversationOf
<1>11. ASSUME NEW z \in Sessions
       PROVE  CapturesOf(z)' = IF z = s THEN CapturesOf(s) \cup {t} ELSE CapturesOf(z)
  <2>1. t \in CapturesOf(z)' <=> z = s
    BY <1>3, <1>5 DEF CapturesOf
  <2>2. t \notin CapturesOf(z)
    BY <1>5 DEF CapturesOf, Capturing, Waiting
  <2>3. \A y \in Tasks \ {t} : y \in CapturesOf(z)' <=> y \in CapturesOf(z)
    BY <1>5 DEF CapturesOf
  <2>4. CapturesOf(z) \subseteq Tasks /\ CapturesOf(z)' \subseteq Tasks
    BY DEF CapturesOf
  <2> QED BY <2>1, <2>2, <2>3, <2>4
<1>12. ASSUME NEW c \in Conversations, c.key = CurrentKey(s), log[c] # <<>>
       PROVE  c = e
  <2>1. InBinding(ConversationOf(t))' /\ BindingsStay
    BY <1>3, <1>5, EndTurnBinds DEF IInv, TasksWork, Idle
  <2>2. bound'[e.key] = Binding(e.profile, e.workspace)
    BY <1>10, <2>1 DEF InBinding
  <2> QED BY <1>10, <1>12, <2>1, <2>2, SameConversation
<1>13. ASSUME NEW c \in Conversations, c \notin disturbed' PROVE TurnsIn(c)'
  <2>1. TurnsIn(c) /\ log'[c] = log[c]
    BY <1>6, <1>7, <1>13 DEF TurnsStored
  <2>2. Turned(log'[c])
    BY <2>1 DEF TurnsIn
  <2>3. ASSUME Len(log'[c]) % 2 = 1
        PROVE  \E y \in Tasks : Waiting(y, "assistant")' /\ ConversationOf(y)' = c
    <3>1. PICK y \in Tasks : Waiting(y, "assistant") /\ ConversationOf(y) = c
      BY <2>1, <2>3 DEF TurnsIn
    <3>2. tasks'[y] = tasks[y]
      BY <1>5, <3>1 DEF Capturing
    <3> QED BY <3>1, <3>2 DEF Waiting, ConversationOf
  <2>4. ASSUME NEW z \in Sessions, c.key = CurrentKey(z)', log'[c] # <<>>
        PROVE  /\ \A y \in CapturesOf(z)' : ConversationOf(y)' = c
               /\ Len(log'[c]) % 2 = 0 => lastCaptured'[z] = log'[c][Len(log'[c])].turn
    <3>1. /\ \A y \in CapturesOf(z) : ConversationOf(y) = c
          /\ Len(log[c]) % 2 = 0 => lastCaptured[z] = log[c][Len(log[c])].turn
      BY <1>8, <2>1, <2>4 DEF TurnsIn
    <3>2. ASSUME NEW y \in CapturesOf(z)' PROVE ConversationOf(y)' = c
      <4>1. CASE z = s
        <5>1. y = t
          BY <1>7, <1>8, <1>11, <1>13, <2>4, <4>1
        <5>2. c = e
          BY <1>8, <1>12, <2>1, <2>4, <4>1
        <5> QED BY <1>10, <5>1, <5>2
      <4>2. CASE z # s
        <5>1. y \in CapturesOf(z) /\ y \in Tasks /\ y # t
          BY <1>5, <1>11, <4>2 DEF CapturesOf, Capturing, Waiting
        <5> QED BY <1>9, <3>1, <5>1
      <4> QED BY <4>1, <4>2
    <3> QED BY <1>6, <3>1, <3>2
  <2> QED BY <2>2, <2>3, <2>4 DEF TurnsIn, Turned, Conversations
<1>14. ASSUME e \notin disturbed' PROVE CaptureGoesOn(t)'
  <2>1. CapturesOf(s) = {} /\ CapturesOf(s)' = {t}
    BY <1>7, <1>10, <1>11, <1>14
  <2>2. TurnsIn(e)
    BY <1>7, <1>14 DEF TurnsStored
  <2>3. Len(log[e]) \in Nat
    BY DEF IInv, TypeOK
  <2>4. Len(log[e]) % 2 # 1
    <3>1. SUFFICES ASSUME Len(log[e]) % 2 = 1 PROVE FALSE
      OBVIOUS
    <3>2. PICK y \in Tasks : Waiting(y, "assistant") /\ ConversationOf(y) = e
      BY <2>2, <3>1 DEF TurnsIn
    <3>3. CaptureGoesOn(y) /\ Capturing(y)
      BY <1>7, <1>14, <3>2 DEF TurnsStored, Capturing
    <3>4. tasks[y].session = s
      <4>1. KeyOf(tasks[y].session, generation[tasks[y].session]) = KeyOf(s, generation[s])
        BY <1>10, <3>2, <3>3 DEF CaptureGoesOn, CurrentKey
      <4> QED BY <4>1, KeysDiffer
    <3> QED BY <2>1, <3>3, <3>4, CapturingTask
  <2>5. Len(log[e]) > 0 => turn # log[e][Len(log[e])].turn
    <3>1. SUFFICES ASSUME Len(log[e]) > 0 PROVE turn # log[e][Len(log[e])].turn
      OBVIOUS
    <3>2. log[e] # <<>>
      BY <3>1
    <3>3. Len(log[e]) % 2 = 0
      BY <2>3, <2>4, Parity
    <3> QED BY <1>1, <1>10, <2>2, <3>2, <3>3 DEF TurnsIn
  <2>6. /\ tasks'[t].session = s /\ tasks'[t].turn = turn
        /\ Waiting(t, "user")' /\ ~Waiting(t, "assistant")'
    BY <1>3, <1>5 DEF Waiting
  <2>7. CurrentKey(tasks[t].session)' = CurrentKey(s) /\ CapturesOf(tasks[t].session)' = {t}
    BY <1>8, <2>1, <2>6 DEF CurrentKey, CapturesOf
  <2>8. log[ConversationOf(t)]' = log[e] /\ Len(log[e]) % 2 = 0
    BY <1>6, <1>10, <2>3, <2>4, Parity
  <2> QED BY <1>10, <2>5, <2>6, <2>7, <2>8 DEF CaptureGoesOn
<1>15. ASSUME NEW y \in Tasks \ {t}, Capturing(y)', ConversationOf(y)' \notin disturbed'
       PROVE  CaptureGoesOn(y)'
  <2>1. Capturing(y) /\ tasks'[y] = tasks[y]
    BY <1>5, <1>9, <1>15
  <2>2. PICK c \in Conversations, z \in Sessions :
          c = ConversationOf(y) /\ z = tasks[y].session /\ y \in CapturesOf(z)
    BY <2>1, CapturingTask
  <2>3. c \notin disturbed /\ (c.key = CurrentKey(s) => CapturesOf(s) = {})
    BY <1>7, <1>9, <1>15, <2>2
  <2>4. CaptureGoesOn(y)
    BY <2>1, <2>2, <2>3 DEF TurnsStored
  <2>5. z # s
    BY <2>2, <2>3, <2>4 DEF CaptureGoesOn
  <2>6. CapturesOf(tasks[y].session)' = CapturesOf(z)
    BY <1>11, <2>1, <2>2, <2>5 DEF CapturesOf
  <2>7. CurrentKey(tasks[y].session)' = CurrentKey(z)
    BY <1>8, <2>1, <2>2 DEF CurrentKey
  <2>8. log[ConversationOf(y)]' = log[c] /\ ConversationOf(y)' = c
    BY <1>6, <1>9, <2>2
  <2>9. (Waiting(y, "user") <=> Waiting(y, "user")')
        /\ (Waiting(y, "assistant") <=> Waiting(y, "assistant")')
    BY <2>1 DEF Waiting
  <2> QED BY <2>1, <2>2, <2>4, <2>6, <2>7, <2>8, <2>9 DEF CaptureGoesOn
<1> QED BY <1>10, <1>13, <1>14, <1>15 DEF TurnsStored, Conversations

(* A capture stores its question and goes on to the answer, or stores the  *)
(* answer, ends and is remembered.                                         *)
LEMMA TurnsCapture ==
  ASSUME IInv, TurnsStored, NEW t \in Tasks, NEW role \in {"user", "assistant"},
         Waiting(t, role), Store(t, role), NEW x, tasks' = [tasks EXCEPT ![t] = x],
         role = "user" => /\ x.at = "assistant" /\ x.session = tasks[t].session
                          /\ x.conversation = tasks[t].conversation /\ x.turn = tasks[t].turn
                          /\ lastCaptured' = lastCaptured,
         role = "assistant" =>
           /\ x.at = "check"
           /\ lastCaptured' = [lastCaptured EXCEPT ![tasks[t].session] = tasks[t].turn],
         generation' = generation, disturbed' = disturbed
  PROVE  TurnsStored'
<1>1. Capturing(t)
  BY DEF Capturing
<1>2. PICK d \in Conversations, s \in Sessions, v \in Turns :
        d = ConversationOf(t) /\ s = tasks[t].session /\ v = tasks[t].turn
  BY <1>1, CapturingTask
<1> DEFINE M == [role : {"user", "assistant"}, turn : Turns]
<1>3. /\ log \in [Conversations -> Seq(M)]
      /\ log' = [log EXCEPT ![d] = Append(log[d], Message(role, v))]
      /\ Message(role, v) \in M /\ Message(role, v).turn = v
  BY <1>2 DEF IInv, TypeOK, Store, Message
<1>4. log[d] \in Seq(M) /\ log'[d] = Append(log[d], Message(role, v))
      /\ \A c \in Conversations \ {d} : log'[c] = log[c]
  BY <1>3
<1>5. Len(log[d]) \in Nat /\ Len(log'[d]) = Len(log[d]) + 1
      /\ log'[d][Len(log[d]) + 1].turn = v
  BY <1>3, <1>4
<1> HIDE DEF M
<1>6. tasks'[t] = x /\ \A y \in Tasks \ {t} : tasks'[y] = tasks[y]
  BY DEF IInv, TypeOK
<1>7. \A z \in Sessions : CurrentKey(z)' = CurrentKey(z)
  BY DEF CurrentKey, KeyOf
<1>8. ASSUME NEW z \in Sessions
      PROVE  /\ CapturesOf(z)' \subseteq CapturesOf(z)
             /\ role = "assistant" => t \notin CapturesOf(z)'
  BY <1>2, <1>6 DEF CapturesOf, Waiting
<1>9. \A y \in Tasks : Capturing(y)' => Capturing(y) /\ ConversationOf(y)' = ConversationOf(y)
  BY <1>1, <1>6 DEF Capturing, Waiting, ConversationOf
<1>10. d \notin disturbed =>
         /\ TurnsIn(d) /\ CaptureGoesOn(t)
         /\ d.key = CurrentKey(s) /\ \A y \in CapturesOf(s) : y = t
         /\ role = "user" =>
              Len(log[d]) % 2 = 0 /\ (Len(log[d]) > 0 => v # log[d][Len(log[d])].turn)
         /\ role = "assistant" => Len(log[d]) % 2 = 1 /\ v = log[d][Len(log[d])].turn
  BY <1>1, <1>2 DEF TurnsStored, CaptureGoesOn
<1>11. d \notin disturbed /\ role = "user" => Len(log'[d]) % 2 = 1 /\ Len(log'[d]) % 2 # 0
  BY <1>5, <1>10, Parity
<1>12. d \notin disturbed /\ role = "assistant" => Len(log'[d]) % 2 = 0 /\ Len(log'[d]) % 2 # 1
  BY <1>5, <1>10, Parity
<1>13. ASSUME NEW c \in Conversations \ {d}, c \notin disturbed PROVE TurnsIn(c)'
  <2>1. TurnsIn(c) /\ log'[c] = log[c]
    BY <1>4, <1>13 DEF TurnsStored
  <2>2. Turned(log'[c])
    BY <2>1 DEF TurnsIn
  <2>3. ASSUME Len(log'[c]) % 2 = 1
        PROVE  \E y \in Tasks : Waiting(y, "assistant")' /\ ConversationOf(y)' = c
    <3>1. PICK y \in Tasks : Waiting(y, "assistant") /\ ConversationOf(y) = c
      BY <2>1, <2>3 DEF TurnsIn
    <3>2. tasks'[y] = tasks[y]
      BY <1>2, <1>6, <3>1
    <3> QED BY <3>1, <3>2 DEF Waiting, ConversationOf
  <2>4. ASSUME NEW z \in Sessions, c.key = CurrentKey(z)', log'[c] # <<>>
        PROVE  /\ \A y \in CapturesOf(z)' : ConversationOf(y)' = c
               /\ Len(log'[c]) % 2 = 0 => lastCaptured'[z] = log'[c][Len(log'[c])].turn
    <3>1. /\ \A y \in CapturesOf(z) : ConversationOf(y) = c
          /\ Len(log[c]) % 2 = 0 => lastCaptured[z] = log[c][Len(log[c])].turn
      BY <1>7, <2>1, <2>4 DEF TurnsIn
    <3>2. ASSUME NEW y \in CapturesOf(z)' PROVE ConversationOf(y)' = c
      <4>1. Capturing(y)' /\ y \in Tasks
        BY DEF CapturesOf, Capturing, Waiting
      <4>2. y \in CapturesOf(z)
        BY <1>8
      <4> QED BY <1>9, <3>1, <4>1, <4>2
    <3>3. lastCaptured'[z] = lastCaptured[z]
      <4>1. t \in CapturesOf(s)
        BY <1>1, <1>2, CapturingTask
      <4>2. z # s
        BY <1>2, <3>1, <4>1
      <4> QED BY <1>2, <4>2 DEF IInv, TypeOK
    <3> QED BY <2>1, <3>1, <3>2, <3>3
  <2> QED BY <2>2, <2>3, <2>4 DEF TurnsIn, Turned, Conversations
<1>14. ASSUME d \notin disturbed PROVE TurnsIn(d)'
  <2>1. Turned(log'[d])
    <3>1. Turned(log[d])
      BY <1>10, <1>14 DEF TurnsIn
    <3>2. CASE role = "user"
      BY <1>4, <1>10, <1>14, <3>1, <3>2, TurnedQuestion DEF M
    <3>3. CASE role = "assistant"
      BY <1>4, <1>10, <1>14, <3>1, <3>3, TurnedAnswer DEF M
    <3> QED BY <3>2, <3>3
  <2>2. ASSUME Len(log'[d]) % 2 = 1
        PROVE  \E y \in Tasks : Waiting(y, "assistant")' /\ ConversationOf(y)' = d
    <3>1. role # "assistant"
      BY <1>12, <1>14, <2>2, Zenon
    <3> QED BY <1>2, <1>6, <3>1 DEF Waiting, ConversationOf
  <2>3. ASSUME NEW z \in Sessions, d.key = CurrentKey(z)'
        PROVE  /\ \A y \in CapturesOf(z)' : ConversationOf(y)' = d
               /\ Len(log'[d]) % 2 = 0 => lastCaptured'[z] = log'[d][Len(log'[d])].turn
    <3>1. z = s
      <4>1. KeyOf(z, generation[z]) = KeyOf(s, generation[s])
        BY <1>7, <1>10, <1>14, <2>3 DEF CurrentKey
      <4> QED BY <4>1, KeysDiffer
    <3>2. ASSUME NEW y \in CapturesOf(z)' PROVE ConversationOf(y)' = d
      <4>1. Capturing(y)' /\ y \in Tasks
        BY DEF CapturesOf, Capturing, Waiting
      <4>2. y \in CapturesOf(s)
        BY <1>8, <3>1
      <4>3. y = t
        BY <1>10, <1>14, <4>2
      <4> QED BY <1>2, <1>9, <4>1, <4>3
    <3>3. ASSUME Len(log'[d]) % 2 = 0 PROVE lastCaptured'[z] = log'[d][Len(log'[d])].turn
      <4>1. role # "user"
        BY <1>11, <1>14, <3>3, Zenon
      <4>2. lastCaptured'[s] = v
        BY <1>2, <4>1 DEF IInv, TypeOK
      <4> QED BY <1>5, <3>1, <4>2
    <3> QED BY <3>2, <3>3
  <2> QED BY <2>1, <2>2, <2>3 DEF TurnsIn, Turned
<1>15. ASSUME NEW y \in Tasks, Capturing(y)', ConversationOf(y)' \notin disturbed'
       PROVE  CaptureGoesOn(y)'
  <2>1. Capturing(y) /\ ConversationOf(y)' = ConversationOf(y)
    BY <1>9, <1>15
  <2>2. PICK c \in Conversations, z \in Sessions :
          c = ConversationOf(y) /\ z = tasks[y].session /\ y \in CapturesOf(z)
    BY <2>1, CapturingTask
  <2>3. c \notin disturbed /\ CaptureGoesOn(y)
    BY <1>15, <2>1, <2>2 DEF TurnsStored
  <2>4. c.key = CurrentKey(z) /\ \A o \in CapturesOf(z) : o = y
    BY <2>2, <2>3 DEF CaptureGoesOn
  <2>5. tasks'[y].session = z
    BY <1>2, <1>6, <1>8, <1>15, <2>2 DEF Capturing, Waiting
  <2>6. CurrentKey(tasks[y].session)' = CurrentKey(z)
    BY <1>7, <2>5 DEF CurrentKey
  <2>7. \A o \in CapturesOf(tasks[y].session)' : o = y
    <3>1. CapturesOf(tasks[y].session)' = CapturesOf(z)'
      BY <2>5 DEF CapturesOf
    <3> QED BY <1>8, <2>4, <3>1
  <2>8. CASE y = t
    <3>1. role = "user" /\ x.at = "assistant"
      BY <1>6, <1>15, <2>8 DEF Capturing, Waiting
    <3>2. c = d /\ Waiting(t, "assistant")' /\ ~Waiting(t, "user")' /\ tasks'[t].turn = v
      BY <1>2, <1>6, <2>2, <2>8, <3>1 DEF Waiting
    <3>3. Len(log'[d]) % 2 = 1 /\ log'[d][Len(log'[d])].turn = v
      BY <1>5, <1>11, <2>3, <3>1, <3>2
    <3>4. log[ConversationOf(y)]' = log'[d] /\ ConversationOf(y)' = d
      BY <2>1, <2>2, <3>2
    <3> QED BY <2>4, <2>6, <2>7, <2>8, <3>2, <3>3, <3>4 DEF CaptureGoesOn
  <2>9. CASE y # t
    <3>1. c # d
      BY <1>1, <1>2, <2>1, <2>2, <2>3, <2>9, OneCapture
    <3>2. log[ConversationOf(y)]' = log[c] /\ ConversationOf(y)' = c
      BY <1>4, <2>1, <2>2, <3>1
    <3>3. /\ (Waiting(y, "user") <=> Waiting(y, "user")')
          /\ (Waiting(y, "assistant") <=> Waiting(y, "assistant")')
          /\ tasks'[y].turn = tasks[y].turn
      BY <1>6, <2>9 DEF Waiting
    <3> QED BY <2>2, <2>3, <2>4, <2>6, <2>7, <3>2, <3>3 DEF CaptureGoesOn
  <2> QED BY <2>8, <2>9
<1> QED BY <1>13, <1>14, <1>15 DEF TurnsStored, Conversations

(* A hook that starts and is no capture leaves the captures alone.         *)
LEMMA StartElsewhere ==
  ASSUME IInv, NEW t \in Tasks, NEW s \in Sessions, NEW at \in {"find", "inspect"},
         Start(t, s, at, None)
  PROVE  /\ \A y \in Tasks : Capturing(y)' => Capturing(y) /\ tasks'[y] = tasks[y]
         /\ \A y \in Tasks : Waiting(y, "assistant") => tasks'[y] = tasks[y]
<1>1. CASE tasks' = tasks
  BY <1>1 DEF Capturing, Waiting
<1>2. CASE tasks' # tasks
  <2>1. tasks[t] = Idle
    BY StartMoves
  <2>2. PICK x \in TaskType : tasks' = [tasks EXCEPT ![t] = x] /\ x.at = at
    BY <1>2, StartMoves
  <2>3. tasks'[t] = x /\ \A y \in Tasks \ {t} : tasks'[y] = tasks[y]
    BY <2>2 DEF IInv, TypeOK
  <2>4. ~Capturing(t) /\ ~Capturing(t)'
    BY <2>1, <2>2, <2>3 DEF Capturing, Waiting, Idle
  <2> QED BY <2>3, <2>4 DEF Capturing, Waiting
<1> QED BY <1>1, <1>2

LEMMA TurnsReset ==
  ASSUME IInv, KeysHad, TurnsStored, NEW t \in Tasks, NEW s \in Sessions, Reset(t, s)
  PROVE  TurnsStored'
<1>1. /\ Start(t, s, "inspect", None) /\ log' = log /\ lastCaptured' = lastCaptured
      /\ generation' = [generation EXCEPT ![s] = @ + 1]
      /\ {ConversationOf(y) : y \in CapturesOf(s)} \subseteq disturbed'
      /\ disturbed \subseteq disturbed'
  BY DEF Reset, serverVars, Disturb
<1>2. generation \in [Sessions -> Nat]
  BY RuntimeAssumption DEF IInv, TypeOK
<1>3. generation'[s] = generation[s] + 1 /\ \A z \in Sessions \ {s} : generation'[z] = generation[z]
  BY <1>1, <1>2
<1>4. ASSUME NEW z \in Sessions \ {s} PROVE CurrentKey(z)' = CurrentKey(z)
  BY <1>3 DEF CurrentKey, KeyOf
<1>5. CASE s \notin Identified
  <2>1. CurrentKey(s)' = CurrentKey(s)
    BY <1>5 DEF CurrentKey, KeyOf
  <2> QED BY <1>1, <1>4, <2>1, StartElsewhere, TurnsQuiet
<1>6. CASE s \in Identified
  <2>1. ASSUME NEW c \in Conversations, c.key = CurrentKey(s)', log[c] # <<>> PROVE FALSE
    <3>0. PICK z \in Sessions : Had(z, c.key)
      BY <2>1 DEF KeysHad
    <3>1. PICK g \in 0..generation[z] : c.key = KeyOf(z, g)
      BY <3>0 DEF Had
    <3>2. KeyOf(s, generation[s] + 1) = KeyOf(z, g)
      BY <1>3, <2>1, <3>1 DEF CurrentKey, KeyOf
    <3>3. s = z /\ generation[s] + 1 = g
      BY <1>6, <3>2, KeysDiffer
    <3> QED BY <1>2, <3>1, <3>3
  <2>2. \A c \in Conversations : c.key = CurrentKey(s)' => log'[c] = <<>>
    BY <1>1, <2>1
  <2>3. \A y \in CapturesOf(s) : ConversationOf(y) \in disturbed'
    BY <1>1
  <2> QED BY <1>1, <1>4, <2>2, <2>3, StartElsewhere, TurnsQuiet
<1> QED BY <1>5, <1>6

LEMMA TurnsCall ==
  ASSUME IInv, TurnsStored, NEW t \in Tasks, Call(t)
  PROVE  TurnsStored'
<1>1. generation' = generation /\ \A s \in Sessions : CurrentKey(s)' = CurrentKey(s)
  BY CallMovesTask DEF hostVars, CurrentKey, KeyOf
<1>2. PICK x \in TaskType \cup {Idle} :
        /\ tasks' = [tasks EXCEPT ![t] = x]
        /\ x # Idle => /\ x.session = tasks[t].session
                       /\ x.conversation = tasks[t].conversation
                       /\ x.turn = tasks[t].turn
        /\ x.at = "assistant" => AddUser(t)
        /\ x.at # "user"
  BY CallMoves
<1>3. tasks'[t] = x /\ \A y \in Tasks \ {t} : tasks'[y] = tasks[y]
  BY <1>2 DEF IInv, TypeOK
<1>4. ASSUME x.at # "assistant", disturbed \subseteq disturbed', lastCaptured' = lastCaptured,
             \A c \in Conversations : c \notin disturbed' => log'[c] = log[c],
             Waiting(t, "assistant") => ConversationOf(t) \in disturbed'
      PROVE  TurnsStored'
  <2>1. ~Capturing(t)'
    BY <1>2, <1>3, <1>4 DEF Capturing, Waiting
  <2>2. \A y \in Tasks : Capturing(y)' => Capturing(y) /\ tasks'[y] = tasks[y]
    BY <1>3, <2>1 DEF Capturing, Waiting
  <2>3. \A y \in Tasks : Waiting(y, "assistant") /\ ConversationOf(y) \notin disturbed' =>
          tasks'[y] = tasks[y]
    BY <1>3, <1>4
  <2> QED BY <1>1, <1>4, <2>2, <2>3, TurnsQuiet
<1>5. End(t) => x.at = "idle"
  BY <1>3 DEF End, Idle, IInv, TypeOK
<1>6. ASSUME NEW role \in {"user", "assistant"}, Waiting(t, role), Store(t, role),
             disturbed' = disturbed \cup {ConversationOf(t)}
      PROVE  \A c \in Conversations : c \notin disturbed' => log'[c] = log[c]
  BY <1>6 DEF Store, IInv, TypeOK
<1>7. CASE AddUser(t)
  <2>0. Waiting(t, "user") /\ ~Waiting(t, "assistant") /\ lastCaptured' = lastCaptured
    BY <1>7 DEF AddUser, Waiting
  <2>1. CASE Store(t, "user") /\ Goto(t, "assistant") /\ UNCHANGED disturbed
    <3>1. x.at = "assistant" /\ x # Idle
      BY <1>3, <2>1, CallMovesTask DEF Goto, TaskType, IInv, TypeOK, Idle
    <3> QED BY <1>1, <1>2, <2>0, <2>1, <3>1, TurnsCapture
  <2>2. CASE UNCHANGED log /\ End(t) /\ UNCHANGED disturbed
    BY <1>4, <1>5, <2>0, <2>2
  <2>3. CASE Store(t, "user") /\ End(t) /\ Disturb({ConversationOf(t)})
    BY <1>4, <1>5, <1>6, <2>0, <2>3 DEF Disturb
  <2> QED BY <1>7, <2>1, <2>2, <2>3 DEF AddUser
<1>8. CASE AddAssistant(t)
  <2>0. Waiting(t, "assistant")
    BY <1>8 DEF AddAssistant
  <2>1. CASE /\ Store(t, "assistant") /\ Goto(t, "check")
             /\ lastCaptured' = [lastCaptured EXCEPT ![tasks[t].session] = tasks[t].turn]
             /\ UNCHANGED disturbed
    <3>1. x.at = "check"
      BY <1>3, <2>1, CallMovesTask DEF Goto, TaskType, IInv, TypeOK
    <3> QED BY <1>1, <1>2, <2>0, <2>1, <3>1, TurnsCapture
  <2>2. CASE /\ Store(t, "assistant") \/ UNCHANGED log
             /\ End(t) /\ Disturb({ConversationOf(t)}) /\ UNCHANGED lastCaptured
    <3>1. \A c \in Conversations : c \notin disturbed' => log'[c] = log[c]
      BY <1>6, <2>0, <2>2 DEF Disturb
    <3> QED BY <1>4, <1>5, <2>2, <3>1 DEF Disturb
  <2> QED BY <1>8, <2>1, <2>2 DEF AddAssistant
<1>9. CASE ~AddUser(t) /\ ~AddAssistant(t)
  <2>1. /\ log' = log /\ lastCaptured' = lastCaptured /\ disturbed \subseteq disturbed'
        /\ ~Waiting(t, "assistant")
    BY <1>9 DEF Call, FindSkill, GetSkill, Check, Commit, Inspect, Flush, serverVars, Disturb, Waiting
  <2> QED BY <1>2, <1>4, <1>9, <2>1
<1> QED BY <1>7, <1>8, <1>9

LEMMA TurnsHold == IInv /\ KeysHad /\ TurnsStored /\ [Next]_vars => TurnsStored'
<1> SUFFICES ASSUME IInv, KeysHad, TurnsStored, [Next]_vars PROVE TurnsStored'
  OBVIOUS
<1>1. ASSUME generation' = generation PROVE \A s \in Sessions : CurrentKey(s)' = CurrentKey(s)
  BY <1>1 DEF CurrentKey, KeyOf
<1>2. ASSUME tasks' = tasks, log' = log, lastCaptured' = lastCaptured, generation' = generation,
             disturbed \subseteq disturbed'
      PROVE  TurnsStored'
  <2>1. \A y \in Tasks : Capturing(y)' => Capturing(y)
    BY <1>2 DEF Capturing, Waiting
  <2> QED BY <1>1, <1>2, <2>1, TurnsQuiet
<1>3. CASE UNCHANGED vars
  BY <1>2, <1>3 DEF vars, serverVars, hostVars
<1>4. ASSUME NEW t \in Tasks, NEW s \in Sessions, BuildPrompt(t, s) PROVE TurnsStored'
  <2>1. /\ Start(t, s, "find", None) /\ log' = log /\ lastCaptured' = lastCaptured
        /\ generation' = generation /\ disturbed' = disturbed
    BY <1>4 DEF BuildPrompt, serverVars
  <2> QED BY <1>1, <2>1, StartElsewhere, TurnsQuiet
<1>5. ASSUME NEW t \in Tasks, NEW s \in Sessions, NEW turn \in Turns, EndTurn(t, s, turn)
      PROVE  TurnsStored'
  <2>1. CASE tasks' = tasks
    BY <1>2, <1>5, <2>1 DEF EndTurn, serverVars, Disturb
  <2>2. CASE tasks' # tasks
    BY <1>5, <2>2, TurnsStart
  <2> QED BY <2>1, <2>2
<1>6. CASE ChangeMembers
  BY <1>2, <1>6 DEF ChangeMembers, serverVars
<1>7. CASE \E w \in Workspaces, n \in SkillNames : UpdateSkill(w, n)
  BY <1>2, <1>7 DEF UpdateSkill
<1>8. CASE Restart
  <2>1. /\ log' = log /\ generation' = generation /\ disturbed \subseteq disturbed'
        /\ \A c \in Conversations : c \notin disturbed' => log'[c] = <<>>
    BY <1>8 DEF Restart, serverVars, Disturb
  <2>2. \A y \in Tasks : ~Capturing(y)'
    BY <1>8 DEF Restart, Capturing, Waiting, Idle
  <2>3. \A y \in Tasks : Waiting(y, "assistant") => ConversationOf(y) \in disturbed'
    <3>1. \A y \in Tasks : Waiting(y, "assistant") => ~Waiting(y, "idle")
      BY DEF Waiting
    <3> QED BY <1>8, <3>1 DEF Restart, Disturb
  <2> QED BY <1>1, <2>1, <2>2, <2>3, TurnsQuiet
<1> QED BY <1>3, <1>4, <1>5, <1>6, <1>7, <1>8, TurnsReset, TurnsCall DEF Next

(***************************************************************************)
(* What a reset leaves                                                     *)
(***************************************************************************)
LEMMA ClosedInit == Init => ClosedAreFlushed
<1>1. Init => \A c \in Conversations : ~Closed(c)
  <2> SUFFICES ASSUME Init, NEW c \in Conversations, Closed(c) PROVE FALSE
    OBVIOUS
  <2>1. PICK s \in Identified, g \in 0..MaxResets : g < generation[s]
    BY DEF Closed
  <2>2. generation[s] = 0
    BY RuntimeAssumption DEF Init
  <2> QED BY <2>1, <2>2, RuntimeAssumption
<1> QED BY <1>1 DEF ClosedAreFlushed

(* A commit takes nothing back.                                            *)
LEMMA CommitGrows ==
  ASSUME IInv, NEW keep \in Nat, NEW d \in Conversations, CommitAllBut(keep, d)
  PROVE  /\ \A c \in Conversations : committed[c] <= committed'[c]
         /\ Len(log[d]) - keep <= committed'[d]
<1> DEFINE a == committed[d]
           b == Len(log[d]) - keep
<1>1. /\ committed \in [Conversations -> Nat] /\ Len(log[d]) \in Nat
      /\ committed' = [committed EXCEPT ![d] = Max({a, b})]
  BY DEF IInv, TypeOK, CommitAllBut
<1>2. a \in Nat /\ b \in Int
  BY <1>1
<1>3. a <= Max({a, b}) /\ b <= Max({a, b})
  <2> HIDE DEF a, b
  <2>1. \E x \in {a, b} : \A y \in {a, b} : x >= y
    BY <1>2
  <2>2. Max({a, b}) \in {a, b} /\ \A y \in {a, b} : Max({a, b}) >= y
    BY <2>1 DEF Max
  <2> QED BY <1>2, <2>2
<1> QED BY <1>1, <1>3

(* A step that closes no conversation, takes no commit back, and ends no   *)
(* reset with messages left.                                               *)
LEMMA ClosedQuiet ==
  ASSUME IInv, IInv', ClosedAreFlushed, disturbed \subseteq disturbed',
         \A c \in Conversations : Closed(c)' => Closed(c),
         \A c \in Conversations : committed[c] <= committed'[c],
         \A c \in Conversations : Closed(c) /\ c \notin disturbed' => log'[c] = log[c],
         \A c \in Conversations, t \in Tasks :
           Flushing(t) /\ ConversationOf(t) = c /\ c \notin disturbed' =>
             \/ Len(log'[c]) <= committed'[c]
             \/ Flushing(t)' /\ ConversationOf(t)' = c
  PROVE  ClosedAreFlushed'
<1>1. ASSUME NEW c \in Conversations, Closed(c)', c \notin disturbed'
      PROVE  \/ Pending(c)' = 0
             \/ \E t \in Tasks : Flushing(t)' /\ ConversationOf(t)' = c
  <2>1. Closed(c) /\ c \notin disturbed /\ log'[c] = log[c]
    BY <1>1
  <2>2. /\ committed[c] \in Nat /\ committed'[c] \in Nat /\ Len(log'[c]) \in Nat
        /\ committed'[c] <= Len(log'[c]) /\ committed[c] <= committed'[c]
    BY DEF IInv, TypeOK
  <2>3. CASE Pending(c) = 0
    BY <2>1, <2>2, <2>3 DEF Pending
  <2>4. CASE \E t \in Tasks : Flushing(t) /\ ConversationOf(t) = c
    BY <1>1, <2>2, <2>4 DEF Pending
  <2> QED BY <2>1, <2>3, <2>4 DEF ClosedAreFlushed
<1> QED BY <1>1 DEF ClosedAreFlushed, Conversations

(* The hook of a reset works for the conversation that it closes, unless   *)
(* there is none: then nothing is stored, or the reset disturbs it.        *)
LEMMA ClosedReset ==
  ASSUME IInv, IInv', KeysHad, ClosedAreFlushed, NEW t \in Tasks, NEW s \in Sessions, Reset(t, s)
  PROVE  ClosedAreFlushed'
<1>1. /\ Start(t, s, "inspect", None) /\ log' = log /\ committed' = committed
      /\ generation' = [generation EXCEPT ![s] = @ + 1]
      /\ {c \in Conversations : c.key = CurrentKey(s) /\ tasks' = tasks} \subseteq disturbed'
      /\ disturbed \subseteq disturbed'
  BY DEF Reset, serverVars, Disturb
<1>2. generation \in [Sessions -> Nat]
  BY RuntimeAssumption DEF IInv, TypeOK
<1>3. generation'[s] = generation[s] + 1 /\ \A z \in Sessions \ {s} : generation'[z] = generation[z]
  BY <1>1, <1>2
<1>4. tasks[t] = Idle /\ \A y \in Tasks \ {t} : tasks'[y] = tasks[y]
  <2>1. CASE tasks' = tasks
    BY <1>1, <2>1, StartMoves
  <2>2. CASE tasks' # tasks
    <3>1. PICK x \in TaskType : tasks' = [tasks EXCEPT ![t] = x]
      BY <1>1, <2>2, StartMoves
    <3>2. tasks[t] = Idle
      BY <1>1, StartMoves
    <3> QED BY <3>1, <3>2 DEF IInv, TypeOK
  <2> QED BY <2>1, <2>2
<1>5. ASSUME NEW c \in Conversations, Closed(c)', c \notin disturbed'
      PROVE  \/ Pending(c)' = 0
             \/ \E y \in Tasks : Flushing(y)' /\ ConversationOf(y)' = c
  <2>1. Pending(c)' = Pending(c)
    BY <1>1 DEF Pending
  <2>2. CASE Closed(c)
    <3>1. Pending(c) = 0 \/ \E y \in Tasks : Flushing(y) /\ ConversationOf(y) = c
      BY <1>1, <1>5, <2>2 DEF ClosedAreFlushed
    <3>2. \A y \in Tasks : Flushing(y) => Flushing(y)' /\ ConversationOf(y)' = ConversationOf(y)
      BY <1>4 DEF Flushing, Waiting, Idle, ConversationOf
    <3> QED BY <2>1, <3>1, <3>2
  <2>3. CASE ~Closed(c) /\ log[c] = <<>>
    <3>1. committed[c] \in Nat /\ committed[c] <= 0 /\ Len(log[c]) = 0
      BY <2>3 DEF IInv, TypeOK
    <3> QED BY <2>1, <3>1 DEF Pending
  <2>4. CASE ~Closed(c) /\ log[c] # <<>>
    <3>1. PICK z \in Identified, g \in 0..MaxResets : g < generation'[z] /\ c.key = KeyOf(z, g)
      BY <1>5 DEF Closed, KeyOf
    <3>2. ~(g < generation[z]) /\ z \in Sessions
      BY <2>4, <3>1, RuntimeAssumption DEF Closed
    <3>3. z = s /\ g = generation[s]
      BY <1>2, <1>3, <3>1, <3>2
    <3>4. c.key = CurrentKey(s)
      BY <3>1, <3>3 DEF CurrentKey
    <3>5. tasks' # tasks
      BY <1>1, <1>5, <3>4
    <3>6. PICK x \in TaskType :
            /\ tasks' = [tasks EXCEPT ![t] = x] /\ x # Idle
            /\ x.at = "inspect" /\ x.conversation.key = CurrentKey(s)
      BY <1>1, <3>5, StartMoves
    <3>7. tasks'[t] = x
      BY <3>6 DEF IInv, TypeOK
    <3>8. PICK e \in Conversations : e = x.conversation
      BY DEF TaskType
    <3>9. InBinding(ConversationOf(t))' /\ BindingsStay
      BY <1>1, <3>6, <3>7, StartBinds DEF IInv, TasksWork, Idle
    <3>10. bound'[e.key] = Binding(e.profile, e.workspace)
      BY <3>7, <3>8, <3>9 DEF InBinding, ConversationOf
    <3>11. c = e
      BY <2>4, <3>4, <3>6, <3>8, <3>9, <3>10, SameConversation
    <3> QED BY <3>6, <3>7, <3>8, <3>11 DEF Flushing, Waiting, ConversationOf
  <2> QED BY <2>2, <2>3, <2>4
<1> QED BY <1>5 DEF ClosedAreFlushed, Conversations

LEMMA ClosedCall ==
  ASSUME IInv, IInv', TurnsStored, ClosedAreFlushed, NEW t \in Tasks, Call(t)
  PROVE  ClosedAreFlushed'
<1>1. ConversationOf(t) \in Conversations /\ generation' = generation
  BY CallMovesTask DEF hostVars
<1>2. PICK x \in TaskType \cup {Idle} : tasks' = [tasks EXCEPT ![t] = x]
  BY CallMoves
<1>3. tasks'[t] = x /\ \A y \in Tasks \ {t} : tasks'[y] = tasks[y]
  BY <1>2 DEF IInv, TypeOK
<1>4. \A c \in Conversations : Closed(c)' => Closed(c)
  BY <1>1 DEF Closed, KeyOf
<1>5. disturbed \subseteq disturbed'
  BY DEF Call, FindSkill, GetSkill, AddUser, AddAssistant, Check, Commit, Inspect, Flush, Disturb
<1>6. \A c \in Conversations : committed[c] <= committed'[c]
  <2>1. CASE committed' = committed
    BY <2>1 DEF IInv, TypeOK
  <2>2. CASE CommitAllBut(KeepRecent, ConversationOf(t))
    BY <1>1, <2>2, CommitGrows, RuntimeAssumption
  <2>3. CASE CommitAllBut(0, ConversationOf(t))
    BY <1>1, <2>3, CommitGrows
  <2> QED BY <2>1, <2>2, <2>3
          DEF Call, FindSkill, GetSkill, AddUser, AddAssistant, Check, Commit, Inspect, Flush, serverVars
<1>7. ASSUME NEW c \in Conversations, Closed(c), c \notin disturbed' PROVE log'[c] = log[c]
  <2>1. ASSUME NEW role, Store(t, role), log'[c] # log[c] PROVE c = ConversationOf(t)
    BY <2>1 DEF Store, IInv, TypeOK
  <2>2. ASSUME Capturing(t) PROVE c # ConversationOf(t)
    <3>1. SUFFICES ASSUME c = ConversationOf(t) PROVE FALSE
      OBVIOUS
    <3>2. tasks[t].session \in Sessions /\ CaptureGoesOn(t)
      BY <1>5, <1>7, <2>2, <3>1, CapturingTask DEF TurnsStored
    <3>3. PICK s : s = tasks[t].session
      OBVIOUS
    <3>4. PICK z \in Identified, g \in 0..MaxResets : g < generation[z] /\ c.key = KeyOf(z, g)
      BY <1>7 DEF Closed
    <3>5. KeyOf(z, g) = KeyOf(s, generation[s])
      BY <3>1, <3>2, <3>3, <3>4 DEF CaptureGoesOn, CurrentKey
    <3>6. z = s /\ g = generation[s]
      BY <3>5, KeysDiffer
    <3> QED BY <3>4, <3>6
  <2> QED BY <2>1, <2>2
          DEF Call, FindSkill, GetSkill, AddUser, AddAssistant, Check, Commit, Inspect, Flush,
              serverVars, Capturing
<1>8. ASSUME NEW c \in Conversations, Flushing(t), ConversationOf(t) = c, c \notin disturbed'
      PROVE  \/ Len(log'[c]) <= committed'[c]
             \/ Flushing(t)' /\ ConversationOf(t)' = c
  <2>1. CASE Inspect(t)
    <3>1. IF Pending(c) > 0 THEN Goto(t, "flush") ELSE End(t)
      BY <1>8, <2>1 DEF Inspect, Disturb
    <3>2. log' = log /\ committed' = committed
      BY <2>1 DEF Inspect, serverVars
    <3>3. CASE Pending(c) > 0
      <4>1. Goto(t, "flush")
        BY <3>1, <3>3
      <4>2. tasks'[t] = [tasks[t] EXCEPT !.at = "flush"] /\ tasks[t] \in TaskType
        BY <4>1, CallMovesTask DEF Goto, IInv, TypeOK
      <4> QED BY <1>8, <4>2 DEF Flushing, Waiting, ConversationOf, TaskType
    <3>4. CASE ~(Pending(c) > 0)
      <4>1. Len(log[c]) \in Nat /\ committed[c] \in Nat
        BY DEF IInv, TypeOK
      <4> QED BY <3>2, <3>4, <4>1 DEF Pending
    <3> QED BY <3>3, <3>4
  <2>2. CASE Flush(t)
    <3>1. CommitAllBut(0, c) /\ log' = log
      BY <1>8, <2>2 DEF Flush, Disturb
    <3>2. Len(log[c]) - 0 <= committed'[c]
      BY <3>1, CommitGrows
    <3>3. Len(log[c]) \in Nat /\ committed'[c] \in Nat
      BY DEF IInv, TypeOK
    <3> QED BY <3>1, <3>2, <3>3
  <2> QED BY <1>8, <2>1, <2>2
          DEF Call, FindSkill, GetSkill, AddUser, AddAssistant, Check, Commit, Flushing, Waiting
<1>9. \A c \in Conversations, y \in Tasks :
        Flushing(y) /\ ConversationOf(y) = c /\ c \notin disturbed' =>
          \/ Len(log'[c]) <= committed'[c]
          \/ Flushing(y)' /\ ConversationOf(y)' = c
  BY <1>3, <1>8 DEF Flushing, Waiting, ConversationOf
<1> QED BY <1>4, <1>5, <1>6, <1>7, <1>9, ClosedQuiet

LEMMA ClosedHold ==
  IInv /\ IInv' /\ KeysHad /\ TurnsStored /\ ClosedAreFlushed /\ [Next]_vars => ClosedAreFlushed'
<1> SUFFICES ASSUME IInv, IInv', KeysHad, TurnsStored, ClosedAreFlushed, [Next]_vars
             PROVE  ClosedAreFlushed'
  OBVIOUS
<1>1. ASSUME generation' = generation, log' = log, committed' = committed,
             disturbed \subseteq disturbed',
             \A t \in Tasks : Flushing(t) => tasks'[t] = tasks[t]
      PROVE  ClosedAreFlushed'
  <2>1. \A c \in Conversations : Closed(c)' => Closed(c)
    BY <1>1 DEF Closed, KeyOf
  <2>2. \A c \in Conversations : committed[c] <= committed'[c]
    BY <1>1 DEF IInv, TypeOK
  <2>3. \A t \in Tasks : Flushing(t) => Flushing(t)' /\ ConversationOf(t)' = ConversationOf(t)
    BY <1>1 DEF Flushing, Waiting, ConversationOf
  <2> QED BY <1>1, <2>1, <2>2, <2>3, ClosedQuiet
<1>2. ASSUME NEW t \in Tasks, NEW s \in Sessions, NEW at \in {"find", "user"},
             NEW turn \in Turns \cup {None}, at = "user" => turn \in Turns, Start(t, s, at, turn)
      PROVE  \A y \in Tasks : Flushing(y) => tasks'[y] = tasks[y]
  <2>1. CASE tasks' = tasks
    BY <2>1
  <2>2. CASE tasks' # tasks
    <3>1. tasks[t] = Idle
      BY <1>2, StartMoves
    <3>2. PICK x \in TaskType : tasks' = [tasks EXCEPT ![t] = x]
      BY <1>2, <2>2, StartMoves
    <3> QED BY <3>1, <3>2 DEF IInv, TypeOK, Flushing, Waiting, Idle
  <2> QED BY <2>1, <2>2
<1>3. CASE UNCHANGED vars
  BY <1>1, <1>3 DEF vars, serverVars, hostVars
<1>4. ASSUME NEW t \in Tasks, NEW s \in Sessions, BuildPrompt(t, s) PROVE ClosedAreFlushed'
  BY <1>1, <1>2, <1>4 DEF BuildPrompt, serverVars
<1>5. ASSUME NEW t \in Tasks, NEW s \in Sessions, NEW turn \in Turns, EndTurn(t, s, turn)
      PROVE  ClosedAreFlushed'
  BY <1>1, <1>2, <1>5 DEF EndTurn, serverVars, Disturb
<1>6. CASE ChangeMembers
  BY <1>1, <1>6 DEF ChangeMembers, serverVars
<1>7. CASE \E w \in Workspaces, n \in SkillNames : UpdateSkill(w, n)
  BY <1>1, <1>7 DEF UpdateSkill
<1>8. CASE Restart
  <2>1. /\ log' = log /\ committed' = committed /\ generation' = generation
        /\ disturbed \subseteq disturbed'
        /\ {ConversationOf(t) : t \in {y \in Tasks : ~Waiting(y, "idle")}} \subseteq disturbed'
    BY <1>8 DEF Restart, serverVars, Disturb
  <2>2. \A t \in Tasks : Flushing(t) => ConversationOf(t) \in disturbed'
    <3>1. \A t \in Tasks : Flushing(t) => ~Waiting(t, "idle")
      BY DEF Flushing, Waiting
    <3> QED BY <2>1, <3>1
  <2>3. \A c \in Conversations : Closed(c)' => Closed(c)
    BY <2>1 DEF Closed, KeyOf
  <2>4. \A c \in Conversations : committed[c] <= committed'[c]
    BY <2>1 DEF IInv, TypeOK
  <2> QED BY <2>1, <2>2, <2>3, <2>4, ClosedQuiet
<1> QED BY <1>3, <1>4, <1>5, <1>6, <1>7, <1>8, ClosedReset, ClosedCall DEF Next

(***************************************************************************)
(* Theorems                                                                *)
(***************************************************************************)

(* Whatever fails, overlaps or is cut off, no conversation holds more      *)
(* answers to a turn than questions, at any point of its transcript.       *)
THEOREM AnswersFollow == Spec => []AnswersFollowQuestions
<1>1. AnswersInv => AnswersFollowQuestions
  BY DEF AnswersInv
<1> QED BY <1>1, AnswersInit, AnswersHold, Invariant, PTL DEF Spec

(* The hooks of a session work for conversations the session has had, and  *)
(* a key is bound to the one conversation that holds its messages.         *)
THEOREM KeysAreHad == Spec => []KeysHad
BY KeysInit, KeysHold, Invariant, PTL DEF Spec

THEOREM TurnsAreStored == Spec => []TurnsStored
BY TurnsInit, TurnsHold, KeysAreHad, Invariant, PTL DEF Spec

(* A conversation at rest that nothing disturbed consists of questions     *)
(* with their answers, and no turn follows itself.                         *)
THEOREM TranscriptsAreTurns == Spec => []TranscriptIsWellFormed
<1>1. ASSUME IInv, TurnsStored PROVE TranscriptIsWellFormed
  <2> SUFFICES ASSUME NEW c \in Conversations, Quiet(c), c \notin disturbed
               PROVE  LET n == Len(log[c])
                      IN  /\ n % 2 = 0
                          /\ \A i \in 1..n : log[c][i].role = IF i % 2 = 1 THEN "user" ELSE "assistant"
                          /\ \A i \in 1..n : i % 2 = 1 => log[c][i].turn = log[c][i + 1].turn
                          /\ \A i \in 1..(n - 2) : log[c][i].turn # log[c][i + 2].turn
    BY DEF TranscriptIsWellFormed
  <2> DEFINE n == Len(log[c])
  <2>1. Turned(log[c]) /\ n \in Nat
    BY <1>1 DEF TurnsStored, TurnsIn, IInv, TypeOK
  <2>2. n % 2 # 1
    <3>1. \A t \in Tasks : Waiting(t, "assistant") => ~Waiting(t, "idle")
      BY DEF Waiting
    <3> QED BY <1>1, <3>1 DEF TurnsStored, TurnsIn, Quiet
  <2>3. n % 2 = 0
    BY <2>1, <2>2, Parity
  <2>4. ASSUME NEW i \in 1..n, i % 2 = 1 PROVE i \in 1..(n - 1)
    <3>1. i # n
      BY <2>2, <2>4, Zenon
    <3> HIDE DEF n
    <3> QED BY <2>1, <3>1
  <2> QED BY <2>1, <2>3, <2>4 DEF Turned
<1> QED BY <1>1, TurnsAreStored, Invariant, PTL

(* A conversation at rest that a reset has closed is committed to the last *)
(* message, unless a failure or an overlap befell it.                      *)
THEOREM ClosedAreCommitted == Spec => []ClosedConversationsAreCommitted
<1>1. Spec => []ClosedAreFlushed
  BY ClosedInit, ClosedHold, TurnsAreStored, KeysAreHad, Invariant, PTL DEF Spec
<1>2. ClosedAreFlushed => ClosedConversationsAreCommitted
  <2>1. \A t \in Tasks : Flushing(t) => ~Waiting(t, "idle")
    BY DEF Flushing, Waiting
  <2> QED BY <2>1 DEF ClosedAreFlushed, ClosedConversationsAreCommitted, Quiet
<1> QED BY <1>1, <1>2, PTL
=============================================================================
