---------------------------- MODULE LLMLoopProofs ----------------------------
(***************************************************************************)
(* Safety of the LLM loop, for any tools, limits and sizes.                *)
(***************************************************************************)
EXTENDS LLMLoop, SumsProofs, SequenceTheorems, TLAPS

LEMMA MaxCallsType == MaxCalls \in Nat
BY LimitsAssumption DEF MaxCalls

LEMMA ListsAreSequences ==
    ASSUME NEW list \in CallLists
    PROVE  /\ list \in Seq(Calls)
           /\ Len(list) \in Nat \ {0}
           /\ list # <<>>
<1>1. PICK n \in 1 .. MaxAsked : list \in [1 .. n -> Calls]
  BY DEF CallLists
<1>2. n \in Nat /\ n # 0
  BY LimitsAssumption
<1>3. list \in Seq(Calls) /\ Len(list) = n
  BY <1>1, <1>2
<1> QED
  BY <1>2, <1>3

\* The calls that remain after one was answered.
LEMMA TailOfAsked ==
    ASSUME NEW S, NEW s \in Seq(S), s # <<>>
    PROVE  /\ Head(s) \in S
           /\ Tail(s) \in Seq(S)
           /\ Len(s) \in Nat \ {0}
           /\ Len(Tail(s)) = Len(s) - 1
           /\ Tail(s) # <<>> <=> Len(s) # 1
           /\ Head(s) = s[1]
           /\ \A j \in 1 .. Len(s) - 1 : Tail(s)[j] = s[j + 1]
<1>1. Len(s) \in Nat \ {0}
  BY EmptySeq
<1>2. Head(s) \in S /\ Tail(s) \in Seq(S) /\ Len(Tail(s)) = Len(s) - 1
  BY HeadTailProperties
<1>3. Tail(s) # <<>> <=> Len(Tail(s)) # 0
  BY <1>2, EmptySeq
<1> QED
  BY <1>1, <1>2, <1>3, HeadTailProperties

-----------------------------------------------------------------------------
(***************************************************************************)
(* Type correctness                                                        *)
(***************************************************************************)
\* The message that answers a call.
Response(call, answer) ==
    [role |-> "tool", id |-> call.id, key |-> call.key,
     answer |-> IF Fits(answer) THEN answer ELSE Refusal]

LEMMA AnswerTypes ==
    /\ ToolAnswers \subseteq Answers
    /\ Refusal \in Answers
    /\ None \notin Answers
BY LimitsAssumption, NoneAssumption DEF ToolAnswers, Answers, Refusal

LEMMA ReplyAppends ==
    ASSUME TypeOK, NEW call \in Calls, NEW answer \in Answers,
           Reply(call, answer)
    PROVE  /\ Response(call, answer) \in Responses
           /\ messages' = Append(messages, Response(call, answer))
           /\ messages' \in Seq(Messages)
<1>1. Response(call, answer) \in Responses
  BY AnswerTypes DEF Response, Responses, Calls
<1>2. messages' = messages \o <<Response(call, answer)>>
  BY DEF Reply, Replies, Response
<1>3. messages \in Seq(Messages) /\ Response(call, answer) \in Messages
  BY <1>1 DEF TypeOK, Messages
<1>4. messages' = Append(messages, Response(call, answer))
  BY <1>2, <1>3, AppendIsConcat
<1>5. messages' \in Seq(Messages)
  BY <1>3, <1>4, AppendProperties
<1> QED
  BY <1>1, <1>4, <1>5

LEMMA NextCall ==
    ASSUME TypeOK, pc = "tools"
    PROVE  /\ Head(asked) \in Calls
           /\ Head(asked).key \in Keys
           /\ Tail(asked) \in Seq(Calls)
           /\ Tail(asked) # <<>> <=> Len(asked) # 1
<1>1. asked # <<>> /\ asked \in Seq(Calls)
  BY DEF TypeOK
<1>2. Head(asked) \in Calls /\ Tail(asked) \in Seq(Calls)
      /\ (Tail(asked) # <<>> <=> Len(asked) # 1)
  BY <1>1, TailOfAsked
<1> QED
  BY <1>2 DEF Calls

LEMMA ReplyTypes ==
    ASSUME TypeOK, pc = "tools", NEW answer \in Answers, target' \in Targets,
           Reply(Head(asked), answer)
    PROVE  TypeOK'
<1>2. Head(asked) \in Calls /\ Head(asked).key \in Keys
      /\ Tail(asked) \in Seq(Calls) /\ (Tail(asked) # <<>> <=> Len(asked) # 1)
  BY NextCall
<1>3. messages' \in Seq(Messages)
  BY <1>2, ReplyAppends
<1>4. asked' = Tail(asked)
  BY DEF Reply
<1>5. pc' \in {"chat", "tools"} /\ (pc' = "tools" <=> asked' # <<>>)
  BY <1>2, <1>4 DEF Reply, AfterReply
<1>6. memo' \in [Keys -> Answers \cup {None}]
  BY <1>2 DEF TypeOK, Reply, Remembered
<1>7. size' \in Nat
  <2>1. answer.size \in Nat /\ ErrorSize \in Nat /\ size \in Nat
    BY LimitsAssumption DEF TypeOK, Answers
  <2> QED
    BY <2>1 DEF Reply
<1>8. chats' \in Nat
  BY DEF TypeOK, Reply
<1> QED
  BY <1>2, <1>3, <1>4, <1>5, <1>6, <1>7, <1>8 DEF TypeOK, Reply

LEMMA ToolsKeepTargets ==
    ASSUME TypeOK, NEW answer,
           NEW key, Execute(key, answer)
    PROVE  target' \in Targets
BY DEF TypeOK, Execute, ExecutePodTool, ExecuteEventsTool, ExecuteTool,
   LoadTargetPod, Targets

LEMMA TypeNext == TypeOK /\ [Next]_vars => TypeOK'
<1> SUFFICES ASSUME TypeOK, [Next]_vars
             PROVE  TypeOK'
  OBVIOUS
<1> USE DEF TypeOK
<1>1. ASSUME NEW how \in {"answer", "manual", "failed"}, pc = "chat", Ends(how)
      PROVE  TypeOK'
  BY <1>1 DEF Ends, session, counters
<1>2. CASE ContextExpires
  BY <1>2 DEF ContextExpires, session, counters
<1>3. CASE PodChanges
  BY <1>3 DEF PodChanges, session, counters
<1>4. CASE ChatIsCancelled
  BY <1>1, <1>4 DEF ChatIsCancelled
<1>5. CASE ChatFails
  BY <1>1, <1>5 DEF ChatFails
<1>6. CASE AnswerGiven
  BY <1>1, <1>6 DEF AnswerGiven, Responds
<1>7. CASE EmptyAnswer
  BY <1>1, <1>7 DEF EmptyAnswer, Responds
<1>8. CASE RoundLimitReached
  BY <1>1, <1>8 DEF RoundLimitReached, Responds
<1>9. CASE CallLimitReached
  BY <1>1, <1>9 DEF CallLimitReached, Responds
<1>10. CASE InvalidCalls
  BY <1>1, <1>10 DEF InvalidCalls, Responds
<1>11. CASE CallsAsked
  <2>1. PICK list \in CallLists :
           /\ messages' = Append(messages, [role |-> "assistant", calls |-> list])
           /\ asked' = list
           /\ calls' = calls + Len(list)
    BY <1>11 DEF CallsAsked
  <2>2. [role |-> "assistant", calls |-> list] \in Messages
    BY ListsAreSequences DEF Messages, Requests
  <2>3. messages' \in Seq(Messages)
    BY <2>1, <2>2, AppendProperties
  <2>4. calls' \in Nat /\ asked' \in Seq(Calls) /\ asked' # <<>>
    BY <2>1, ListsAreSequences
  <2> QED
    BY <1>11, <2>3, <2>4 DEF CallsAsked, Responds
<1>12. CASE AnswerFromMemory
  <2>1. Head(asked).key \in Keys
    BY <1>12, NextCall DEF AnswerFromMemory
  <2>2. memo[Head(asked).key] \in Answers
    BY <1>12, <2>1 DEF AnswerFromMemory
  <2> QED
    BY <1>12, <2>2, ReplyTypes DEF AnswerFromMemory
<1>13. CASE AnswerCall
  <2>1. PICK answer \in ToolAnswers :
           /\ Execute(Head(asked).key, answer)
           /\ Reply(Head(asked), answer)
    BY <1>13 DEF AnswerCall
  <2> QED
    BY <1>13, <2>1, AnswerTypes, ToolsKeepTargets, ReplyTypes DEF AnswerCall
<1>14. CASE UNCHANGED vars
  BY <1>14 DEF vars, session, counters
<1> QED
  BY <1>2, <1>3, <1>4, <1>5, <1>6, <1>7, <1>8, <1>9, <1>10, <1>11, <1>12,
     <1>13, <1>14 DEF Next, Complete

LEMMA TypeInit == Init => TypeOK
BY EmptySeq DEF Init, TypeOK, Targets, Unread

\* Every variable of the loop keeps to its set, and calls are left without an
\* answer only as long as tools run.
THEOREM TypeCorrect == Spec => []TypeOK
BY TypeInit, TypeNext, PTL DEF Spec

-----------------------------------------------------------------------------
(***************************************************************************)
(* The limits                                                              *)
(***************************************************************************)
\* A step that ends the loop, or is not one of the loop.
Quiet ==
    /\ UNCHANGED <<session, counters>>
    /\ \/ UNCHANGED pc
       \/ pc = "chat" /\ pc' = "done"

LEMMA StepKinds ==
    ASSUME [Next]_vars
    PROVE  Quiet \/ CallsAsked \/ AnswerFromMemory \/ AnswerCall
<1>1. ASSUME NEW how, pc = "chat", Ends(how)
      PROVE  Quiet
  BY <1>1 DEF Ends, Quiet
<1>2. CASE ContextExpires \/ PodChanges \/ UNCHANGED vars
  BY <1>2 DEF ContextExpires, PodChanges, vars, Quiet
<1>3. CASE \/ ChatIsCancelled \/ ChatFails \/ AnswerGiven \/ EmptyAnswer
           \/ RoundLimitReached \/ CallLimitReached \/ InvalidCalls
  BY <1>1, <1>3 DEF ChatIsCancelled, ChatFails, AnswerGiven, EmptyAnswer,
     RoundLimitReached, CallLimitReached, InvalidCalls, Responds
<1> QED
  BY <1>2, <1>3 DEF Next, Complete

\* Each round sends one request, and the last message is never a round.
LimitsInv ==
    /\ chats = rounds + (IF pc = "tools" THEN 0 ELSE 1)
    /\ rounds <= MaxRounds
    /\ calls <= MaxCalls

LEMMA LimitsInit == Init => LimitsInv
BY MaxCallsType, LimitsAssumption DEF Init, LimitsInv

LEMMA LimitsNext == TypeOK /\ LimitsInv /\ [Next]_vars => LimitsInv'
<1> SUFFICES ASSUME TypeOK, LimitsInv, [Next]_vars
             PROVE  LimitsInv'
  OBVIOUS
<1>1. CASE Quiet
  BY <1>1 DEF Quiet, counters, LimitsInv
<1>2. CASE CallsAsked
  <2>1. PICK list \in CallLists : CallsLeft(list) /\ calls' = calls + Len(list)
    BY <1>2 DEF CallsAsked
  <2>2. calls' <= MaxCalls
    BY <2>1 DEF CallsLeft
  <2>3. rounds' <= MaxRounds /\ chats' = rounds'
    BY <1>2, LimitsAssumption
    DEF CallsAsked, Responds, RoundsLeft, LimitsInv, TypeOK
  <2> QED
    BY <1>2, <2>2, <2>3 DEF CallsAsked, TypeOK, LimitsInv
<1>3. ASSUME pc = "tools", NEW call, NEW answer, Reply(call, answer)
      PROVE  LimitsInv'
  BY <1>3 DEF Reply, AfterReply, LimitsInv, TypeOK
<1>4. CASE AnswerFromMemory
  BY <1>3, <1>4 DEF AnswerFromMemory
<1>5. CASE AnswerCall
  BY <1>3, <1>5 DEF AnswerCall
<1> QED
  BY <1>1, <1>2, <1>4, <1>5, StepKinds

\* The LLM is asked at most MaxRounds + 1 times, and no call is made beyond
\* MaxCalls.
THEOREM LimitsHoldAlways == Spec => []LimitsHold
<1>1. TypeOK /\ LimitsInv => LimitsHold
  BY LimitsAssumption DEF TypeOK, LimitsInv, LimitsHold
<1> QED
  BY <1>1, TypeInit, TypeNext, LimitsInit, LimitsNext, PTL DEF Spec

-----------------------------------------------------------------------------
(***************************************************************************)
(* Why a loop ends                                                         *)
(***************************************************************************)
\* The rounds and the calls that are left, the calls that wait for an answer, and
\* the end of the loop.
StepsLeft ==
    (MaxRounds - rounds) + (MaxCalls - calls) + Len(asked) + (IF pc = "done" THEN 0 ELSE 1)

LEMMA StepsLeftType ==
    ASSUME TypeOK, LimitsInv
    PROVE  StepsLeft \in Nat
<1>1. /\ MaxRounds \in Nat /\ MaxCalls \in Nat
      /\ rounds \in Nat /\ calls \in Nat /\ Len(asked) \in Nat
  BY MaxCallsType, LimitsAssumption, LenProperties DEF TypeOK
<1> QED
  BY <1>1 DEF LimitsInv, StepsLeft

LEMMA LoopSteps ==
    ASSUME TypeOK, LimitsInv, Next
    PROVE  /\ StepsLeft' <= StepsLeft
           /\ Complete => StepsLeft' < StepsLeft
<1> DEFINE Falls == StepsLeft' < StepsLeft /\ StepsLeft' <= StepsLeft
<1>0. /\ MaxRounds \in Nat /\ MaxCalls \in Nat
      /\ rounds \in Nat /\ calls \in Nat /\ Len(asked) \in Nat
  BY MaxCallsType, LimitsAssumption, LenProperties DEF TypeOK
<1>1. ASSUME NEW how, pc = "chat", Ends(how)
      PROVE  Falls
  BY <1>0, <1>1 DEF Ends, session, counters, StepsLeft
<1>2. ASSUME pc = "tools", NEW call, NEW answer, Reply(call, answer)
      PROVE  Falls
  <2>1. Len(asked') = Len(asked) - 1
    BY <1>2, TailOfAsked DEF TypeOK, Reply
  <2>2. UNCHANGED <<rounds, calls>> /\ pc' # "done"
    BY <1>2 DEF Reply, AfterReply
  <2> QED
    BY <1>0, <1>2, <2>1, <2>2 DEF StepsLeft
<1>3. CallsAsked => Falls
  <2> SUFFICES ASSUME CallsAsked
               PROVE  Falls
    OBVIOUS
  <2>1. PICK list \in CallLists : asked' = list /\ calls' = calls + Len(list)
    BY DEF CallsAsked
  <2>2. Len(list) \in Nat
    BY ListsAreSequences
  <2>3. asked = <<>> /\ Len(asked) = 0
    BY EmptySeq DEF CallsAsked, Responds, TypeOK
  <2>4. rounds' = rounds + 1 /\ pc = "chat" /\ pc' = "tools"
    BY DEF CallsAsked, Responds
  <2> QED
    BY <1>0, <2>1, <2>2, <2>3, <2>4 DEF StepsLeft
<1> HIDE DEF Falls
<1>4. Complete => Falls
  BY <1>1, <1>2, <1>3
  DEF Complete, ChatIsCancelled, ChatFails, AnswerGiven, EmptyAnswer, RoundLimitReached,
      CallLimitReached, InvalidCalls, Responds, AnswerFromMemory, AnswerCall
<1>5. ContextExpires \/ PodChanges => StepsLeft' <= StepsLeft
  BY <1>0 DEF ContextExpires, PodChanges, session, counters, StepsLeft
<1> QED
  BY <1>4, <1>5 DEF Next, Falls

\* Every step of CompleteWithTools uses up a round, a call or the loop itself, and
\* nothing that the LLM or the cluster does gives one back: a loop takes at most
\* MaxRounds + MaxCalls + 1 steps, whatever fails, is remembered or refused.
THEOREM LoopStepsRunOut ==
    Spec => /\ [](StepsLeft \in 0 .. MaxRounds + MaxCalls + 1)
            /\ [][/\ StepsLeft' <= StepsLeft
                  /\ Complete => StepsLeft' < StepsLeft]_vars
<1> DEFINE Bound == StepsLeft <= MaxRounds + MaxCalls + 1
           Step == StepsLeft' <= StepsLeft /\ (Complete => StepsLeft' < StepsLeft)
<1>1. Init => Bound
  BY MaxCallsType, LimitsAssumption, EmptySeq DEF Init, StepsLeft
<1>2. TypeOK /\ LimitsInv /\ Bound => StepsLeft \in 0 .. MaxRounds + MaxCalls + 1
  BY StepsLeftType, MaxCallsType, LimitsAssumption
<1>3. TypeOK /\ LimitsInv /\ [Next]_vars => [Step]_vars
  BY LoopSteps
<1>4. TypeOK /\ LimitsInv => StepsLeft \in Nat
  BY StepsLeftType
<1>5. (TypeOK /\ LimitsInv => StepsLeft \in Nat)'
  BY <1>4, PTL
<1>6. TypeOK /\ LimitsInv /\ TypeOK' /\ LimitsInv' /\ Bound /\ [Next]_vars => Bound'
  <2> SUFFICES ASSUME TypeOK, LimitsInv, TypeOK', LimitsInv', Bound, [Next]_vars
               PROVE  Bound'
    OBVIOUS
  <2>1. StepsLeft \in Nat /\ StepsLeft' \in Nat
    BY <1>4, <1>5
  <2>2. StepsLeft' <= StepsLeft
    <3>1. CASE Next
      BY <3>1, LoopSteps
    <3>2. CASE UNCHANGED vars
      BY <2>1, <3>2 DEF vars, session, counters, StepsLeft
    <3> QED
      BY <3>1, <3>2
  <2> QED
    BY <2>1, <2>2, MaxCallsType, LimitsAssumption
<1> QED
  BY <1>1, <1>2, <1>3, <1>6, TypeInit, TypeNext, LimitsInit, LimitsNext, PTL DEF Spec

-----------------------------------------------------------------------------
(***************************************************************************)
(* The budget                                                              *)
(***************************************************************************)
\* What the loop has counted is what the messages have, and each call that was
\* answered has added at most a refusal to what fits.
BudgetInv ==
    /\ size = BytesSent
    /\ Len(asked) <= calls
    /\ size <= MaxSize + ErrorSize * (calls - Len(asked))

LEMMA BudgetInit == Init => BudgetInv
<1> SUFFICES ASSUME Init
             PROVE  BudgetInv
  OBVIOUS
<1>1. BytesSent = 0
  <2>1. DOMAIN BytesOf = {}
    BY DEF Init, BytesOf
  <2> QED
    BY <2>1, SumOfNone DEF BytesSent, SumFunction
<1> QED
  BY <1>1, LimitsAssumption DEF Init, BudgetInv

LEMMA BytesTypes ==
    ASSUME TypeOK
    PROVE  /\ Len(messages) \in Nat
           /\ DOMAIN messages = 1 .. Len(messages)
           /\ \A i \in 1 .. Len(messages) : BytesOf[i] \in Nat
<1>1. Len(messages) \in Nat /\ DOMAIN messages = 1 .. Len(messages)
  BY DEF TypeOK
<1>2. ASSUME NEW i \in 1 .. Len(messages), IsResponse(i)
      PROVE  messages[i].answer.size \in Nat
  <2>1. messages[i] \in Messages
    BY DEF TypeOK
  <2>2. messages[i] \in Responses
    BY <1>2, <2>1 DEF IsResponse, Messages, Requests, Responses
  <2> QED
    BY <2>2 DEF Responses, Answers
<1> QED
  BY <1>1, <1>2 DEF BytesOf

\* A message that is appended adds its own bytes.
LEMMA BytesAppended ==
    ASSUME TypeOK, TypeOK', NEW m, messages' = Append(messages, m)
    PROVE  BytesSent' = BytesSent + (IF m.role = "tool" THEN m.answer.size ELSE 0)
<1> DEFINE n == Len(messages)
           f == BytesOf
           g == BytesOf'
<1>1. /\ n \in Nat
      /\ DOMAIN f = 1 .. n
      /\ \A i \in 1 .. n : f[i] \in Int
  BY BytesTypes DEF BytesOf
<1>2. messages \in Seq(Messages)
  BY DEF TypeOK
<1>3. /\ DOMAIN messages' = 1 .. n + 1
      /\ \A i \in 1 .. n : messages'[i] = messages[i]
      /\ messages'[n + 1] = m
  BY <1>1, <1>2
<1>4. g = [i \in DOMAIN messages' |->
              IF messages'[i].role = "tool" THEN messages'[i].answer.size ELSE 0]
  BY DEF BytesOf, IsResponse
<1>5. f = [i \in DOMAIN messages |->
              IF messages[i].role = "tool" THEN messages[i].answer.size ELSE 0]
  BY DEF BytesOf, IsResponse
<1>6. /\ DOMAIN g = 1 .. n + 1
      /\ \A i \in 1 .. n : g[i] = f[i]
      /\ g[n + 1] = IF m.role = "tool" THEN m.answer.size ELSE 0
  BY <1>1, <1>3, <1>4, <1>5
<1>7. g[n + 1] \in Int
  <2>1. (TypeOK => \A i \in 1 .. Len(messages) : BytesOf[i] \in Nat)'
    BY BytesTypes, PTL
  <2>2. \A i \in 1 .. Len(messages') : g[i] \in Nat
    BY <2>1
  <2>3. Len(messages') = n + 1
    BY <1>1, <1>2
  <2> QED
    BY <1>1, <2>2, <2>3
<1>8. SumFunction(g) = SumFunction(f) + g[n + 1]
  <2> HIDE DEF f, g, n
  <2> QED
    BY <1>1, <1>6, <1>7, SumAppends
<1> QED
  BY <1>6, <1>8 DEF BytesSent

\* More answers leave room for more refusals.
LEMMA RefusalsGrow ==
    ASSUME NEW e \in Nat, NEW n \in Nat
    PROVE  /\ e * n \in Nat
           /\ e * (n + 1) = e * n + e
OBVIOUS

LEMMA BudgetReply ==
    ASSUME TypeOK, TypeOK', BudgetInv, pc = "tools", NEW answer \in Answers,
           Reply(Head(asked), answer)
    PROVE  BudgetInv'
<1> DEFINE m == Response(Head(asked), answer)
           n == calls - Len(asked)
<1>1. messages' = Append(messages, m)
  BY NextCall, ReplyAppends
<1>2. m.role = "tool" /\ m.answer = IF Fits(answer) THEN answer ELSE Refusal
  BY DEF Response
<1>3. size' = size + m.answer.size
  BY <1>2 DEF Reply, Refusal
<1>4. size' = BytesSent'
  BY <1>1, <1>2, <1>3, BytesAppended DEF BudgetInv
<1>5. Len(asked) \in Nat \ {0} /\ Len(asked') = Len(asked) - 1
  BY TailOfAsked DEF TypeOK, Reply
<1>6. /\ calls \in Nat /\ size \in Nat /\ MaxSize \in Nat /\ ErrorSize \in Nat
      /\ calls' = calls
      /\ n \in Nat
  <2>1. calls \in Nat /\ size \in Nat /\ MaxSize \in Nat /\ ErrorSize \in Nat
    BY LimitsAssumption DEF TypeOK
  <2>2. calls' = calls /\ Len(asked) <= calls
    BY DEF Reply, BudgetInv
  <2> QED
    BY <1>5, <2>1, <2>2
<1>7. calls' - Len(asked') = n + 1 /\ Len(asked') <= calls'
  BY <1>5, <1>6
<1>8. ErrorSize * n \in Nat /\ ErrorSize * (n + 1) = ErrorSize * n + ErrorSize
  BY <1>6, RefusalsGrow
<1>9. size' <= MaxSize + ErrorSize * (n + 1)
  <2>1. CASE Fits(answer)
    <3>1. size' <= MaxSize
      BY <2>1, <1>2, <1>3 DEF Fits
    <3>2. size' \in Nat
      BY DEF TypeOK
    <3> QED
      BY <3>1, <3>2, <1>6, <1>8
  <2>2. CASE ~Fits(answer)
    <3>1. size' = size + ErrorSize
      BY <2>2 DEF Reply
    <3>2. size <= MaxSize + ErrorSize * n
      BY DEF BudgetInv
    <3> QED
      BY <3>1, <3>2, <1>6, <1>8
  <2> QED
    BY <2>1, <2>2
<1> QED
  BY <1>4, <1>7, <1>9 DEF BudgetInv

LEMMA BudgetNext == TypeOK /\ BudgetInv /\ [Next]_vars => BudgetInv'
<1> SUFFICES ASSUME TypeOK, BudgetInv, [Next]_vars
             PROVE  BudgetInv'
  OBVIOUS
<1>0. TypeOK'
  BY TypeNext
<1>1. CASE Quiet
  BY <1>1 DEF Quiet, counters, session, BudgetInv, BytesSent, BytesOf, IsResponse
<1>2. CASE CallsAsked
  <2>1. PICK list \in CallLists :
            /\ messages' = Append(messages, [role |-> "assistant", calls |-> list])
            /\ asked' = list
            /\ calls' = calls + Len(list)
    BY <1>2 DEF CallsAsked
  <2>2. size' = BytesSent'
    <3>1. BytesSent' = BytesSent + 0
      BY <1>0, <2>1, BytesAppended
    <3>2. size' = size /\ size \in Nat
      BY <1>2 DEF CallsAsked, TypeOK
    <3> QED
      BY <3>1, <3>2 DEF BudgetInv
  <2>3. pc # "tools" /\ asked = <<>>
    BY <1>2 DEF CallsAsked, Responds, TypeOK
  <2>4. /\ Len(list) \in Nat /\ calls \in Nat
        /\ Len(asked) = 0
        /\ calls' - Len(asked') = calls - Len(asked)
        /\ Len(asked') <= calls'
    BY <2>1, <2>3, ListsAreSequences DEF TypeOK
  <2> QED
    BY <1>2, <2>2, <2>4 DEF CallsAsked, BudgetInv
<1>3. CASE AnswerFromMemory
  <2>1. memo[Head(asked).key] \in Answers
    BY <1>3, NextCall DEF AnswerFromMemory, TypeOK
  <2> QED
    BY <1>0, <1>3, <2>1, BudgetReply DEF AnswerFromMemory
<1>4. CASE AnswerCall
  <2>1. PICK answer \in ToolAnswers : Reply(Head(asked), answer)
    BY <1>4 DEF AnswerCall
  <2> QED
    BY <1>0, <1>4, <2>1, AnswerTypes, BudgetReply DEF AnswerCall
<1> QED
  BY <1>1, <1>2, <1>3, <1>4, StepKinds

\* What the LLM is sent of the tools' answers never exceeds maxToolResultsTotalSize
\* by more than a refusal for each call, however often the LLM asks and whatever
\* was remembered.
THEOREM BudgetHoldsAlways == Spec => []BudgetHolds
<1>1. TypeOK /\ BudgetInv => BudgetHolds
  <2> SUFFICES ASSUME TypeOK, BudgetInv
               PROVE  BudgetHolds
    OBVIOUS
  <2> DEFINE n == calls - Len(asked)
  <2>1. /\ calls \in Nat /\ Len(asked) \in Nat /\ n \in Nat
        /\ calls = n + Len(asked)
        /\ MaxSize \in Nat /\ ErrorSize \in Nat /\ size \in Nat
    <3>1. calls \in Nat /\ size \in Nat /\ MaxSize \in Nat /\ ErrorSize \in Nat
      BY LimitsAssumption DEF TypeOK
    <3>2. Len(asked) \in Nat /\ Len(asked) <= calls
      BY DEF TypeOK, BudgetInv
    <3> QED
      BY <3>1, <3>2
  <2>2. /\ ErrorSize * (n + Len(asked)) = ErrorSize * n + ErrorSize * Len(asked)
        /\ ErrorSize * n \in Nat /\ ErrorSize * Len(asked) \in Nat
    BY <2>1
  <2>3. size <= MaxSize + ErrorSize * n /\ size = BytesSent
    BY DEF BudgetInv
  <2>4. ErrorSize * calls = ErrorSize * n + ErrorSize * Len(asked)
    BY <2>1, <2>2
  <2> QED
    BY <2>1, <2>2, <2>3, <2>4 DEF BudgetHolds
<1> QED
  BY <1>1, TypeInit, TypeNext, BudgetInit, BudgetNext, PTL DEF Spec

-----------------------------------------------------------------------------
(***************************************************************************)
(* What the tools said                                                     *)
(***************************************************************************)
\* What was remembered is what was sent, unless it was refused, and what was
\* refused does not fit any more.
MemoInv ==
    /\ \A k \in Keys : memo[k] \in ToolAnswers \cup {None}
    /\ \A i \in DOMAIN messages : IsResponse(i) =>
          /\ memo[messages[i].key] # None
          /\ \/ messages[i].answer = memo[messages[i].key]
             \/ /\ messages[i].answer = Refusal
                /\ size + memo[messages[i].key].size > MaxSize

\* A tool that shows the Pod shows the one the session has read.
PodInv ==
    \A k \in Keys : memo[k] # None /\ memo[k].kind = "pod" =>
        target = [state |-> "read", pod |-> memo[k].pod]

SaidInv == MemoInv /\ PodInv /\ SameCallSameAnswer

LEMMA RefusalIsNoAnswer == Refusal \notin ToolAnswers
BY DEF Refusal, ToolAnswers

\* A message of the sequence, after one was appended.
LEMMA AppendedMessage ==
    ASSUME TypeOK, NEW m \in Messages, messages' = Append(messages, m)
    PROVE  /\ DOMAIN messages = 1 .. Len(messages)
           /\ DOMAIN messages' = 1 .. Len(messages) + 1
           /\ Len(messages) \in Nat
           /\ \A i \in DOMAIN messages : messages'[i] = messages[i]
           /\ messages'[Len(messages) + 1] = m
<1>1. messages \in Seq(Messages)
  BY DEF TypeOK
<1> QED
  BY <1>1, AppendProperties, LenProperties

LEMMA SaidInit == Init => SaidInv
BY EmptySeq DEF Init, SaidInv, MemoInv, PodInv, SameCallSameAnswer, IsResponse

\* The new message answers a call whose answer was, or now is, remembered.
LEMMA SaidReply ==
    ASSUME TypeOK, SaidInv, NEW call \in Calls, NEW answer \in ToolAnswers,
           Reply(call, answer),
           memo[call.key] \in {None, answer}
    PROVE  MemoInv' /\ SameCallSameAnswer'
<1> DEFINE r == Response(call, answer)
           n == Len(messages) + 1
<1>1. r \in Messages /\ messages' = Append(messages, r)
  BY AnswerTypes, ReplyAppends DEF Messages
<1>2. /\ DOMAIN messages = 1 .. Len(messages)
      /\ DOMAIN messages' = 1 .. n
      /\ Len(messages) \in Nat
      /\ \A i \in DOMAIN messages : messages'[i] = messages[i]
      /\ messages'[n] = r
  BY <1>1, AppendedMessage
<1>3. r.role = "tool" /\ r.key = call.key /\ call.key \in Keys
  BY DEF Response, Calls
<1>4. memo' = [memo EXCEPT ![call.key] = answer]
  BY DEF Reply, Remembered
<1>5. memo'[call.key] = answer /\ answer # None /\ answer \in Answers
  BY <1>3, <1>4, AnswerTypes DEF TypeOK
<1>6. \A k \in Keys : memo[k] # None => memo'[k] = memo[k]
  BY <1>4, <1>5 DEF TypeOK
<1>7. size \in Nat /\ size' \in Nat /\ size' >= size /\ MaxSize \in Nat
  <2>1. answer.size \in Nat /\ ErrorSize \in Nat /\ size \in Nat
        /\ MaxSize \in Nat
    BY <1>5, LimitsAssumption DEF TypeOK, Answers
  <2> QED
    BY <2>1 DEF Reply
<1>8. \/ r.answer = answer
      \/ r.answer = Refusal /\ size + answer.size > MaxSize
  <2>1. answer.size \in Nat
    BY <1>5 DEF Answers
  <2> QED
    BY <1>7, <2>1 DEF Response, Fits
<1>9. \A i \in DOMAIN messages' : messages'[i].role = "tool" =>
        /\ messages'[i].key \in Keys
        /\ memo'[messages'[i].key] # None
        /\ \/ messages'[i].answer = memo'[messages'[i].key]
           \/ /\ messages'[i].answer = Refusal
              /\ size' + memo'[messages'[i].key].size > MaxSize
  <2> SUFFICES ASSUME NEW i \in DOMAIN messages', messages'[i].role = "tool"
               PROVE  /\ messages'[i].key \in Keys
                      /\ memo'[messages'[i].key] # None
                      /\ \/ messages'[i].answer = memo'[messages'[i].key]
                         \/ /\ messages'[i].answer = Refusal
                            /\ size' + memo'[messages'[i].key].size > MaxSize
    OBVIOUS
  <2>1. CASE i = n
    <3>1. answer.size \in Nat
      BY <1>5 DEF Answers
    <3> QED
      BY <2>1, <3>1, <1>2, <1>3, <1>5, <1>7, <1>8
  <2>2. CASE i # n
    <3>1. i \in DOMAIN messages /\ messages'[i] = messages[i]
      BY <1>2, <2>2
    <3>2. messages[i] \in Messages /\ messages[i].role = "tool"
      BY <3>1 DEF TypeOK
    <3>3. messages[i].key \in Keys
      BY <3>2 DEF Messages, Requests, Responses
    <3>4. /\ memo[messages[i].key] # None
          /\ \/ messages[i].answer = memo[messages[i].key]
             \/ /\ messages[i].answer = Refusal
                /\ size + memo[messages[i].key].size > MaxSize
      BY <3>1, <3>2 DEF SaidInv, MemoInv, IsResponse
    <3>5. memo[messages[i].key].size \in Nat
      BY <3>3, <3>4 DEF TypeOK, Answers
    <3> QED
      BY <3>1, <3>3, <3>4, <3>5, <1>6, <1>7
  <2> QED
    BY <2>1, <2>2
<1>10. MemoInv'
  <2>1. \A k \in Keys : memo'[k] \in ToolAnswers \cup {None}
    BY <1>3, <1>4 DEF TypeOK, SaidInv, MemoInv
  <2> QED
    BY <1>9, <2>1 DEF MemoInv, IsResponse
<1>11. SameCallSameAnswer'
  <2> SUFFICES ASSUME NEW i \in DOMAIN messages', NEW j \in DOMAIN messages',
                      i < j,
                      messages'[i].role = "tool", messages'[j].role = "tool",
                      messages'[i].key = messages'[j].key
               PROVE  messages'[j].answer \in {messages'[i].answer, Refusal}
    BY DEF SameCallSameAnswer, IsResponse
  <2>1. CASE j # n
    <3>1. i \in DOMAIN messages /\ j \in DOMAIN messages
      BY <1>2, <2>1
    <3> QED
      BY <1>2, <3>1 DEF SaidInv, SameCallSameAnswer, IsResponse
  <2>2. CASE j = n
    <3>1. i \in DOMAIN messages /\ messages'[i] = messages[i]
      BY <1>2, <2>2
    <3>2. messages[i].key = call.key /\ messages'[j].answer = r.answer
      BY <3>1, <2>2, <1>2, <1>3
    <3>3. /\ memo[call.key] # None
          /\ \/ messages[i].answer = memo[call.key]
             \/ /\ messages[i].answer = Refusal
                /\ size + memo[call.key].size > MaxSize
      BY <3>1, <3>2 DEF SaidInv, MemoInv, IsResponse
    <3>4. memo[call.key] = answer
      BY <3>3
    <3>5. messages[i].answer = Refusal /\ size + answer.size > MaxSize =>
            r.answer = Refusal
      <4>1. answer.size \in Nat
        BY <1>5 DEF Answers
      <4> QED
        BY <1>7, <4>1 DEF Response, Fits
    <3> QED
      BY <1>8, <3>1, <3>2, <3>3, <3>4, <3>5
  <2> QED
    BY <2>1, <2>2
<1> QED
  BY <1>10, <1>11

\* Tools that run leave a Pod that was read alone, and show no other.
LEMMA ToolsShowTarget ==
    ASSUME TypeOK, PodInv, NEW key \in Keys, NEW answer \in ToolAnswers,
           Execute(key, answer),
           memo' = [memo EXCEPT ![key] = answer]
    PROVE  PodInv'
<1>1. target.state = "read" => target' = target
  BY DEF Execute, ExecutePodTool, ExecuteEventsTool, ExecuteTool, LoadTargetPod,
     PodLoaded
<1>2. target' \in Targets
  BY ToolsKeepTargets
<1>3. answer.kind = "pod" => target' = [state |-> "read", pod |-> answer.pod]
  BY <1>2 DEF Execute, ExecutePodTool, ExecuteEventsTool, ExecuteTool, ToolError,
     Targets
<1> SUFFICES ASSUME NEW k \in Keys, memo'[k] # None, memo'[k].kind = "pod"
             PROVE  target' = [state |-> "read", pod |-> memo'[k].pod]
  BY DEF PodInv
<1>4. CASE k = key
  BY <1>3, <1>4 DEF TypeOK
<1>5. CASE k # key
  <2>1. memo'[k] = memo[k]
    BY <1>5 DEF TypeOK
  <2>2. target = [state |-> "read", pod |-> memo[k].pod]
    BY <2>1 DEF PodInv
  <2> QED
    BY <1>1, <2>1, <2>2
<1> QED
  BY <1>4, <1>5

LEMMA SaidNext == TypeOK /\ SaidInv /\ [Next]_vars => SaidInv'
<1> SUFFICES ASSUME TypeOK, SaidInv, [Next]_vars
             PROVE  SaidInv'
  OBVIOUS
<1>1. CASE Quiet
  BY <1>1 DEF Quiet, session, counters, SaidInv, MemoInv, PodInv,
     SameCallSameAnswer, IsResponse
<1>2. CASE CallsAsked
  <2>1. PICK m \in Messages :
           m.role = "assistant" /\ messages' = Append(messages, m)
    BY <1>2, ListsAreSequences DEF CallsAsked, Messages, Requests
  <2>2. /\ DOMAIN messages' = DOMAIN messages \cup {Len(messages) + 1}
        /\ \A i \in DOMAIN messages : messages'[i] = messages[i]
        /\ messages'[Len(messages) + 1].role # "tool"
    BY <2>1, AppendedMessage
  <2>3. \A i \in DOMAIN messages' : messages'[i].role = "tool" =>
          i \in DOMAIN messages /\ messages'[i] = messages[i]
    BY <2>2
  <2>4. UNCHANGED <<memo, target, size>>
    BY <1>2 DEF CallsAsked
  <2>5. MemoInv'
    BY <2>3, <2>4 DEF SaidInv, MemoInv, IsResponse
  <2>6. SameCallSameAnswer'
    BY <2>3 DEF SaidInv, SameCallSameAnswer, IsResponse
  <2> QED
    BY <2>4, <2>5, <2>6 DEF SaidInv, PodInv
<1>3. CASE AnswerFromMemory
  <2> DEFINE call == Head(asked)
  <2>1. call \in Calls /\ call.key \in Keys
    BY <1>3, NextCall DEF AnswerFromMemory
  <2>2. memo[call.key] \in ToolAnswers
    BY <1>3, <2>1 DEF AnswerFromMemory, SaidInv, MemoInv
  <2>3. Reply(call, memo[call.key]) /\ UNCHANGED target
    BY <1>3 DEF AnswerFromMemory
  <2>4. MemoInv' /\ SameCallSameAnswer'
    BY <2>1, <2>2, <2>3, SaidReply
  <2>5. memo' = memo
    BY <2>1, <2>3 DEF Reply, Remembered, TypeOK
  <2> QED
    BY <2>3, <2>4, <2>5 DEF SaidInv, PodInv
<1>4. CASE AnswerCall
  <2>1. PICK answer \in ToolAnswers :
           /\ Execute(Head(asked).key, answer)
           /\ Reply(Head(asked), answer)
    BY <1>4 DEF AnswerCall
  <2>2. Head(asked) \in Calls /\ Head(asked).key \in Keys
    BY <1>4, NextCall DEF AnswerCall
  <2>3. MemoInv' /\ SameCallSameAnswer'
    BY <1>4, <2>1, <2>2, SaidReply DEF AnswerCall
  <2>4. memo' = [memo EXCEPT ![Head(asked).key] = answer]
    BY <2>1 DEF Reply, Remembered
  <2>5. PodInv'
    BY <2>1, <2>2, <2>4, ToolsShowTarget DEF SaidInv
  <2> QED
    BY <2>3, <2>5 DEF SaidInv
<1> QED
  BY <1>1, <1>2, <1>3, <1>4, StepKinds

\* The same call gets the same answer, or a refusal that is never taken back.
THEOREM SameCallSameAnswerHolds == Spec => []SameCallSameAnswer
<1>1. SaidInv => SameCallSameAnswer
  BY DEF SaidInv
<1> QED
  BY <1>1, TypeInit, TypeNext, SaidInit, SaidNext, PTL DEF Spec

\* What the tools that ask the session for the Pod tell of it is of the one state
\* that getTargetPod read, in whatever order they are called and however the Pod
\* changes.  The events of the Pod, which are listed apart, are not meant.
THEOREM OneSessionPodHolds == Spec => []OneSessionPod
<1>1. ASSUME TypeOK, SaidInv
      PROVE  OneSessionPod
  <2>1. ASSUME NEW i \in DOMAIN messages, IsResponse(i),
               messages[i].answer.kind = "pod"
        PROVE  target.pod = messages[i].answer.pod
    <3>1. messages[i].key \in Keys
      BY <1>1, <2>1 DEF TypeOK, IsResponse, Messages, Requests, Responses
    <3>2. messages[i].answer # Refusal
      BY <2>1 DEF Refusal
    <3>3. /\ memo[messages[i].key] # None
          /\ messages[i].answer = memo[messages[i].key]
      BY <1>1, <2>1, <3>2 DEF SaidInv, MemoInv
    <3> QED
      BY <1>1, <2>1, <3>1, <3>3 DEF SaidInv, PodInv
  <2> QED
    BY <2>1 DEF OneSessionPod
<1> QED
  BY <1>1, TypeInit, TypeNext, SaidInit, SaidNext, PTL DEF Spec

-----------------------------------------------------------------------------
(***************************************************************************)
(* The protocol of the chat API                                            *)
(***************************************************************************)
Closed(i) == i + Len(messages[i].calls) <= Len(messages)

\* Message a is the last of the LLM; the calls that wait are its last ones.
OpenAt(a) ==
    /\ ~IsResponse(a)
    /\ Len(messages) + Len(asked) = a + Len(messages[a].calls)
    /\ \A j \in 1 .. Len(asked) :
          asked[j] = messages[a].calls[Len(messages) - a + j]
    /\ \A i \in DOMAIN messages : i # a /\ ~IsResponse(i) => Closed(i)

ProtocolInv ==
    /\ \A i \in DOMAIN messages : IsResponse(i) =>
          \E a \in 1 .. i - 1 :
             ~IsResponse(a) /\ i <= a + Len(messages[a].calls)
    /\ \A i \in DOMAIN messages : ~IsResponse(i) =>
          \A j \in DOMAIN messages[i].calls : i + j \in DOMAIN messages =>
             /\ IsResponse(i + j)
             /\ messages[i].calls[j] =
                   [id |-> messages[i + j].id, key |-> messages[i + j].key]
    /\ IF pc = "tools"
       THEN \E a \in DOMAIN messages : OpenAt(a)
       ELSE \A i \in DOMAIN messages : ~IsResponse(i) => Closed(i)

LEMMA ProtocolInit == Init => ProtocolInv
BY EmptySeq DEF Init, ProtocolInv

\* Messages keep their calls, and a request is a sequence of them.
LEMMA MessageTypes ==
    ASSUME TypeOK, NEW i \in DOMAIN messages
    PROVE  /\ messages[i] \in Messages
           /\ i \in Nat \ {0} /\ i <= Len(messages) /\ Len(messages) \in Nat
           /\ ~IsResponse(i) =>
                 /\ messages[i].calls \in Seq(Calls)
                 /\ Len(messages[i].calls) \in Nat
                 /\ DOMAIN messages[i].calls = 1 .. Len(messages[i].calls)
<1>1. messages \in Seq(Messages)
  BY DEF TypeOK
<1>2. /\ messages[i] \in Messages
      /\ i \in Nat \ {0} /\ i <= Len(messages) /\ Len(messages) \in Nat
  BY <1>1, LenProperties, ElementOfSeq
<1>3. ~IsResponse(i) => messages[i].calls \in Seq(Calls)
  BY <1>2 DEF IsResponse, Messages, Requests, Responses
<1> QED
  BY <1>2, <1>3, LenProperties

LEMMA ProtocolAsked == TypeOK /\ ProtocolInv /\ CallsAsked => ProtocolInv'
<1> SUFFICES ASSUME TypeOK, ProtocolInv, CallsAsked
             PROVE  ProtocolInv'
  OBVIOUS
<1>0. PICK n : n = Len(messages) + 1
  OBVIOUS
<1>1. PICK list \in CallLists :
         /\ messages' = Append(messages, [role |-> "assistant", calls |-> list])
         /\ asked' = list
  BY DEF CallsAsked
<1>2. [role |-> "assistant", calls |-> list] \in Messages
  BY ListsAreSequences DEF Messages, Requests
<1>3. /\ DOMAIN messages = 1 .. Len(messages)
      /\ DOMAIN messages' = 1 .. n
      /\ Len(messages) \in Nat /\ n = Len(messages) + 1
      /\ \A i \in DOMAIN messages : messages'[i] = messages[i]
      /\ messages'[n] = [role |-> "assistant", calls |-> list]
  BY <1>0, <1>1, <1>2, AppendedMessage
<1>4. Len(messages') = n
  BY <1>0, <1>1, <1>2, AppendProperties DEF TypeOK
<1>5. list \in Seq(Calls) /\ Len(list) \in Nat \ {0} /\ DOMAIN list = 1 .. Len(list)
  BY ListsAreSequences, LenProperties
<1>6. pc = "chat" /\ pc' = "tools"
  BY DEF CallsAsked, Responds
<1>7. \A i \in DOMAIN messages : ~IsResponse(i) => Closed(i)
  BY <1>6 DEF ProtocolInv
<1>8. ASSUME NEW i \in DOMAIN messages', messages'[i].role = "tool"
      PROVE  \E a \in 1 .. i - 1 : /\ messages'[a].role # "tool"
                                   /\ i <= a + Len(messages'[a].calls)
  <2>1. i \in DOMAIN messages /\ messages'[i] = messages[i]
    BY <1>3, <1>8
  <2>2. PICK a \in 1 .. i - 1 : ~IsResponse(a) /\ i <= a + Len(messages[a].calls)
    BY <1>8, <2>1 DEF ProtocolInv, IsResponse
  <2>3. a \in DOMAIN messages
    BY <1>3, <2>1, <2>2
  <2> QED
    BY <1>3, <2>2, <2>3 DEF IsResponse
<1>9. ASSUME NEW i \in DOMAIN messages', messages'[i].role # "tool",
             NEW j \in DOMAIN messages'[i].calls, i + j \in DOMAIN messages'
      PROVE  /\ messages'[i + j].role = "tool"
             /\ messages'[i].calls[j] = [id |-> messages'[i + j].id,
                                         key |-> messages'[i + j].key]
  <2>1. CASE i = n
    <3>1. j \in 1 .. Len(list)
      BY <1>3, <1>5, <1>9, <2>1
    <3> QED
      BY <1>3, <1>9, <2>1, <3>1
  <2>2. CASE i # n
    <3>1. i \in DOMAIN messages /\ messages'[i] = messages[i] /\ ~IsResponse(i)
      BY <1>3, <1>9, <2>2 DEF IsResponse
    <3>2. j \in 1 .. Len(messages[i].calls) /\ i + Len(messages[i].calls) <= Len(messages)
          /\ Len(messages[i].calls) \in Nat
      BY <1>7, <1>9, <3>1, MessageTypes DEF Closed
    <3>3. i + j \in DOMAIN messages
      BY <1>3, <3>1, <3>2
    <3> QED
      BY <1>3, <1>9, <3>1, <3>3 DEF ProtocolInv, IsResponse
  <2> QED
    BY <2>1, <2>2
<1>10. n \in DOMAIN messages' /\ OpenAt(n)'
  <2>1. ~IsResponse(n)'
    BY <1>3 DEF IsResponse
  <2>2. Len(messages') + Len(asked') = n + Len(messages'[n].calls)
    <3>1. asked' = list /\ messages'[n].calls = list
      BY <1>1, <1>3
    <3> QED
      BY <1>4, <3>1
  <2>3. \A j \in 1 .. Len(asked') : asked'[j] = messages'[n].calls[Len(messages') - n + j]
    BY <1>1, <1>3, <1>4, <1>5
  <2>4. ASSUME NEW i \in DOMAIN messages', i # n, messages'[i].role # "tool"
        PROVE  i + Len(messages'[i].calls) <= Len(messages')
    <3>1. i \in DOMAIN messages /\ messages'[i] = messages[i] /\ ~IsResponse(i)
      BY <1>3, <2>4 DEF IsResponse
    <3> QED
      BY <1>3, <1>4, <1>7, <3>1, MessageTypes DEF Closed
  <2> QED
    BY <1>3, <2>1, <2>2, <2>3, <2>4 DEF OpenAt, Closed, IsResponse
<1> QED
  BY <1>6, <1>8, <1>9, <1>10 DEF ProtocolInv, IsResponse

LEMMA ProtocolReply ==
    ASSUME TypeOK, ProtocolInv, pc = "tools", NEW answer \in Answers,
           Reply(Head(asked), answer)
    PROVE  ProtocolInv'
<1> DEFINE call == Head(asked)
<1>0. PICK n : n = Len(messages) + 1
  OBVIOUS
<1>1. PICK r \in Responses :
         /\ r.id = call.id /\ r.key = call.key
         /\ messages' = Append(messages, r)
  <2>1. call \in Calls
    BY NextCall
  <2>2. Response(call, answer) \in Responses
        /\ messages' = Append(messages, Response(call, answer))
    BY <2>1, ReplyAppends
  <2> QED
    BY <2>2 DEF Response
<1>2. r.role = "tool" /\ r \in Messages
  BY <1>1 DEF Responses, Messages
<1>3. /\ DOMAIN messages = 1 .. Len(messages)
      /\ DOMAIN messages' = 1 .. n
      /\ Len(messages) \in Nat /\ n = Len(messages) + 1
      /\ \A i \in DOMAIN messages : messages'[i] = messages[i]
      /\ messages'[n] = r
  BY <1>0, <1>1, <1>2, AppendedMessage
<1>4. Len(messages') = n
  BY <1>0, <1>1, <1>2, AppendProperties DEF TypeOK
<1>5. /\ Len(asked) \in Nat \ {0}
      /\ asked' = Tail(asked)
      /\ Len(asked') = Len(asked) - 1
      /\ \A j \in 1 .. Len(asked) - 1 : asked'[j] = asked[j + 1]
      /\ call = asked[1] /\ call \in Calls
  <2>1. asked \in Seq(Calls) /\ asked # <<>>
    BY DEF TypeOK
  <2>2. asked' = Tail(asked)
    BY DEF Reply
  <2> QED
    BY <2>1, <2>2, TailOfAsked
<1>6. PICK a \in DOMAIN messages : OpenAt(a)
  BY DEF ProtocolInv
<1>7. /\ messages'[a] = messages[a] /\ messages[a].role # "tool"
      /\ messages[a].calls \in Seq(Calls)
      /\ Len(messages[a].calls) \in Nat
      /\ a \in Nat \ {0} /\ a <= Len(messages)
  BY <1>3, <1>6, MessageTypes DEF OpenAt, IsResponse
<1>8. /\ Len(messages) + Len(asked) = a + Len(messages[a].calls)
      /\ \A j \in 1 .. Len(asked) :
            asked[j] = messages[a].calls[Len(messages) - a + j]
      /\ \A i \in DOMAIN messages : i # a /\ messages[i].role # "tool" => Closed(i)
  BY <1>6 DEF OpenAt, IsResponse
<1>9. ASSUME NEW i \in DOMAIN messages', messages'[i].role = "tool"
      PROVE  \E b \in 1 .. i - 1 : /\ messages'[b].role # "tool"
                                   /\ i <= b + Len(messages'[b].calls)
  <2>1. CASE i = n
    <3>1. a \in 1 .. i - 1 /\ i <= a + Len(messages[a].calls)
      BY <1>3, <1>5, <1>7, <1>8, <2>1
    <3> QED
      BY <1>7, <3>1
  <2>2. CASE i # n
    <3>1. i \in DOMAIN messages /\ messages'[i] = messages[i]
      BY <1>3, <2>2
    <3>2. PICK b \in 1 .. i - 1 : ~IsResponse(b) /\ i <= b + Len(messages[b].calls)
      BY <1>9, <3>1 DEF ProtocolInv, IsResponse
    <3>3. b \in DOMAIN messages
      BY <1>3, <3>1, <3>2
    <3> QED
      BY <1>3, <3>2, <3>3 DEF IsResponse
  <2> QED
    BY <2>1, <2>2
<1>10. ASSUME NEW i \in DOMAIN messages', messages'[i].role # "tool",
              NEW j \in DOMAIN messages'[i].calls, i + j \in DOMAIN messages'
       PROVE  /\ messages'[i + j].role = "tool"
              /\ messages'[i].calls[j] = [id |-> messages'[i + j].id,
                                          key |-> messages'[i + j].key]
  <2>1. i \in DOMAIN messages /\ messages'[i] = messages[i] /\ ~IsResponse(i)
    BY <1>2, <1>3, <1>10 DEF IsResponse
  <2>2. j \in 1 .. Len(messages[i].calls) /\ Len(messages[i].calls) \in Nat
        /\ i \in Nat
    BY <1>10, <2>1, MessageTypes
  <2>3. CASE i + j # n
    <3>1. i + j \in DOMAIN messages
      BY <1>3, <1>10, <2>3
    <3> QED
      BY <1>3, <1>10, <2>1, <3>1 DEF ProtocolInv, IsResponse
  <2>4. CASE i + j = n
    <3>1. i = a
      BY <1>3, <1>8, <2>1, <2>2, <2>4 DEF Closed, IsResponse
    <3>2. j = Len(messages) - a + 1
      BY <1>3, <1>7, <2>2, <2>4, <3>1
    <3>3. messages[a].calls[j] = call
      BY <1>5, <1>8, <3>2
    <3>4. call = [id |-> call.id, key |-> call.key]
      BY <1>5 DEF Calls
    <3> QED
      BY <1>1, <1>2, <1>3, <2>1, <2>4, <3>1, <3>3, <3>4
  <2> QED
    BY <2>3, <2>4
<1>11. ASSUME NEW i \in DOMAIN messages', i # a, messages'[i].role # "tool"
       PROVE  i + Len(messages'[i].calls) <= Len(messages')
  <2>1. i \in DOMAIN messages /\ messages'[i] = messages[i] /\ ~IsResponse(i)
    BY <1>2, <1>3, <1>11 DEF IsResponse
  <2>2. Closed(i) /\ Len(messages[i].calls) \in Nat /\ i \in Nat
    BY <1>8, <1>11, <2>1, MessageTypes DEF IsResponse
  <2> QED
    BY <1>3, <1>4, <2>1, <2>2 DEF Closed
<1>12. CASE Len(asked) = 1
  <2>1. pc' = "chat"
    BY <1>12 DEF Reply, AfterReply
  <2>2. a + Len(messages'[a].calls) <= Len(messages')
    BY <1>3, <1>4, <1>7, <1>8, <1>12
  <2>3. \A i \in DOMAIN messages' :
          messages'[i].role # "tool" => i + Len(messages'[i].calls) <= Len(messages')
    BY <1>11, <2>2
  <2> QED
    BY <1>9, <1>10, <2>1, <2>3 DEF ProtocolInv, IsResponse, Closed
<1>13. CASE Len(asked) # 1
  <2>1. pc' = "tools"
    BY <1>13 DEF Reply, AfterReply
  <2>2. Len(messages') + Len(asked') = a + Len(messages'[a].calls)
    BY <1>3, <1>4, <1>5, <1>7, <1>8
  <2>3. \A j \in 1 .. Len(asked') :
          asked'[j] = messages'[a].calls[Len(messages') - a + j]
    <3> SUFFICES ASSUME NEW j \in 1 .. Len(asked')
                 PROVE  asked'[j] = messages'[a].calls[Len(messages') - a + j]
      OBVIOUS
    <3>1. j \in Nat /\ j \in 1 .. Len(asked) - 1 /\ j + 1 \in 1 .. Len(asked)
      BY <1>5
    <3>2. asked'[j] = messages[a].calls[Len(messages) - a + (j + 1)]
      BY <1>5, <1>8, <3>1
    <3>3. Len(messages) - a + (j + 1) = Len(messages') - a + j
      BY <1>3, <1>4, <1>7, <3>1
    <3> QED
      BY <1>7, <3>2, <3>3
  <2>4. OpenAt(a)' /\ a \in DOMAIN messages'
    BY <1>3, <1>7, <1>11, <2>2, <2>3 DEF OpenAt, Closed, IsResponse
  <2> QED
    BY <1>9, <1>10, <2>1, <2>4 DEF ProtocolInv, IsResponse
<1> QED
  BY <1>12, <1>13

LEMMA ProtocolNext == TypeOK /\ ProtocolInv /\ [Next]_vars => ProtocolInv'
<1> SUFFICES ASSUME TypeOK, ProtocolInv, [Next]_vars
             PROVE  ProtocolInv'
  OBVIOUS
<1>1. CASE Quiet
  <2>1. UNCHANGED <<messages, asked>> /\ (pc' = "tools" <=> pc = "tools")
    BY <1>1 DEF Quiet, session
  <2> QED
    BY <2>1 DEF ProtocolInv, OpenAt, Closed, IsResponse
<1>2. CASE CallsAsked
  BY <1>2, ProtocolAsked
<1>3. CASE AnswerFromMemory
  <2>1. memo[Head(asked).key] \in Answers
    BY <1>3, NextCall DEF AnswerFromMemory, TypeOK
  <2> QED
    BY <1>3, <2>1, ProtocolReply DEF AnswerFromMemory
<1>4. CASE AnswerCall
  BY <1>4, AnswerTypes, ProtocolReply DEF AnswerCall
<1> QED
  BY <1>1, <1>2, <1>3, <1>4, StepKinds

\* Every request carries exactly one response to each call of each message.
THEOREM ProtocolKeptHolds == Spec => []ProtocolKept
<1>1. ASSUME TypeOK, ProtocolInv
      PROVE  ProtocolKept
  <2> SUFFICES ASSUME pc = "chat", NEW i \in DOMAIN messages, ~IsResponse(i),
                      NEW j \in DOMAIN messages[i].calls
               PROVE  i + j \in DOMAIN messages
    BY <1>1 DEF ProtocolInv, ProtocolKept
  <2>1. i + Len(messages[i].calls) <= Len(messages)
    BY <1>1 DEF ProtocolInv, Closed
  <2>2. DOMAIN messages = 1 .. Len(messages)
    BY <1>1, LenProperties DEF TypeOK
  <2> QED
    BY <1>1, <2>1, <2>2, MessageTypes
<1> QED
  BY <1>1, TypeInit, TypeNext, ProtocolInit, ProtocolNext, PTL DEF Spec

-----------------------------------------------------------------------------
(***************************************************************************)
(* The LLM step of the pipeline                                            *)
(***************************************************************************)
\* The loop ends as the analysis expects of its LLM step.
THEOREM ConsultsAsPipelineHolds == Spec => ConsultsAsPipeline
<1> DEFINE Consults == \/ Pipeline!ContextExpires
                       \/ Pipeline!LLMAnswers
                       \/ Pipeline!LLMRecommendsManualAnalysis
                       \/ Pipeline!LLMFails
<1>1. TypeOK /\ [Next]_vars => [Consults]_(Pipeline!vars)
  <2> SUFFICES ASSUME TypeOK, [Next]_vars
               PROVE  [Consults]_(Pipeline!vars)
    OBVIOUS
  <2>1. CASE ContextExpires
    BY <2>1 DEF ContextExpires, Pipeline!ContextExpires, Pipeline!inputs
  <2>2. ASSUME pc = "chat", NEW how \in {"manual", "failed"}, Ends(how)
        PROVE  Consults
    BY <2>2 DEF Ends, TypeOK, Pipeline!LLMRecommendsManualAnalysis,
       Pipeline!LLMFails, Pipeline!Consulted, Pipeline!inputs
  <2>3. CASE AnswerGiven
    BY <2>3 DEF AnswerGiven, Responds, Ends, TypeOK, Pipeline!LLMAnswers,
       Pipeline!Consulted, Pipeline!inputs
  <2>4. CASE \/ ChatIsCancelled \/ ChatFails \/ EmptyAnswer
             \/ RoundLimitReached \/ CallLimitReached \/ InvalidCalls
    BY <2>2, <2>4 DEF ChatIsCancelled, ChatFails, EmptyAnswer,
       RoundLimitReached, CallLimitReached, InvalidCalls, Responds
  <2>5. ASSUME pc # "done", pc' # "done", UNCHANGED <<expired, ending>>
        PROVE  UNCHANGED (Pipeline!vars)
    BY <2>5 DEF Pipeline!vars, Pipeline!inputs
  <2>6. CASE CallsAsked
    BY <2>5, <2>6 DEF CallsAsked, Responds
  <2>7. CASE AnswerFromMemory \/ AnswerCall
    BY <2>5, <2>7 DEF AnswerFromMemory, AnswerCall, Reply, AfterReply
  <2>8. CASE PodChanges \/ UNCHANGED vars
    BY <2>8 DEF PodChanges, vars, Pipeline!vars, Pipeline!inputs
  <2> QED
    BY <2>1, <2>3, <2>4, <2>6, <2>7, <2>8 DEF Next, Complete
<1> QED
  BY <1>1, TypeInit, TypeNext, PTL DEF Spec, ConsultsAsPipeline
=============================================================================
