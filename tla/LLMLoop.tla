------------------------------- MODULE LLMLoop -------------------------------
(***************************************************************************)
(* LLMConfig.CompleteWithTools: the conversation with the LLM that ends an *)
(* analysis whose rules left the cause open.  The LLM answers, or asks for *)
(* calls of read-only tools whose results are sent back in the next round. *)
(* Rounds, calls and the bytes of the results are limited; a call that was *)
(* made before is answered from memory.                                    *)
(*                                                                         *)
(* What the LLM and the cluster say is chosen by \E.  The system and user  *)
(* messages, which every request repeats, are left out of "messages".      *)
(***************************************************************************)
EXTENDS Naturals, Sequences, Functions

CONSTANTS
    Keys,      \* a tool's name with its arguments, as the LLM may ask for it
    PodKeys,   \* those of the tools that ask the session for the target Pod
    EventKeys, \* those of the tool that lists the events of the target Pod
    Ids,       \* IDs the LLM gives to its calls
    Pods,      \* states of the target Pod in the informer's cache
    Sizes,     \* bytes a tool's answer may have
    MaxRounds, \* LLMConfig.maxToolRounds
    ToolCount, \* number of tools that are offered
    MaxSize,   \* maxToolResultsTotalSize
    ErrorSize, \* bytes of "tool result budget exceeded"
    MaxAsked,  \* bound on the calls of one message
    None       \* nothing remembered, no Pod

ASSUME KeysAssumption ==
    /\ PodKeys \cup EventKeys \subseteq Keys
    /\ PodKeys \cap EventKeys = {}
ASSUME LimitsAssumption ==
    /\ MaxRounds \in Nat \ {0}
    /\ {ToolCount, MaxSize, ErrorSize, MaxAsked} \subseteq Nat
    /\ Sizes \subseteq Nat

VARIABLES
    pc,       \* "chat": a request is under way; "tools": its calls are answered
    expired,  \* the context of the loop is done
    pod,      \* the target Pod at present
    messages, \* the assistant and tool messages so far
    asked,    \* calls of the last message that are not answered yet
    memo,     \* toolResults, by tool and arguments
    target,   \* targetPod and targetPodErr of the session
    chats,    \* requests sent
    rounds,   \* toolRounds
    calls,    \* totalToolCalls
    size,     \* totalToolResultSize
    ending    \* how the fallback reports the loop

counters == <<chats, rounds, calls, size>>
session  == <<messages, asked, memo, target>>
vars == <<pc, expired, pod, session, counters, ending>>

MaxCalls == MaxRounds * ToolCount

Calls     == [id : Ids, key : Keys]
CallLists == UNION {[1 .. n -> Calls] : n \in 1 .. MaxAsked}

\* A tool's answer: what it shows of the Pod, the events of a Pod, other data, an
\* error, or that the budget was exceeded.
Answers  == [kind : {"pod", "events", "data", "error", "refused"},
             pod : Pods \cup {None}, size : Nat]
ToolAnswers == [kind : {"pod", "events", "data", "error"},
                pod : Pods \cup {None}, size : Sizes]
Refusal  == [kind |-> "refused", pod |-> None, size |-> ErrorSize]

Requests  == [role : {"assistant"}, calls : Seq(Calls)]
Responses == [role : {"tool"}, id : Ids, key : Keys, answer : Answers]
Messages  == Requests \cup Responses

ASSUME NoneAssumption == None \notin Pods \cup Answers

\* The Pod as the session remembers it.
Targets == [state : {"unread", "read", "error"}, pod : Pods \cup {None}]
Unread  == [state |-> "unread", pod |-> None]

Init ==
    /\ pc = "chat"
    /\ expired \in BOOLEAN
    /\ pod \in Pods
    /\ messages = <<>>
    /\ asked = <<>>
    /\ memo = [k \in Keys |-> None]
    /\ target = Unread
    /\ chats = 1
    /\ rounds = 0
    /\ calls = 0
    /\ size = 0
    /\ ending = "none"

-----------------------------------------------------------------------------
(***************************************************************************)
(* The environment                                                         *)
(***************************************************************************)
\* LLM_TIMEOUT or the timeout of the analysis passes, or its client leaves.
ContextExpires ==
    /\ pc # "done"
    /\ ~expired
    /\ expired' = TRUE
    /\ UNCHANGED <<pc, pod, session, counters, ending>>

PodChanges ==
    /\ pc # "done"
    /\ pod' \in Pods \ {pod}
    /\ UNCHANGED <<pc, expired, session, counters, ending>>

-----------------------------------------------------------------------------
(***************************************************************************)
(* chat, and what complete makes of its message                            *)
(***************************************************************************)
Ends(how) ==
    /\ pc' = "done"
    /\ ending' = how
    /\ UNCHANGED <<expired, pod, session, counters>>

\* A request that has no context waits for ever (a fault the runs must see).
RequestWithoutContext == FALSE

RequestIsCancelled == expired

\* The request was cancelled: manual analysis is recommended.
ChatIsCancelled ==
    /\ pc = "chat"
    /\ RequestIsCancelled
    /\ Ends("manual")

\* It failed, or LLM_BASE_URL is not set.  A connection that timed out is a
\* deadline like any other.
ChatFails ==
    /\ pc = "chat"
    /\ \E how \in {"manual", "failed"} : Ends(how)

\* A response is waited for though the context is done (a fault the runs must
\* see).
RespondsLate == pc = "chat"

\* A message of the LLM was read before the context was done.
Responds ==
    /\ pc = "chat"
    /\ ~expired

AnswerGiven == Responds /\ Ends("answer")

\* Neither content nor calls.
EmptyAnswer == Responds /\ Ends("failed")

RoundsLeft == rounds < MaxRounds

RoundLimitReached ==
    /\ Responds
    /\ ~RoundsLeft
    /\ Ends("manual")

\* The calls of a message are not counted before they are made (a fault the
\* runs must see).
CallsLeftBefore(list) == calls < MaxCalls

CallsLeft(list) == calls + Len(list) <= MaxCalls

CallLimitReached ==
    /\ Responds
    /\ RoundsLeft
    /\ \E list \in CallLists : ~CallsLeft(list)
    /\ Ends("failed")

\* A call without ID, type or name, or not of the assistant.
InvalidCalls ==
    /\ Responds
    /\ RoundsLeft
    /\ \E list \in CallLists : CallsLeft(list)
    /\ Ends("failed")

CallsAsked ==
    /\ Responds
    /\ RoundsLeft
    /\ \E list \in CallLists :
          /\ CallsLeft(list)
          /\ messages' = Append(messages, [role |-> "assistant", calls |-> list])
          /\ asked' = list
          /\ calls' = calls + Len(list)
    /\ rounds' = rounds + 1
    /\ pc' = "tools"
    /\ UNCHANGED <<expired, pod, memo, target, chats, size, ending>>

-----------------------------------------------------------------------------
(***************************************************************************)
(* kubernetesToolSession.execute and the budget of the results             *)
(***************************************************************************)
ToolError(n) == [kind |-> "error", pod |-> None, size |-> n]

\* The Pod is read for each tool (a fault the runs must see).
PodReadAgain == FALSE

\* getTargetPod asks for the Pod once, also when that failed: podLoaded.
PodLoaded == target.state # "unread"

LoadTargetPod ==
    IF PodLoaded THEN target' = target
    ELSE \/ /\ ~expired
            /\ target' = [state |-> "read", pod |-> pod]
         \/ target' = [state |-> "error", pod |-> None]

\* get_target_pod, list_target_podgroup_events and get_node; each may fail before
\* or after it has the Pod.
ExecutePodTool(answer) ==
    \E n \in Sizes :
        \/ /\ UNCHANGED target
           /\ answer = ToolError(n)
        \/ /\ LoadTargetPod
           /\ \/ answer = ToolError(n)
              \/ /\ target'.state = "read"
                 /\ answer = [kind |-> "pod", pod |-> target'.pod, size |-> n]

\* list_target_pod_events: ListPodEvents reads the Pod by itself, whatever the
\* session remembers, and lists the events of the UID it has now.
ExecuteEventsTool(answer) ==
    /\ UNCHANGED target
    /\ \E n \in Sizes :
          \/ answer = ToolError(n)
          \/ /\ ~expired
             /\ answer = [kind |-> "events", pod |-> pod, size |-> n]

\* The other tools: scheduler logs, a source file; or no known tool.
ExecuteTool(answer) ==
    /\ UNCHANGED target
    /\ \E n \in Sizes, kind \in {"data", "error"} :
          answer = [kind |-> kind, pod |-> None, size |-> n]

Execute(key, answer) ==
    \/ key \in PodKeys /\ ExecutePodTool(answer)
    \/ key \in EventKeys /\ ExecuteEventsTool(answer)
    \/ key \notin PodKeys \cup EventKeys /\ ExecuteTool(answer)

\* The budget is one of each answer (a fault the runs must see).
FitsAlone(answer) == answer.size <= MaxSize

\* The budget is one of the loop.
Fits(answer) == size + answer.size <= MaxSize

\* A call that failed is made again (a fault the runs must see).
RememberedUnlessError(answer) == IF answer.kind = "error" THEN None ELSE answer

\* toolResults keeps what the tool said, whatever is sent.
Remembered(answer) == answer

\* A call that is refused gets no message (a fault the runs must see).
RepliesIfFits(call, answer) ==
    IF Fits(answer)
    THEN <<[role |-> "tool", id |-> call.id, key |-> call.key, answer |-> answer]>>
    ELSE <<>>

\* Each call gets a message of its own, under its ID.
Replies(call, answer) ==
    <<[role |-> "tool", id |-> call.id, key |-> call.key,
       answer |-> IF Fits(answer) THEN answer ELSE Refusal]>>

\* The LLM is asked again after the first call (a fault the runs must see).
AfterFirstReply == "chat"

\* The loop goes on to the next request when all calls are answered.
AfterReply == IF Len(asked) = 1 THEN "chat" ELSE "tools"

Reply(call, answer) ==
    /\ messages' = messages \o Replies(call, answer)
    /\ size' = size + (IF Fits(answer) THEN answer.size ELSE ErrorSize)
    /\ memo' = [memo EXCEPT ![call.key] = Remembered(answer)]
    /\ asked' = Tail(asked)
    /\ pc' = AfterReply
    /\ chats' = IF pc' = "chat" THEN chats + 1 ELSE chats
    /\ UNCHANGED <<expired, pod, rounds, calls, ending>>

\* The call was made before, here or in an earlier round.
AnswerFromMemory ==
    /\ pc = "tools"
    /\ memo[Head(asked).key] # None
    /\ Reply(Head(asked), memo[Head(asked).key])
    /\ UNCHANGED target

AnswerCall ==
    /\ pc = "tools"
    /\ memo[Head(asked).key] = None
    /\ \E answer \in ToolAnswers :
          /\ Execute(Head(asked).key, answer)
          /\ Reply(Head(asked), answer)

-----------------------------------------------------------------------------
Complete ==
    \/ ChatIsCancelled
    \/ ChatFails
    \/ AnswerGiven
    \/ EmptyAnswer
    \/ RoundLimitReached
    \/ CallLimitReached
    \/ InvalidCalls
    \/ CallsAsked
    \/ AnswerFromMemory
    \/ AnswerCall

Next ==
    \/ ContextExpires
    \/ PodChanges
    \/ Complete

\* Tools return, at the latest when the context is done; its timeout passes, and
\* ends a request that the LLM leaves without an answer.
Fairness ==
    /\ WF_vars(AnswerFromMemory \/ AnswerCall)
    /\ WF_vars(ContextExpires)
    /\ WF_vars(ChatIsCancelled)

Spec == Init /\ [][Next]_vars /\ Fairness

-----------------------------------------------------------------------------
\* Every variable keeps to its set; calls wait for their answers exactly while
\* tools run, and a loop that is done has an ending.
TypeOK ==
    /\ pc \in {"chat", "tools", "done"}
    /\ expired \in BOOLEAN
    /\ pod \in Pods
    /\ messages \in Seq(Messages)
    /\ asked \in Seq(Calls)
    /\ pc = "tools" <=> asked # <<>>
    /\ memo \in [Keys -> Answers \cup {None}]
    /\ target \in Targets
    /\ {chats, rounds, calls, size} \subseteq Nat
    /\ ending \in {"none", "answer", "manual", "failed"}
    /\ pc = "done" <=> ending # "none"

IsResponse(i) == messages[i].role = "tool"

\* Whenever a request is sent, each call of each message has exactly one
\* response, in the order of the calls and under its ID, and every response
\* belongs to a call: the protocol of the chat API, also for calls that failed,
\* were remembered, or exceeded the budget.
ProtocolKept ==
    pc = "chat" =>
        \A i \in DOMAIN messages :
            IF IsResponse(i)
            THEN \E a \in 1 .. i - 1 :
                    ~IsResponse(a) /\ i <= a + Len(messages[a].calls)
            ELSE \A j \in DOMAIN messages[i].calls :
                    /\ i + j \in DOMAIN messages
                    /\ IsResponse(i + j)
                    /\ messages[i].calls[j] =
                          [id |-> messages[i + j].id, key |-> messages[i + j].key]

\* A call that is made again gets the same answer, or is refused for the budget;
\* and once it was refused it stays refused, since the budget only shrinks.
SameCallSameAnswer ==
    \A i, j \in DOMAIN messages :
        /\ i < j
        /\ IsResponse(i)
        /\ IsResponse(j)
        /\ messages[i].key = messages[j].key
        => messages[j].answer \in {messages[i].answer, Refusal}

\* The tools that ask the session for the target Pod, called in whatever order and
\* round, all tell of one and the same state of it, however it changes meanwhile.
\* Its events are not among them: they are of the Pod there is when they are listed.
OneSessionPod ==
    \A i, j \in DOMAIN messages :
        /\ IsResponse(i) /\ messages[i].answer.kind = "pod"
        /\ IsResponse(j) /\ messages[j].answer.kind = "pod"
        => messages[i].answer.pod = messages[j].answer.pod

\* The LLM is asked at most once more than there are rounds, which is what the
\* default of LLM_TIMEOUT is computed from, and no call is made beyond the limit.
LimitsHold ==
    /\ chats <= MaxRounds + 1
    /\ calls <= MaxCalls

\* The bytes of all tool messages, which every later request carries.
BytesOf == [i \in DOMAIN messages |->
               IF IsResponse(i) THEN messages[i].answer.size ELSE 0]
BytesSent == SumFunction(BytesOf)

\* The tool results in a request stay within maxToolResultsTotalSize, the
\* refusals apart that the code adds to it: the budget is one of the loop and
\* not of a call or a round.
BudgetHolds == BytesSent <= MaxSize + ErrorSize * calls

\* Every loop ends, with an LLM that always asks for more or does not answer.
LoopEnds == <>(pc = "done")

\* What the analysis sees of the loop is the LLM step of its own module.
Pipeline == INSTANCE AnalysisPipeline WITH
    Schedulers <- {}, Nodes <- {},
    pc <- IF pc = "done" THEN "done" ELSE "llm",
    branch <- None, scheduler <- None, policy <- None, group <- None,
    checks <- None, stopped <- None, noSource <- None, dump <- None,
    captures <- None, quota <- None, nodesErr <- None, nodes <- None,
    hooks <- None, optional <- None,
    report <- [llm |-> ending,
               conclusion |-> CASE ending = "answer" -> "llm"
                                [] ending = "manual" -> "manual"
                                [] OTHER -> "unknown",
               diagnosis  |-> CASE ending = "answer" -> "llm"
                                [] ending = "manual" -> "manual"
                                [] OTHER -> "insufficient"]

\* The loop ends as AnalysisPipeline lets an LLM step end, and an answer only
\* while the context of the analysis is not done.
ConsultsAsPipeline ==
    [][\/ Pipeline!ContextExpires
       \/ Pipeline!LLMAnswers
       \/ Pipeline!LLMRecommendsManualAnalysis
       \/ Pipeline!LLMFails]_(Pipeline!vars)
=============================================================================
