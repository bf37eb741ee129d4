------------------------------ MODULE MCLLMLoop ------------------------------
(***************************************************************************)
(* The LLM loop with few tools, rounds and bytes.                          *)
(***************************************************************************)
EXTENDS LLMLoop

FirstId     == CHOOSE i \in Ids : TRUE
FirstPodKey == CHOOSE k \in PodKeys : TRUE

\* IDs are alike, and so are the tools that ask for the Pod: the call that comes
\* first has the first of each.
InTurn ==
    messages' # <<>> =>
        /\ messages'[1].calls[1].id = FirstId
        /\ messages'[1].calls[1].key \notin PodKeys \ {FirstPodKey}

MCSpec == Init /\ [][Next /\ InTurn]_vars /\ Fairness
=============================================================================
