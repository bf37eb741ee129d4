--------------------------- MODULE CapturePromise ---------------------------
(***************************************************************************)
(* What Client.CaptureCacheDump promises its callers: captures take place  *)
(* one at a time, and each ends with an error or with one dump that the    *)
(* scheduler began, and finished, after the capture had its turn.          *)
(***************************************************************************)
CONSTANTS
    Captures, \* calls of CaptureCacheDump
    Dumps,    \* dumps a scheduler may write to its log
    None      \* nobody's turn

VARIABLES
    turn,     \* the capture under way
    fresh,    \* dumps begun since it had its turn
    complete, \* dumps written to their end
    status,   \* "waiting", "failed" or "served"
    answer    \* the dump that served a capture

Init ==
    /\ turn = None
    /\ fresh = {}
    /\ complete = {}
    /\ status = [c \in Captures |-> "waiting"]
    /\ answer = [c \in Captures |-> None]

Take(c) ==
    /\ turn = None
    /\ status[c] = "waiting"
    /\ turn' = c
    /\ fresh' = {}
    /\ UNCHANGED <<complete, status, answer>>

\* A scheduler begins a dump, because of this capture or for another reason.
Begin(d) ==
    /\ turn # None
    /\ d \notin fresh \cup complete
    /\ fresh' = fresh \cup {d}
    /\ UNCHANGED <<turn, complete, status, answer>>

Complete(d) ==
    /\ d \notin complete
    /\ complete' = complete \cup {d}
    /\ UNCHANGED <<turn, fresh, status, answer>>

Release(c) ==
    /\ turn = c
    /\ turn' = None
    /\ fresh' = {}
    /\ UNCHANGED complete

Fail(c) ==
    /\ Release(c)
    /\ status' = [status EXCEPT ![c] = "failed"]
    /\ UNCHANGED answer

Serve(c) ==
    /\ Release(c)
    /\ status' = [status EXCEPT ![c] = "served"]
    /\ \E d \in fresh \cap complete : answer' = [answer EXCEPT ![c] = d]

Next ==
    \/ \E c \in Captures : Take(c) \/ Fail(c) \/ Serve(c)
    \/ \E d \in Dumps : Begin(d) \/ Complete(d)

Spec == Init /\ [][Next]_<<turn, fresh, complete, status, answer>>
=============================================================================
