----------------------------- MODULE BatchCall ------------------------------
(***************************************************************************)
(* What the agent may expect of the batches it posts to the inference      *)
(* service: each gets one verdict, which is final and comes in the end.    *)
(* "ok" means that the service did the work for it, but not that it did it *)
(* once: up to MaxRetries times, and also for a batch that was given up.   *)
(* Only a classification can be answered "unsupported".                    *)
(***************************************************************************)
EXTENDS Naturals

CONSTANTS Calls,       \* the batches
          Classifies,  \* those that ask for a classification
          MaxRetries

VARIABLES verdict,     \* "open", or what the caller was told
          work         \* how often the service computed the whole batch

Init ==
    /\ verdict = [c \in Calls |-> "open"]
    /\ work = [c \in Calls |-> 0]

Compute(c) ==
    /\ work[c] < MaxRetries
    /\ work' = [work EXCEPT ![c] = @ + 1]
    /\ UNCHANGED verdict

Decide(c, answer) ==
    /\ verdict[c] = "open"
    /\ answer = "ok" => work[c] > 0
    /\ answer = "unsupported" => c \in Classifies
    /\ verdict' = [verdict EXCEPT ![c] = answer]
    /\ UNCHANGED work

Decided(c) == \E answer \in {"ok", "failed", "unsupported"} : Decide(c, answer)

Next == \E c \in Calls : Compute(c) \/ Decided(c)

batchVars == <<verdict, work>>

(* What a batch may never see, apart from the promise that it is decided.  *)
Safety == Init /\ [][Next]_batchVars

Spec == Safety /\ \A c \in Calls : WF_batchVars(Decided(c))
=============================================================================
