----------------------------- MODULE LLMClient -----------------------------
(***************************************************************************)
(* soc_agent/recommendations/llm_client.py: concurrent structured calls to *)
(* a cloud LLM.  A task is one call of generate_structured(); the tasks    *)
(* share the semaphore and the usage counters of one LLMClient.            *)
(*                                                                         *)
(* Every action is the code between two suspension points (acquire, the    *)
(* API call, the backoff sleep).  The permit is held through all retries   *)
(* of one _run_with_retry(), backoff included, and given back between two  *)
(* of them, in the same atomic step that asks for it again.                *)
(***************************************************************************)
EXTENDS AsyncSemaphore, FiniteSets, Functions

CONSTANTS Tasks,          \* the calls of generate_structured() of one run
          MaxConcurrent,  \* llm_max_concurrent
          MaxRetries,     \* LLMClient(max_retries=...)
          Usages          \* what a response may bill and tell of it

ASSUME TasksAssumption == IsFiniteSet(Tasks)
ASSUME ConcurrentAssumption == MaxConcurrent \in Nat \ {0}
ASSUME RetriesAssumption == MaxRetries \in Nat \ {0}

(* The totals of _record_usage().  What the provider bills for a response, *)
(* and to which of the totals the client gets to add it: not to one that   *)
(* the response does not tell, or that has no price; and a count that      *)
(* int() refuses keeps it from this total and all later ones, as the       *)
(* exception, which is swallowed, skips the rest.                          *)
Totals == {"in", "out", "cost"}

Usage == [bill : [Totals -> Nat], counted : SUBSET Totals]

ASSUME UsagesAssumption == Usages \subseteq Usage

VARIABLES pc,         \* where each task is suspended
          mode,       \* response_format of its current _run_with_retry()
          round,      \* validation attempt of json_object / plain_text, 1 or 2
          attempt,    \* tenacity attempt of the current _run_with_retry()
          outcome,    \* how generate_structured() ended
          cancelled,  \* tasks the event loop has asked to cancel
          sem,        \* self._semaphore
          totals,     \* self._total_tokens_in, _total_tokens_out, _total_cost
          calls,      \* history: API calls each task has issued
          billed,     \* history: the bills of the responses to each task
          missed      \* history: for each total, the tasks with a response
                      \* of which the client did not get to know that part

vars == <<pc, mode, round, attempt, outcome, cancelled, sem, totals, calls, billed, missed>>

Modes == {"strict", "json_object", "plain_text"}

(* How the text of a response relates to the schema: valid as it is; valid *)
(* once _extract_json() strips what surrounds it; valid as it is but       *)
(* spoiled by _extract_json(), which prefers a fenced block inside one of  *)
(* its strings; or not valid at all.                                       *)
Bodies == {"clean", "wrapped", "embedded", "garbage"}

Failures == {"permanent", "shape", "transient", "badRequest", "error"}

Outcomes == {"none", "ok", "cancelled"} \cup Failures

(* Strict and json_object mode validate the raw text and then the          *)
(* extracted one; plain_text mode validates only the extracted one.        *)
Validates(m, body) ==
    \/ body \in {"clean", "wrapped"}
    \/ body = "embedded" /\ m # "plain_text"

Init ==
    /\ pc = [t \in Tasks |-> "idle"]
    /\ mode = [t \in Tasks |-> "strict"]
    /\ round = [t \in Tasks |-> 1]
    /\ attempt = [t \in Tasks |-> 1]
    /\ outcome = [t \in Tasks |-> "none"]
    /\ cancelled = {}
    /\ sem = NewSemaphore(MaxConcurrent)
    /\ totals = [k \in Totals |-> 0]
    /\ calls = [t \in Tasks |-> 0]
    /\ billed = [k \in Totals |-> [t \in Tasks |-> 0]]
    /\ missed = [k \in Totals |-> {}]

Running(t, where) == pc[t] = where /\ t \notin cancelled

IssueCall(t) == calls' = [calls EXCEPT ![t] = @ + 1]

(* _run_with_retry() up to its first suspension, entered with semaphore s. *)
RunWithRetry(t, s, m, r) ==
    /\ sem' = Acquire(s, t)
    /\ pc' = [pc EXCEPT ![t] = IF Locked(s) THEN "waiting" ELSE "calling"]
    /\ IF Locked(s) THEN UNCHANGED calls ELSE IssueCall(t)
    /\ mode' = [mode EXCEPT ![t] = m]
    /\ round' = [round EXCEPT ![t] = r]
    /\ attempt' = [attempt EXCEPT ![t] = 1]
    /\ UNCHANGED <<outcome, cancelled>>

(* Mutant of Finish: the permit is not given back.                         *)
FinishLeaking(t, how) ==
    /\ pc' = [pc EXCEPT ![t] = "finished"]
    /\ outcome' = [outcome EXCEPT ![t] = how]
    /\ UNCHANGED <<mode, round, attempt, cancelled, calls, sem>>

(* generate_structured() returns or raises, leaving "async with".          *)
Finish(t, how) ==
    /\ sem' = Release(sem)
    /\ pc' = [pc EXCEPT ![t] = "finished"]
    /\ outcome' = [outcome EXCEPT ![t] = how]
    /\ UNCHANGED <<mode, round, attempt, cancelled, calls>>

(* A response with usage u arrives: the provider has billed the task.      *)
Billed(t, u) ==
    /\ billed' = [k \in Totals |-> [billed[k] EXCEPT ![t] = @ + u.bill[k]]]
    /\ missed' = [k \in Totals |->
                    IF k \in u.counted THEN missed[k] ELSE missed[k] \cup {t}]

(* _record_usage(): before the response is even looked at.                 *)
RecordUsage(u) ==
    totals' = [k \in Totals |->
       IF k \in u.counted THEN totals[k] + u.bill[k] ELSE totals[k]]

Begin(t) ==
    /\ Running(t, "idle")
    /\ RunWithRetry(t, sem, "strict", 1)
    /\ UNCHANGED <<totals, billed, missed>>

(* The semaphore resumes the task, which issues its first call.            *)
Admitted(t) ==
    /\ Running(t, "waiting")
    /\ CanResume(sem, t)
    /\ sem' = Resumed(sem)
    /\ pc' = [pc EXCEPT ![t] = "calling"]
    /\ IssueCall(t)
    /\ UNCHANGED <<mode, round, attempt, outcome, cancelled, totals, billed, missed>>

(* Mutant of TransientError: the number of attempts is not limited.        *)
TransientErrorUnlimited(t) ==
    /\ Running(t, "calling")
    /\ pc' = [pc EXCEPT ![t] = "backoff"]
    /\ UNCHANGED <<mode, round, attempt, outcome, cancelled, sem, totals, calls, billed, missed>>

(* A timeout, rate limit, connection error or 5xx with attempts left.      *)
TransientError(t) ==
    /\ Running(t, "calling")
    /\ attempt[t] < MaxRetries
    /\ pc' = [pc EXCEPT ![t] = "backoff"]
    /\ UNCHANGED <<mode, round, attempt, outcome, cancelled, sem, totals, calls, billed, missed>>

RetryAfterBackoff(t) ==
    /\ Running(t, "backoff")
    /\ pc' = [pc EXCEPT ![t] = "calling"]
    /\ attempt' = [attempt EXCEPT ![t] = @ + 1]
    /\ IssueCall(t)
    /\ UNCHANGED <<mode, round, outcome, cancelled, sem, totals, billed, missed>>

(* The same error on the last attempt: tenacity re-raises it.              *)
RetriesExhausted(t) ==
    /\ Running(t, "calling")
    /\ attempt[t] = MaxRetries
    /\ Finish(t, "transient")
    /\ UNCHANGED <<totals, billed, missed>>

(* BadRequestError steps down to the next mode, or escapes from the last.  *)
BadRequest(t) ==
    /\ Running(t, "calling")
    /\ CASE mode[t] = "strict"      -> RunWithRetry(t, Release(sem), "json_object", 1)
         [] mode[t] = "json_object" -> RunWithRetry(t, Release(sem), "plain_text", 1)
         [] mode[t] = "plain_text"  -> Finish(t, "badRequest")
    /\ UNCHANGED <<totals, billed, missed>>

(* Any other exception of the call, e.g. an authentication error.          *)
OtherError(t) ==
    /\ Running(t, "calling")
    /\ Finish(t, "error")
    /\ UNCHANGED <<totals, billed, missed>>

(* A response without choices: _extract_content() raises LLMClientError.   *)
ShapelessResponse(t, u) ==
    /\ Running(t, "calling")
    /\ Billed(t, u)
    /\ RecordUsage(u)
    /\ Finish(t, "shape")

ValidResponse(t, u, body) ==
    /\ Running(t, "calling")
    /\ Validates(mode[t], body)
    /\ Billed(t, u)
    /\ RecordUsage(u)
    /\ Finish(t, "ok")

(* Mutant of InvalidResponse: the second round keeps the permit.           *)
InvalidResponseKeepingPermit(t, u, body) ==
    /\ Running(t, "calling")
    /\ ~Validates(mode[t], body)
    /\ Billed(t, u)
    /\ RecordUsage(u)
    /\ IF mode[t] # "strict" /\ round[t] = 1
       THEN /\ IssueCall(t)
            /\ round' = [round EXCEPT ![t] = 2]
            /\ attempt' = [attempt EXCEPT ![t] = 1]
            /\ UNCHANGED <<pc, mode, outcome, cancelled, sem>>
       ELSE Finish(t, "permanent")

(* Mutant of InvalidResponse: the usage is recorded of valid content only. *)
InvalidResponseUncounted(t, u, body) ==
    /\ Running(t, "calling")
    /\ ~Validates(mode[t], body)
    /\ Billed(t, u)
    /\ UNCHANGED totals
    /\ IF mode[t] # "strict" /\ round[t] = 1
       THEN RunWithRetry(t, Release(sem), mode[t], 2)
       ELSE Finish(t, "permanent")

(* A mismatch is final in strict mode and in the second round of the       *)
(* others; their first round asks again from the back of the queue.        *)
InvalidResponse(t, u, body) ==
    /\ Running(t, "calling")
    /\ ~Validates(mode[t], body)
    /\ Billed(t, u)
    /\ RecordUsage(u)
    /\ IF mode[t] # "strict" /\ round[t] = 1
       THEN RunWithRetry(t, Release(sem), mode[t], 2)
       ELSE Finish(t, "permanent")

(* asyncio.run() cancels all unfinished tasks: waiters without a permit    *)
(* and tasks not yet started unwind without touching the semaphore.        *)
GrantedTasks == {sem.waiters[i] : i \in 1..sem.granted}

Dropped == {t \in Tasks : pc[t] = "idle" \/ (pc[t] = "waiting" /\ t \notin GrantedTasks)}

(* Mutant of CancelAll: tasks inside a call are left alone.                *)
CancelAllButCalling ==
    /\ cancelled = {}
    /\ \E t \in Tasks : pc[t] # "finished"
    /\ cancelled' = {t \in Tasks : pc[t] \in {"idle", "waiting", "backoff"}}
    /\ sem' = CancelWaiters(sem)
    /\ pc' = [t \in Tasks |-> IF t \in Dropped THEN "finished" ELSE pc[t]]
    /\ outcome' = [t \in Tasks |-> IF t \in Dropped THEN "cancelled" ELSE outcome[t]]
    /\ UNCHANGED <<mode, round, attempt, totals, calls, billed, missed>>

CancelAll ==
    /\ cancelled = {}
    /\ \E t \in Tasks : pc[t] # "finished"
    /\ cancelled' = {t \in Tasks : pc[t] # "finished"}
    /\ sem' = CancelWaiters(sem)
    /\ pc' = [t \in Tasks |-> IF t \in Dropped THEN "finished" ELSE pc[t]]
    /\ outcome' = [t \in Tasks |-> IF t \in Dropped THEN "cancelled" ELSE outcome[t]]
    /\ UNCHANGED <<mode, round, attempt, totals, calls, billed, missed>>

(* Mutant of Unwind: a task cancelled in its backoff keeps the permit.     *)
UnwindLeaking(t) ==
    /\ t \in cancelled
    /\ \/ pc[t] = "calling" /\ sem' = Release(sem)
       \/ pc[t] = "backoff" /\ UNCHANGED sem
       \/ pc[t] = "waiting" /\ CanResume(sem, t) /\ sem' = ResumedCancelled(sem)
    /\ pc' = [pc EXCEPT ![t] = "finished"]
    /\ outcome' = [outcome EXCEPT ![t] = "cancelled"]
    /\ UNCHANGED <<mode, round, attempt, cancelled, totals, calls, billed, missed>>

(* A cancelled task that owns a permit gives it back as it unwinds.        *)
Unwind(t) ==
    /\ t \in cancelled
    /\ \/ pc[t] \in {"calling", "backoff"} /\ sem' = Release(sem)
       \/ pc[t] = "waiting" /\ CanResume(sem, t) /\ sem' = ResumedCancelled(sem)
    /\ pc' = [pc EXCEPT ![t] = "finished"]
    /\ outcome' = [outcome EXCEPT ![t] = "cancelled"]
    /\ UNCHANGED <<mode, round, attempt, cancelled, totals, calls, billed, missed>>

Terminated ==
    /\ \A t \in Tasks : pc[t] = "finished"
    /\ UNCHANGED vars

Respond(t) ==
    \E u \in Usages :
        \/ ShapelessResponse(t, u)
        \/ \E body \in Bodies : ValidResponse(t, u, body) \/ InvalidResponse(t, u, body)

CallReturns(t) ==
    \/ TransientError(t)
    \/ RetriesExhausted(t)
    \/ BadRequest(t)
    \/ OtherError(t)
    \/ Respond(t)

TaskStep(t) ==
    \/ Admitted(t)
    \/ RetryAfterBackoff(t)
    \/ CallReturns(t)
    \/ Unwind(t)

Next ==
    \/ \E t \in Tasks : Begin(t) \/ TaskStep(t)
    \/ CancelAll
    \/ Terminated

(* Every call has a timeout and every backoff a bound, and the event loop  *)
(* runs every ready task; nothing obliges the caller to begin or cancel.   *)
Fairness == \A t \in Tasks : WF_vars(TaskStep(t))

Spec == Init /\ [][Next]_vars /\ Fairness
-----------------------------------------------------------------------------
Holders == {t \in Tasks : pc[t] \in {"calling", "backoff"}}

(* Every variable has its type; a task in backoff has an attempt left.     *)
TypeOK ==
    /\ pc \in [Tasks -> {"idle", "waiting", "calling", "backoff", "finished"}]
    /\ mode \in [Tasks -> Modes]
    /\ round \in [Tasks -> {1, 2}]
    /\ attempt \in [Tasks -> 1..MaxRetries]
    /\ \A t \in Tasks : pc[t] = "backoff" => attempt[t] < MaxRetries
    /\ outcome \in [Tasks -> Outcomes]
    /\ cancelled \subseteq Tasks
    /\ sem \in Semaphores(Tasks)
    /\ totals \in [Totals -> Nat]
    /\ calls \in [Tasks -> Nat]
    /\ billed \in [Totals -> [Tasks -> Nat]]
    /\ missed \in [Totals -> SUBSET Tasks]

(* No exit from "async with self._semaphore" (return, raise, retry, mode   *)
(* change, cancellation) loses or mints a permit: the free permits, those  *)
(* handed to waiters and those of running tasks always add up.             *)
PermitConservation == Spare(sem) + Cardinality(Holders) = MaxConcurrent

(* At most llm_max_concurrent tasks have a call in flight or in backoff.   *)
ConcurrencyBound == Cardinality(Holders) <= MaxConcurrent

(* The three modes and their two validation rounds, each with its own      *)
(* retries, issue at most 5 * max_retries API calls for one cluster.       *)
CallBudget == \A t \in Tasks : calls[t] <= 5 * MaxRetries

(* The calls that the modes and rounds before round r of mode m can cost.  *)
SpentBefore(m, r) ==
    CASE m = "strict"      -> 0
      [] m = "json_object" -> r * MaxRetries
      [] m = "plain_text"  -> (2 + r) * MaxRetries

(* Each suspended task is within the calls its mode, round and attempt     *)
(* account for, so stepping down a mode never restarts the budget.         *)
BudgetInv ==
    \A t \in Tasks :
        /\ pc[t] = "idle" => calls[t] = 0
        /\ pc[t] = "waiting" => calls[t] <= SpentBefore(mode[t], round[t])
        /\ pc[t] \in {"calling", "backoff"} => calls[t] <= SpentBefore(mode[t], round[t]) + attempt[t]
        /\ calls[t] <= 5 * MaxRetries

(* What total_usage() reports is never more than the provider billed, and  *)
(* never less than it billed to the tasks whose responses could all be     *)
(* read: also for responses that fail validation, have no choices, or      *)
(* belong to a request that failed or was cancelled later.  A usage block  *)
(* that cannot be read costs the other tasks nothing.                      *)
Known(k) == [t \in Tasks |-> IF t \in missed[k] THEN 0 ELSE billed[k][t]]

UsageAccounted ==
    \A k \in Totals :
        /\ totals[k] <= SumFunction(billed[k])
        /\ SumFunction(Known(k)) <= totals[k]

(* A task that comes back for a second round or a lower mode never starts  *)
(* its call while others are queued: releasing and asking again in one     *)
(* step gives no advantage over the waiting clusters.                      *)
NoBarging ==
    [][\A t \in Tasks :
         pc[t] = "calling" /\ calls'[t] # calls[t] => sem.waiters = <<>>]_vars

(* A request that started ends, in success, failure or cancellation,       *)
(* whatever the provider answers: no retry loop or queue starves it.       *)
EveryRequestEnds == \A t \in Tasks : pc[t] = "waiting" ~> pc[t] = "finished"
=============================================================================
