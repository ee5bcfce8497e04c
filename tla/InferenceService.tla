-------------------------- MODULE InferenceService --------------------------
(***************************************************************************)
(* One HTTP batch at a time between the agent's clients (_post_embeddings, *)
(* _post_classify with their retries and timeout) and inference_service:   *)
(* the handlers of server.py, the GPU lock of _run_on_gpu() and the two    *)
(* passes of SecBERTProvider around an out-of-memory error.                *)
(*                                                                         *)
(* Every attempt of a client is a handler of its own.  A handler is not    *)
(* cancelled when its client times out: it keeps its place in the lock's   *)
(* queue and its turn on the GPU, and its late answer is dropped.  The     *)
(* asyncio.Lock of the service is a fair semaphore with one permit.        *)
(***************************************************************************)
EXTENDS AsyncSemaphore, FiniteSets

CONSTANTS Embeds,       \* batches posted to /embeddings
          Classifies,   \* batches posted to /classify
          MaxRetries,   \* attempts per batch
          BatchTexts,   \* texts in each batch
          MaxBatchSize, \* the provider's max_batch_size
          MaxRestarts   \* bound: restarts of the service

Calls == Embeds \cup Classifies

Handlers == Calls \X (1..MaxRetries)

ASSUME ServiceAssumption ==
    /\ Embeds \cap Classifies = {}
    /\ MaxRetries \in Nat \ {0} /\ BatchTexts \in Nat \ {0} /\ MaxBatchSize \in Nat \ {0}
    /\ MaxRestarts \in Nat

VARIABLES up,        \* the service accepts connections (its model is loaded)
          gate,      \* what the deployment answers before any work: 0 nothing,
                     \*   401 another API key, 422 batches above its limits,
                     \*   501 to /classify, as its model has no classifier head
          restarts,  \* bound counter
          gpuLock,   \* app.state.gpu_lock
          handler,   \* where each handler is
          pass,      \* 1: batches of MaxBatchSize, 2: batches of one text
          out,       \* rows its forward pass has produced
          status,    \* the HTTP status it answered
          computed,  \* history: the handlers that computed their whole batch
          call,      \* where each client call is
          attempt    \* its tenacity attempt

serverVars == <<up, gate, restarts, gpuLock, handler, pass, out, status, computed>>
callVars == <<call, attempt>>
vars == <<serverVars, callVars>>

Gates == {0, 401, 422, 501}

Init ==
    /\ up = TRUE
    /\ gate \in Gates
    /\ restarts = 0
    /\ gpuLock = NewSemaphore(1)
    /\ handler = [h \in Handlers |-> "none"]
    /\ pass = [h \in Handlers |-> 1]
    /\ out = [h \in Handlers |-> 0]
    /\ status = [h \in Handlers |-> 0]
    /\ computed = {}
    /\ call = [c \in Calls |-> "ready"]
    /\ attempt = [c \in Calls |-> 1]

Current(c) == <<c, attempt[c]>>

-----------------------------------------------------------------------------
(* tenacity: another attempt, or the last error is re-raised.              *)
TransientFailure(c) ==
    IF attempt[c] < MaxRetries
    THEN call' = [call EXCEPT ![c] = "ready"] /\ attempt' = [attempt EXCEPT ![c] = @ + 1]
    ELSE call' = [call EXCEPT ![c] = "failed"] /\ UNCHANGED attempt

(* What is checked first: the bearer token, the limits of a request, and   *)
(* for /classify the classifier head.                                      *)
TurnedAway(c) == IF c \in Embeds /\ gate = 501 THEN 0 ELSE gate

(* The request reaches its handler, which answers at once or asks for the  *)
(* GPU.  (The model is loaded before the service accepts connections, and  *)
(* never unloaded: "Model not loaded" does not occur.)                     *)
Send(c) ==
    LET h == Current(c)
    IN  /\ call[c] = "ready"
        /\ up
        /\ call' = [call EXCEPT ![c] = "waiting"]
        /\ IF TurnedAway(c) # 0
           THEN /\ handler' = [handler EXCEPT ![h] = "answered"]
                /\ status' = [status EXCEPT ![h] = TurnedAway(c)]
                /\ UNCHANGED gpuLock
           ELSE /\ gpuLock' = Acquire(gpuLock, h)
                /\ handler' = [handler EXCEPT ![h] =
                                 IF Locked(gpuLock) THEN "queued" ELSE "forward"]
                /\ UNCHANGED status
        /\ UNCHANGED <<up, gate, restarts, pass, out, computed, attempt>>

(* Mutant of Refused: the client waits until the service is back.          *)
RefusedWaiting(c) == call[c] = "ready" /\ ~up /\ UNCHANGED vars

(* ConnectError while the service is down.                                 *)
Refused(c) ==
    /\ call[c] = "ready"
    /\ ~up
    /\ TransientFailure(c)
    /\ UNCHANGED serverVars

(* ReadTimeout, or the peer closed the connection: the handler lives on.   *)
TimedOut(c) ==
    /\ call[c] = "waiting"
    /\ TransientFailure(c)
    /\ UNCHANGED serverVars

(* An exception that _RETRYABLE does not list, such as a reset connection. *)
ConnectionReset(c) ==
    /\ call[c] = "waiting"
    /\ ~up
    /\ call' = [call EXCEPT ![c] = "failed"]
    /\ UNCHANGED <<serverVars, attempt>>

(* The answer of the current attempt; a 4xx and 501 are never retried.  A  *)
(* 200 has the number of rows the client checks, since the service answers *)
(* for all of the texts of a request or not at all.                        *)
Receive(c) ==
    LET code == status[Current(c)]
    IN  /\ call[c] = "waiting"
        /\ up
        /\ handler[Current(c)] = "answered"
        /\ \/ code = 200 /\ call' = [call EXCEPT ![c] = "ok"] /\ UNCHANGED attempt
           \/ code \in {401, 422} /\ call' = [call EXCEPT ![c] = "failed"] /\ UNCHANGED attempt
           \/ code = 501 /\ call' = [call EXCEPT ![c] = "unsupported"] /\ UNCHANGED attempt
           \/ code \in {500, 503} /\ TransientFailure(c)
        /\ UNCHANGED serverVars

-----------------------------------------------------------------------------
(* Mutant of GpuGranted: any waiter takes the permit that was handed over. *)
GpuGrantedToAny(h) ==
    /\ handler[h] = "queued"
    /\ gpuLock.granted > 0
    /\ gpuLock' = Resumed(gpuLock)
    /\ handler' = [handler EXCEPT ![h] = "forward"]
    /\ UNCHANGED <<up, gate, restarts, pass, out, status, computed, callVars>>

GpuGranted(h) ==
    /\ handler[h] = "queued"
    /\ CanResume(gpuLock, h)
    /\ gpuLock' = Resumed(gpuLock)
    /\ handler' = [handler EXCEPT ![h] = "forward"]
    /\ UNCHANGED <<up, gate, restarts, pass, out, status, computed, callVars>>

(* Mutant of Answer: an error leaves the lock taken.                       *)
AnswerLeaking(h, code) ==
    /\ gpuLock' = IF code = 200 THEN Release(gpuLock) ELSE gpuLock
    /\ handler' = [handler EXCEPT ![h] = "answered"]
    /\ status' = [status EXCEPT ![h] = code]
    /\ computed' = IF code = 200 THEN computed \cup {h} ELSE computed
    /\ UNCHANGED <<up, gate, restarts, callVars>>

(* The handler leaves "async with lock" and answers.                       *)
Answer(h, code) ==
    /\ gpuLock' = Release(gpuLock)
    /\ handler' = [handler EXCEPT ![h] = "answered"]
    /\ status' = [status EXCEPT ![h] = code]
    /\ computed' = IF code = 200 THEN computed \cup {h} ELSE computed
    /\ UNCHANGED <<up, gate, restarts, callVars>>

(* Mutant of ChunkSize: the last chunk is not cut to what is left.         *)
ChunkSizeUncut(h) == IF pass[h] = 1 THEN MaxBatchSize ELSE 1

(* One chunk of split_batches() goes through the model.                    *)
ChunkSize(h) ==
    LET size == IF pass[h] = 1 THEN MaxBatchSize ELSE 1
        left == BatchTexts - out[h]
    IN  IF left < size THEN left ELSE size

ForwardChunk(h) ==
    /\ handler[h] = "forward"
    /\ out[h] < BatchTexts
    /\ out' = [out EXCEPT ![h] = @ + ChunkSize(h)]
    /\ UNCHANGED <<up, gate, restarts, gpuLock, handler, pass, status, computed, callVars>>

ForwardDone(h) ==
    /\ handler[h] = "forward"
    /\ out[h] = BatchTexts
    /\ Answer(h, 200)
    /\ UNCHANGED <<pass, out>>

(* Mutant of OomRetry: the batches stay as large as they were.             *)
OomRetryUnreduced(h) ==
    /\ handler[h] = "forward"
    /\ out[h] < BatchTexts
    /\ pass[h] = 1
    /\ out' = [out EXCEPT ![h] = 0]
    /\ UNCHANGED <<up, gate, restarts, gpuLock, handler, pass, status, computed, callVars>>

(* The first out-of-memory error starts over, one text at a time.          *)
OomRetry(h) ==
    /\ handler[h] = "forward"
    /\ out[h] < BatchTexts
    /\ pass[h] = 1
    /\ pass' = [pass EXCEPT ![h] = 2]
    /\ out' = [out EXCEPT ![h] = 0]
    /\ UNCHANGED <<up, gate, restarts, gpuLock, handler, status, computed, callVars>>

(* The second one is OOMError, hence 503; anything else escapes as 500.    *)
ForwardFails(h) ==
    /\ handler[h] = "forward"
    /\ out[h] < BatchTexts
    /\ \/ pass[h] = 2 /\ Answer(h, 503)
       \/ Answer(h, 500)
    /\ UNCHANGED <<pass, out>>

(* The service process dies with all its handlers and comes back, perhaps  *)
(* with another checkpoint, key or limits.                                 *)
Die ==
    /\ up
    /\ restarts < MaxRestarts
    /\ up' = FALSE
    /\ restarts' = restarts + 1
    /\ gpuLock' = NewSemaphore(1)
    /\ handler' = [h \in Handlers |-> IF handler[h] = "none" THEN "none" ELSE "lost"]
    /\ pass' = [h \in Handlers |-> 1]
    /\ out' = [h \in Handlers |-> 0]
    /\ status' = [h \in Handlers |-> 0]
    /\ UNCHANGED <<gate, computed, callVars>>

ComeBack ==
    /\ ~up
    /\ up' = TRUE
    /\ gate' \in Gates
    /\ UNCHANGED <<restarts, gpuLock, handler, pass, out, status, computed, callVars>>

Quiet ==
    /\ up
    /\ \A c \in Calls : call[c] \in {"ok", "failed", "unsupported"}
    /\ \A h \in Handlers : handler[h] \in {"none", "answered", "lost"}
    /\ UNCHANGED vars

CallStep(c) == Send(c) \/ Refused(c) \/ TimedOut(c) \/ ConnectionReset(c) \/ Receive(c)

HandlerStep(h) ==
    GpuGranted(h) \/ ForwardChunk(h) \/ ForwardDone(h) \/ OomRetry(h) \/ ForwardFails(h)

Next ==
    \/ \E c \in Calls : CallStep(c)
    \/ \E h \in Handlers : HandlerStep(h)
    \/ Die
    \/ ComeBack
    \/ Quiet

(* The client's timeout bounds every wait; a forward pass is finite.       *)
Fairness ==
    /\ \A c \in Calls : WF_vars(CallStep(c))
    /\ \A h \in Handlers : WF_vars(HandlerStep(h))

Spec == Init /\ [][Next]_vars /\ Fairness
-----------------------------------------------------------------------------
OnGpu == {h \in Handlers : handler[h] = "forward"}

TypeOK ==
    /\ up \in BOOLEAN /\ gate \in Gates /\ restarts \in 0..MaxRestarts
    /\ gpuLock \in Semaphores(Handlers)
    /\ handler \in [Handlers -> {"none", "queued", "forward", "answered", "lost"}]
    /\ pass \in [Handlers -> {1, 2}]
    /\ out \in [Handlers -> 0..BatchTexts]
    /\ status \in [Handlers -> {0, 200, 401, 422, 500, 501, 503}]
    /\ computed \subseteq Handlers
    /\ call \in [Calls -> {"ready", "waiting", "ok", "failed", "unsupported"}]
    /\ attempt \in [Calls -> 1..MaxRetries]

(* The GPU runs one forward pass at a time and the lock survives every     *)
(* way out of it, out-of-memory errors and orphaned handlers included.     *)
GpuExclusive == Spare(gpuLock) + Cardinality(OnGpu) = 1

(* The lock serves the attempts of one batch in the order they were sent:  *)
(* a retry never computes before or beside the orphan it replaces, which   *)
(* still holds its place when its client has given up.                     *)
RetryNeverOvertakes ==
    \A c \in Calls, m, n \in 1..MaxRetries :
        m < n /\ handler[<<c, n>>] = "forward" =>
            handler[<<c, m>>] \notin {"queued", "forward"}

Verdicts == [c \in Calls |-> IF call[c] \in {"ready", "waiting"} THEN "open" ELSE call[c]]

Computed(c) == {h \in computed : h[1] = c}

Work == [c \in Calls |-> Cardinality(Computed(c))]

Abstract == INSTANCE BatchCall WITH verdict <- Verdicts, work <- Work

(* Through timeouts, retries, orphaned handlers and restarts, a batch gets *)
(* one verdict in the end, "ok" only for work that was done, and costs at  *)
(* most max_retries computations, the ones nobody waits for included.      *)
ImplementsBatchCall == Abstract!Spec

(* A handler in the queue leaves it, whatever happens to the ones ahead.   *)
QueueDrains == \A h \in Handlers : handler[h] = "queued" ~> handler[h] # "queued"
=============================================================================
