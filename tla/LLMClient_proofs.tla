-------------------------- MODULE LLMClient_proofs --------------------------
(***************************************************************************)
(* Proofs about LLMClient for any number of tasks, permits and retries:    *)
(* type correctness, conservation of the permits (hence the concurrency    *)
(* bound), the budget of API calls, the order of the queue and the usage.  *)
(***************************************************************************)
EXTENDS LLMClient, CommonLemmas

-----------------------------------------------------------------------------
(* Type correctness.                                                       *)

(* The part of TypeOK about the usage.                                     *)
UsageTyped ==
    /\ totals \in [Totals -> Nat]
    /\ billed \in [Totals -> [Tasks -> Nat]]
    /\ missed \in [Totals -> SUBSET Tasks]

(* Entering _run_with_retry() with a well-typed semaphore keeps the types. *)
LEMMA RunType ==
    ASSUME TypeOK, NEW t \in Tasks, NEW s \in Semaphores(Tasks), NEW m \in Modes,
           NEW r \in {1, 2}, RunWithRetry(t, s, m, r),
           UsageTyped'
    PROVE  TypeOK'
<1> USE DEF UsageTyped
<1>1. sem' \in Semaphores(Tasks)
  BY AcquireLemma DEF RunWithRetry
<1>2. calls' \in [Tasks -> Nat]
  BY DEF RunWithRetry, TypeOK, IssueCall
<1>3. 1 \in 1..MaxRetries
  BY RetriesAssumption
<1> QED
  BY <1>1, <1>2, <1>3 DEF RunWithRetry, TypeOK

(* Leaving generate_structured() keeps the types.                          *)
LEMMA FinishType ==
    ASSUME TypeOK, NEW t \in Tasks, NEW how \in Outcomes, Finish(t, how),
           UsageTyped'
    PROVE  TypeOK'
<1> USE DEF UsageTyped
<1>1. sem' \in Semaphores(Tasks)
  BY ReleaseLemma DEF Finish, TypeOK
<1> QED
  BY <1>1 DEF Finish, TypeOK

(* Recording the usage of one response keeps the types.                    *)
LEMMA UsageType ==
    ASSUME UsageTyped, NEW t \in Tasks, NEW u \in Usages, Billed(t, u), RecordUsage(u)
    PROVE  UsageTyped'
<1>1. u.bill \in [Totals -> Nat]
  BY UsagesAssumption DEF Usage
<1>2. totals' \in [Totals -> Nat]
  BY <1>1 DEF RecordUsage, UsageTyped
<1>3. billed' \in [Totals -> [Tasks -> Nat]]
  <2>1. ASSUME NEW k \in Totals
        PROVE  [billed[k] EXCEPT ![t] = @ + u.bill[k]] \in [Tasks -> Nat]
    BY <1>1 DEF UsageTyped
  <2> QED  BY <2>1 DEF Billed
<1>4. missed' \in [Totals -> SUBSET Tasks]
  BY DEF Billed, UsageTyped
<1> QED
  BY <1>2, <1>3, <1>4 DEF UsageTyped

(* The types hold initially.                                               *)
LEMMA TypeInit == Init => TypeOK
<1> SUFFICES ASSUME Init PROVE TypeOK
  OBVIOUS
<1>1. MaxConcurrent \in Nat /\ 1 \in 1..MaxRetries
  BY ConcurrentAssumption, RetriesAssumption
<1>2. sem \in Semaphores(Tasks)
  BY <1>1, NewLemma DEF Init
<1> QED
  BY <1>1, <1>2 DEF Init, TypeOK, Modes, Outcomes

(* Every step keeps the types.                                             *)
LEMMA TypeStep == TypeOK /\ [Next]_vars => TypeOK'
<1> SUFFICES ASSUME TypeOK, [Next]_vars PROVE TypeOK'
  OBVIOUS
<1>S. sem \in Semaphores(Tasks) /\ Release(sem) \in Semaphores(Tasks)
  BY ReleaseLemma DEF TypeOK
<1>U. UsageTyped /\ (UNCHANGED <<totals, billed, missed>> => UsageTyped')
  BY DEF TypeOK, UsageTyped
<1>1. ASSUME NEW t \in Tasks, Begin(t) PROVE TypeOK'
  <2>1. "strict" \in Modes /\ 1 \in {1, 2}
    BY DEF Modes
  <2> QED
    BY <1>1, <1>S, <1>U, <2>1, RunType DEF Begin
<1>2. ASSUME NEW t \in Tasks, Admitted(t) PROVE TypeOK'
  <2>1. sem' \in Semaphores(Tasks)
    BY <1>2, <1>S, ResumedLemma DEF Admitted, CanResume
  <2> QED
    BY <1>2, <2>1 DEF Admitted, IssueCall, TypeOK
<1>4. ASSUME NEW t \in Tasks, RetryAfterBackoff(t) PROVE TypeOK'
  <2>1. attempt[t] + 1 \in 1..MaxRetries
    BY <1>4, RetriesAssumption DEF RetryAfterBackoff, Running, TypeOK
  <2> QED
    BY <1>4, <2>1 DEF RetryAfterBackoff, IssueCall, TypeOK
<1>5. ASSUME NEW t \in Tasks, CallReturns(t) PROVE TypeOK'
  <2>1. CASE TransientError(t)
    BY <2>1 DEF TransientError, TypeOK
  <2>2. CASE RetriesExhausted(t)
    BY <2>2, <1>U, FinishType DEF RetriesExhausted, Outcomes, Failures
  <2>3. CASE BadRequest(t)
    <3>1. mode[t] \in Modes /\ UsageTyped'
      BY <2>3, <1>U DEF TypeOK, BadRequest
    <3>2. CASE mode[t] = "strict"
      BY <2>3, <3>1, <3>2, <1>S, <1>U, RunType DEF BadRequest, Modes
    <3>3. CASE mode[t] = "json_object"
      BY <2>3, <3>1, <3>3, <1>S, <1>U, RunType DEF BadRequest, Modes
    <3>4. CASE mode[t] = "plain_text"
      BY <2>3, <3>1, <3>4, <1>U, FinishType DEF BadRequest, Outcomes, Failures
    <3> QED
      BY <3>1, <3>2, <3>3, <3>4 DEF Modes
  <2>4. CASE OtherError(t)
    BY <2>4, <1>U, FinishType DEF OtherError, Outcomes, Failures
  <2>5. ASSUME NEW u \in Usages, ShapelessResponse(t, u) PROVE TypeOK'
    BY <2>5, <1>U, UsageType, FinishType DEF ShapelessResponse, Outcomes, Failures
  <2>6. ASSUME NEW u \in Usages, NEW body \in Bodies, ValidResponse(t, u, body)
        PROVE  TypeOK'
    BY <2>6, <1>U, UsageType, FinishType DEF ValidResponse, Outcomes
  <2>7. ASSUME NEW u \in Usages, NEW body \in Bodies, InvalidResponse(t, u, body)
        PROVE  TypeOK'
    <3>1. UsageTyped' /\ mode[t] \in Modes
      BY <2>7, <1>U, UsageType DEF InvalidResponse, TypeOK
    <3>2. CASE mode[t] # "strict" /\ round[t] = 1
      BY <2>7, <3>1, <3>2, <1>S, RunType DEF InvalidResponse
    <3>3. CASE ~(mode[t] # "strict" /\ round[t] = 1)
      BY <2>7, <3>1, <3>3, FinishType DEF InvalidResponse, Outcomes, Failures
    <3> QED
      BY <3>2, <3>3
  <2> QED
    BY <1>5, <2>1, <2>2, <2>3, <2>4, <2>5, <2>6, <2>7 DEF CallReturns, Respond
<1>6. ASSUME NEW t \in Tasks, Unwind(t) PROVE TypeOK'
  <2>1. sem' \in Semaphores(Tasks)
    BY <1>6, <1>S, ResumedCancelledLemma DEF Unwind, CanResume
  <2> QED
    BY <1>6, <2>1 DEF Unwind, TypeOK, Outcomes
<1>7. CASE CancelAll
  <2>1. sem' \in Semaphores(Tasks)
    BY <1>7, <1>S, CancelWaitersLemma DEF CancelAll
  <2>2. /\ pc' \in [Tasks -> {"idle", "waiting", "calling", "backoff", "finished"}]
        /\ outcome' \in [Tasks -> Outcomes]
        /\ \A t \in Tasks : pc'[t] = "backoff" => pc[t] = "backoff"
    BY <1>7 DEF CancelAll, TypeOK, Outcomes
  <2> QED
    BY <1>7, <2>1, <2>2 DEF CancelAll, TypeOK
<1>8. CASE Terminated \/ UNCHANGED vars
  BY <1>8 DEF Terminated, vars, TypeOK
<1> QED
  BY <1>1, <1>2, <1>4, <1>5, <1>6, <1>7, <1>8 DEF Next, TaskStep

(* Type correctness for every number of tasks, permits and retries.        *)
THEOREM TypeCorrect == Spec => []TypeOK
BY TypeInit, TypeStep, PTL DEF Spec
-----------------------------------------------------------------------------
(* Conservation of the permits.                                            *)

(* When one task moves, the number of permit holders follows it.           *)
LEMMA HoldersLemma ==
    ASSUME TypeOK, NEW t \in Tasks, NEW where, pc' = [pc EXCEPT ![t] = where]
    PROVE  /\ Cardinality(Holders \ {t}) \in Nat
           /\ pc[t] \in {"calling", "backoff"} =>
                Cardinality(Holders) = Cardinality(Holders \ {t}) + 1
           /\ pc[t] \notin {"calling", "backoff"} =>
                Cardinality(Holders) = Cardinality(Holders \ {t})
           /\ where \in {"calling", "backoff"} =>
                Cardinality(Holders') = Cardinality(Holders \ {t}) + 1
           /\ where \notin {"calling", "backoff"} =>
                Cardinality(Holders') = Cardinality(Holders \ {t})
<1> DEFINE others == Holders \ {t}
<1>1. IsFiniteSet(Holders) /\ IsFiniteSet(others)
  BY TasksAssumption, FS_Subset DEF Holders
<1>2. Cardinality(others) \in Nat
  BY <1>1, FS_CardinalityType
<1>3. t \notin others
  OBVIOUS
<1>4. Cardinality(others \cup {t}) = Cardinality(others) + 1
  BY <1>1, <1>3, FS_AddElement
<1>5. Holders = IF pc[t] \in {"calling", "backoff"} THEN others \cup {t} ELSE others
  BY DEF Holders
<1>6. Holders' = IF where \in {"calling", "backoff"} THEN others \cup {t} ELSE others
  BY DEF Holders, TypeOK
<1> HIDE DEF others
<1> QED
  BY <1>2, <1>4, <1>5, <1>6 DEF others

(* A task that enters _run_with_retry() with semaphore s, counted as       *)
(* holding nothing, keeps the total.                                       *)
LEMMA RunPermits ==
    ASSUME TypeOK, NEW t \in Tasks, NEW s \in Semaphores(Tasks), NEW m, NEW r,
           RunWithRetry(t, s, m, r),
           Spare(s) + Cardinality(Holders \ {t}) = MaxConcurrent
    PROVE  PermitConservation'
<1> DEFINE where == IF Locked(s) THEN "waiting" ELSE "calling"
<1>1. pc' = [pc EXCEPT ![t] = where] /\ sem' = Acquire(s, t)
  BY DEF RunWithRetry
<1>2. Spare(Acquire(s, t)) = IF Locked(s) THEN Spare(s) ELSE Spare(s) - 1
  BY AcquireLemma
<1>3. Spare(s) \in Nat
  BY FieldsLemma
<1>4. /\ Cardinality(Holders \ {t}) \in Nat
      /\ Locked(s) => Cardinality(Holders') = Cardinality(Holders \ {t})
      /\ ~Locked(s) => Cardinality(Holders') = Cardinality(Holders \ {t}) + 1
  <2>1. CASE Locked(s)
    <3>1. pc' = [pc EXCEPT ![t] = "waiting"] /\ "waiting" \notin {"calling", "backoff"}
      BY <1>1, <2>1
    <3> QED
      BY <2>1, <3>1, HoldersLemma
  <2>2. CASE ~Locked(s)
    <3>1. pc' = [pc EXCEPT ![t] = "calling"] /\ "calling" \in {"calling", "backoff"}
      BY <1>1, <2>2
    <3> QED
      BY <2>2, <3>1, HoldersLemma
  <2> QED
    BY <2>1, <2>2
<1>5. Spare(sem') + Cardinality(Holders') = MaxConcurrent
  BY <1>1, <1>2, <1>3, <1>4
<1> QED
  BY <1>5 DEF PermitConservation, Spare

(* A task that holds a permit and ends its request gives it back.          *)
LEMMA FinishPermits ==
    ASSUME TypeOK, PermitConservation, NEW t \in Tasks,
           pc[t] \in {"calling", "backoff"},
           pc' = [pc EXCEPT ![t] = "finished"], sem' = Release(sem)
    PROVE  PermitConservation'
<1>1. Spare(Release(sem)) = Spare(sem) + 1
  BY ReleaseLemma DEF TypeOK
<1>2. Spare(sem) \in Nat
  BY FieldsLemma DEF TypeOK
<1>3. /\ Cardinality(Holders \ {t}) \in Nat
      /\ Cardinality(Holders) = Cardinality(Holders \ {t}) + 1
      /\ Cardinality(Holders') = Cardinality(Holders \ {t})
  <2>1. pc' = [pc EXCEPT ![t] = "finished"] /\ "finished" \notin {"calling", "backoff"}
    OBVIOUS
  <2> QED
    BY <2>1, HoldersLemma
<1>4. Spare(sem') + Cardinality(Holders') = MaxConcurrent
  BY <1>1, <1>2, <1>3 DEF PermitConservation
<1> QED
  BY <1>4 DEF PermitConservation, Spare

(* All permits are free at first.                                          *)
LEMMA PermitInit == Init => PermitConservation
<1> SUFFICES ASSUME Init PROVE PermitConservation
  OBVIOUS
<1>1. Spare(sem) = MaxConcurrent /\ MaxConcurrent \in Nat
  BY ConcurrentAssumption, NewLemma DEF Init
<1>2. Holders = {}
  BY DEF Init, Holders
<1> QED
  BY <1>1, <1>2, FS_EmptySet DEF PermitConservation

(* Every step keeps the total.                                             *)
LEMMA PermitStep == TypeOK /\ PermitConservation /\ [Next]_vars => PermitConservation'
<1> SUFFICES ASSUME TypeOK, PermitConservation, [Next]_vars PROVE PermitConservation'
  OBVIOUS
<1>S. /\ sem \in Semaphores(Tasks) /\ Spare(sem) \in Nat
      /\ Release(sem) \in Semaphores(Tasks) /\ Spare(Release(sem)) = Spare(sem) + 1
  BY FieldsLemma, ReleaseLemma DEF TypeOK
<1>1. ASSUME NEW t \in Tasks, Begin(t) PROVE PermitConservation'
  <2>1. RunWithRetry(t, sem, "strict", 1) /\ pc[t] = "idle"
    BY <1>1 DEF Begin, Running
  <2>2. Holders \ {t} = Holders
    BY <2>1 DEF Holders
  <2> QED
    BY <1>S, <2>1, <2>2, RunPermits DEF PermitConservation
<1>2. ASSUME NEW t \in Tasks, Admitted(t) PROVE PermitConservation'
  <2>1. /\ pc[t] = "waiting" /\ pc' = [pc EXCEPT ![t] = "calling"]
        /\ sem.granted > 0 /\ sem' = Resumed(sem)
    BY <1>2 DEF Admitted, Running, CanResume
  <2>2. Spare(sem') = Spare(sem) - 1
    BY <1>S, <2>1, ResumedLemma
  <2>3. /\ Cardinality(Holders \ {t}) \in Nat
        /\ Cardinality(Holders) = Cardinality(Holders \ {t})
        /\ Cardinality(Holders') = Cardinality(Holders \ {t}) + 1
    BY <2>1, HoldersLemma
  <2>4. Spare(sem') + Cardinality(Holders') = MaxConcurrent
    BY <1>S, <2>2, <2>3 DEF PermitConservation
  <2> QED
    BY <2>4 DEF PermitConservation, Spare
<1>3. ASSUME NEW t \in Tasks, pc[t] = "calling", NEW m, NEW r, RunWithRetry(t, Release(sem), m, r)
      PROVE  PermitConservation'
  <2>1. /\ Cardinality(Holders \ {t}) \in Nat
        /\ Cardinality(Holders) = Cardinality(Holders \ {t}) + 1
    <3> DEFINE others == Holders \ {t}
    <3>1. IsFiniteSet(others) /\ t \notin others /\ Holders = others \cup {t}
      BY <1>3, TasksAssumption, FS_Subset DEF Holders
    <3> HIDE DEF others
    <3>2. Cardinality(Holders) = Cardinality(others) + 1 /\ Cardinality(others) \in Nat
      BY <3>1, FS_AddElement, FS_CardinalityType
    <3> QED
      BY <3>2 DEF others
  <2>2. Spare(Release(sem)) + Cardinality(Holders \ {t}) = MaxConcurrent
    BY <1>S, <2>1 DEF PermitConservation
  <2> QED
    BY <1>S, <1>3, <2>2, RunPermits
<1>4. ASSUME NEW t \in Tasks, pc[t] = "calling", NEW how, Finish(t, how)
      PROVE  PermitConservation'
  BY <1>4, FinishPermits DEF Finish
<1>5. ASSUME NEW t \in Tasks, TransientError(t) \/ RetryAfterBackoff(t)
      PROVE  PermitConservation'
  <2>1. Holders' = Holders /\ sem' = sem
    BY <1>5 DEF TransientError, RetryAfterBackoff, Running, Holders, TypeOK
  <2> QED
    BY <2>1 DEF PermitConservation, Spare
<1>6. ASSUME NEW t \in Tasks, CallReturns(t) PROVE PermitConservation'
  <2>1. CASE TransientError(t)
    BY <2>1, <1>5
  <2>2. CASE RetriesExhausted(t) \/ OtherError(t)
    BY <2>2, <1>4 DEF RetriesExhausted, OtherError, Running
  <2>3. CASE BadRequest(t)
    <3>1. pc[t] = "calling" /\ mode[t] \in Modes
      BY <2>3 DEF BadRequest, Running, TypeOK
    <3> QED
      BY <2>3, <3>1, <1>3, <1>4 DEF BadRequest, Modes
  <2>4. CASE Respond(t)
    <3>1. PICK u \in Usages :
             \/ ShapelessResponse(t, u)
             \/ \E body \in Bodies : ValidResponse(t, u, body) \/ InvalidResponse(t, u, body)
      BY <2>4 DEF Respond
    <3> QED
      BY <3>1, <1>3, <1>4 DEF ShapelessResponse, ValidResponse, InvalidResponse, Running
  <2> QED
    BY <1>6, <2>1, <2>2, <2>3, <2>4 DEF CallReturns
<1>7. ASSUME NEW t \in Tasks, Unwind(t) PROVE PermitConservation'
  <2>1. CASE pc[t] \in {"calling", "backoff"} /\ sem' = Release(sem)
    BY <1>7, <2>1, FinishPermits DEF Unwind
  <2>2. CASE pc[t] = "waiting" /\ CanResume(sem, t) /\ sem' = ResumedCancelled(sem)
    <3>1. Spare(sem') = Spare(sem)
      BY <1>S, <2>2, ResumedCancelledLemma DEF CanResume
    <3>2. Holders' = Holders
      BY <1>7, <2>2 DEF Unwind, Holders, TypeOK
    <3> QED
      BY <3>1, <3>2 DEF PermitConservation, Spare
  <2> QED
    BY <1>7, <2>1, <2>2 DEF Unwind
<1>8. CASE CancelAll
  <2>1. Spare(sem') = Spare(sem)
    BY <1>8, <1>S, CancelWaitersLemma DEF CancelAll
  <2>2. Holders' = Holders
    BY <1>8 DEF CancelAll, Dropped, Holders, TypeOK
  <2> QED
    BY <2>1, <2>2 DEF PermitConservation, Spare
<1>9. CASE Terminated \/ UNCHANGED vars
  BY <1>9 DEF Terminated, vars, PermitConservation, Spare, Holders
<1> QED
  BY <1>1, <1>2, <1>5, <1>6, <1>7, <1>8, <1>9 DEF Next, TaskStep

(* No exit from the semaphore's block loses or mints a permit.             *)
THEOREM PermitsConserved == Spec => []PermitConservation
<1>1. TypeOK /\ PermitConservation /\ [Next]_vars => PermitConservation'
  BY PermitStep
<1> QED
  BY PermitInit, TypeCorrect, <1>1, PTL DEF Spec

(* At most llm_max_concurrent tasks have a call in flight or in backoff.   *)
THEOREM ConcurrencyBounded == Spec => []ConcurrencyBound
<1>1. TypeOK /\ PermitConservation => ConcurrencyBound
  <2> SUFFICES ASSUME TypeOK, PermitConservation PROVE ConcurrencyBound
    OBVIOUS
  <2>1. Spare(sem) \in Nat
    BY FieldsLemma DEF TypeOK
  <2>2. Cardinality(Holders) \in Nat
    BY TasksAssumption, FS_Subset, FS_CardinalityType DEF Holders
  <2> QED
    BY <2>1, <2>2 DEF PermitConservation, ConcurrencyBound
<1> QED
  BY TypeCorrect, PermitsConserved, <1>1, PTL
-----------------------------------------------------------------------------
(* The budget of API calls.                                                *)

(* The values of SpentBefore, without a product of two variables.          *)
LEMMA SpentValues ==
    /\ \A r \in {1, 2} : SpentBefore("strict", r) = 0
    /\ SpentBefore("json_object", 1) = MaxRetries
    /\ SpentBefore("json_object", 2) = 2 * MaxRetries
    /\ SpentBefore("plain_text", 1) = 3 * MaxRetries
    /\ SpentBefore("plain_text", 2) = 4 * MaxRetries
BY RetriesAssumption DEF SpentBefore

(* Whatever the mode and round, MaxRetries more calls stay in the budget.  *)
LEMMA SpentBound ==
    ASSUME NEW m \in Modes, NEW r \in {1, 2}
    PROVE  /\ SpentBefore(m, r) \in Nat
           /\ SpentBefore(m, r) + MaxRetries <= 5 * MaxRetries
<1>1. MaxRetries \in Nat
  BY RetriesAssumption
<1> QED
  BY <1>1, SpentValues DEF Modes

(* A task that enters _run_with_retry() within the budget of its new mode  *)
(* and round stays within it.                                              *)
LEMMA RunBudget ==
    ASSUME TypeOK, BudgetInv, NEW t \in Tasks, NEW s, NEW m \in Modes, NEW r \in {1, 2},
           RunWithRetry(t, s, m, r), calls[t] <= SpentBefore(m, r)
    PROVE  BudgetInv'
<1>1. /\ MaxRetries \in Nat /\ MaxRetries >= 1
      /\ SpentBefore(m, r) \in Nat
      /\ SpentBefore(m, r) + MaxRetries <= 5 * MaxRetries
  BY RetriesAssumption, SpentBound
<1>2. /\ mode'[t] = m /\ round'[t] = r /\ attempt'[t] = 1
      /\ \/ pc'[t] = "waiting" /\ calls'[t] = calls[t]
         \/ pc'[t] = "calling" /\ calls'[t] = calls[t] + 1
      /\ calls[t] \in Nat
  BY DEF RunWithRetry, IssueCall, TypeOK
<1>3. ASSUME NEW u \in Tasks, u # t
      PROVE  /\ pc'[u] = pc[u] /\ mode'[u] = mode[u] /\ round'[u] = round[u]
             /\ attempt'[u] = attempt[u] /\ calls'[u] = calls[u]
  BY <1>3 DEF RunWithRetry, IssueCall, TypeOK
<1>4. ASSUME NEW u \in Tasks
      PROVE  /\ pc'[u] = "idle" => calls'[u] = 0
             /\ pc'[u] = "waiting" => calls'[u] <= SpentBefore(mode'[u], round'[u])
             /\ pc'[u] \in {"calling", "backoff"} =>
                  calls'[u] <= SpentBefore(mode'[u], round'[u]) + attempt'[u]
             /\ calls'[u] <= 5 * MaxRetries
  <2>1. CASE u = t
    BY <1>1, <1>2, <2>1
  <2>2. CASE u # t
    BY <1>3, <2>2 DEF BudgetInv
  <2> QED
    BY <2>1, <2>2
<1> QED
  BY <1>4 DEF BudgetInv, SpentBefore

(* A task that ends its request issues nothing more.                       *)
LEMMA FinishBudget ==
    ASSUME TypeOK, BudgetInv, NEW t \in Tasks, pc' = [pc EXCEPT ![t] = "finished"],
           UNCHANGED <<mode, round, attempt, calls>>
    PROVE  BudgetInv'
BY DEF TypeOK, BudgetInv, SpentBefore

(* Every step keeps the budget.                                            *)
LEMMA BudgetStep == TypeOK /\ BudgetInv /\ [Next]_vars => BudgetInv'
<1> SUFFICES ASSUME TypeOK, BudgetInv, [Next]_vars PROVE BudgetInv'
  OBVIOUS
<1>R. MaxRetries \in Nat /\ MaxRetries >= 1
  BY RetriesAssumption
<1>C. ASSUME NEW t \in Tasks, pc[t] = "calling"
      PROVE  /\ mode[t] \in Modes /\ round[t] \in {1, 2} /\ calls[t] \in Nat
             /\ SpentBefore(mode[t], round[t]) \in Nat
             /\ calls[t] <= SpentBefore(mode[t], round[t]) + MaxRetries
  <2>1. mode[t] \in Modes /\ round[t] \in {1, 2} /\ calls[t] \in Nat /\ attempt[t] \in 1..MaxRetries
    BY DEF TypeOK
  <2>2. SpentBefore(mode[t], round[t]) \in Nat
    BY <2>1, SpentBound
  <2>3. calls[t] <= SpentBefore(mode[t], round[t]) + attempt[t]
    BY <1>C DEF BudgetInv
  <2> QED
    BY <1>R, <2>1, <2>2, <2>3
<1>1. ASSUME NEW t \in Tasks, Begin(t) PROVE BudgetInv'
  <2>1. RunWithRetry(t, sem, "strict", 1) /\ calls[t] = 0
    BY <1>1 DEF Begin, Running, BudgetInv
  <2>2. "strict" \in Modes /\ 1 \in {1, 2} /\ calls[t] <= SpentBefore("strict", 1)
    BY <2>1, SpentValues DEF Modes
  <2> QED
    BY <2>1, <2>2, RunBudget
<1>2. ASSUME NEW t \in Tasks, Admitted(t) PROVE BudgetInv'
  <2>1. /\ pc[t] = "waiting" /\ calls[t] \in Nat /\ calls[t] <= SpentBefore(mode[t], round[t])
        /\ mode[t] \in Modes /\ round[t] \in {1, 2} /\ attempt[t] \in 1..MaxRetries
    BY <1>2 DEF Admitted, Running, BudgetInv, TypeOK
  <2>2. /\ SpentBefore(mode[t], round[t]) \in Nat
        /\ SpentBefore(mode[t], round[t]) + MaxRetries <= 5 * MaxRetries
    BY <2>1, SpentBound
  <2>3. /\ calls[t] + 1 <= SpentBefore(mode[t], round[t]) + attempt[t]
        /\ calls[t] + 1 <= 5 * MaxRetries
    BY <1>R, <2>1, <2>2
  <2> QED
    BY <1>2, <2>3 DEF Admitted, IssueCall, BudgetInv, TypeOK, SpentBefore
<1>3. ASSUME NEW t \in Tasks, RetryAfterBackoff(t) PROVE BudgetInv'
  <2>1. /\ pc[t] = "backoff" /\ calls[t] \in Nat
        /\ calls[t] <= SpentBefore(mode[t], round[t]) + attempt[t]
        /\ mode[t] \in Modes /\ round[t] \in {1, 2} /\ attempt[t] \in 1..MaxRetries
        /\ attempt[t] < MaxRetries
    BY <1>3 DEF RetryAfterBackoff, Running, BudgetInv, TypeOK
  <2>2. /\ SpentBefore(mode[t], round[t]) \in Nat
        /\ SpentBefore(mode[t], round[t]) + MaxRetries <= 5 * MaxRetries
    BY <2>1, SpentBound
  <2>3. /\ calls[t] + 1 <= SpentBefore(mode[t], round[t]) + (attempt[t] + 1)
        /\ calls[t] + 1 <= 5 * MaxRetries
    BY <1>R, <2>1, <2>2
  <2> QED
    BY <1>3, <2>3 DEF RetryAfterBackoff, IssueCall, BudgetInv, TypeOK, SpentBefore
<1>4. ASSUME NEW t \in Tasks, CallReturns(t) PROVE BudgetInv'
  <2>1. CASE TransientError(t)
    BY <2>1 DEF TransientError, Running, BudgetInv, TypeOK, SpentBefore
  <2>2. CASE RetriesExhausted(t) \/ OtherError(t)
    BY <2>2, FinishBudget DEF RetriesExhausted, OtherError, Finish
  <2>3. CASE BadRequest(t)
    <3>1. pc[t] = "calling" /\ mode[t] \in Modes /\ round[t] \in {1, 2}
      BY <2>3 DEF BadRequest, Running, TypeOK
    <3>2. CASE mode[t] = "strict"
      <4>1. RunWithRetry(t, Release(sem), "json_object", 1)
        BY <2>3, <3>2 DEF BadRequest
      <4>2. calls[t] <= SpentBefore("json_object", 1)
        BY <1>R, <1>C, <3>1, <3>2, SpentValues
      <4> QED
        BY <4>1, <4>2, RunBudget DEF Modes
    <3>3. CASE mode[t] = "json_object"
      <4>1. RunWithRetry(t, Release(sem), "plain_text", 1)
        BY <2>3, <3>3 DEF BadRequest
      <4>2. calls[t] <= SpentBefore("plain_text", 1)
        BY <1>R, <1>C, <3>1, <3>3, SpentValues
      <4> QED
        BY <4>1, <4>2, RunBudget DEF Modes
    <3>4. CASE mode[t] = "plain_text"
      BY <2>3, <3>4, FinishBudget DEF BadRequest, Finish
    <3> QED
      BY <3>1, <3>2, <3>3, <3>4 DEF Modes
  <2>4. CASE Respond(t)
    <3>1. PICK u \in Usages :
             \/ ShapelessResponse(t, u)
             \/ \E body \in Bodies : ValidResponse(t, u, body) \/ InvalidResponse(t, u, body)
      BY <2>4 DEF Respond
    <3>2. CASE ShapelessResponse(t, u) \/ \E body \in Bodies : ValidResponse(t, u, body)
      BY <3>2, FinishBudget DEF ShapelessResponse, ValidResponse, Finish
    <3>3. ASSUME NEW body \in Bodies, InvalidResponse(t, u, body) PROVE BudgetInv'
      <4>1. CASE mode[t] # "strict" /\ round[t] = 1
        <5>1. RunWithRetry(t, Release(sem), mode[t], 2) /\ pc[t] = "calling"
          BY <3>3, <4>1 DEF InvalidResponse, Running
        <5>2. mode[t] \in Modes /\ calls[t] <= SpentBefore(mode[t], 2)
          BY <1>R, <1>C, <4>1, <5>1, SpentValues DEF Modes
        <5> QED
          BY <5>1, <5>2, RunBudget
      <4>2. CASE ~(mode[t] # "strict" /\ round[t] = 1)
        BY <3>3, <4>2, FinishBudget DEF InvalidResponse, Finish
      <4> QED
        BY <4>1, <4>2
    <3> QED
      BY <3>1, <3>2, <3>3
  <2> QED
    BY <1>4, <2>1, <2>2, <2>3, <2>4 DEF CallReturns
<1>5. ASSUME NEW t \in Tasks, Unwind(t) PROVE BudgetInv'
  BY <1>5, FinishBudget DEF Unwind
<1>6. CASE CancelAll
  <2>1. /\ UNCHANGED <<mode, round, attempt, calls>>
        /\ \A t \in Tasks : pc'[t] = pc[t] \/ pc'[t] = "finished"
    BY <1>6 DEF CancelAll
  <2> QED
    BY <2>1 DEF BudgetInv, SpentBefore
<1>7. CASE Terminated \/ UNCHANGED vars
  BY <1>7 DEF Terminated, vars, BudgetInv, SpentBefore
<1> QED
  BY <1>1, <1>2, <1>3, <1>4, <1>5, <1>6, <1>7 DEF Next, TaskStep

(* The inductive form of the budget, from the initial state on.            *)
THEOREM BudgetHolds == Spec => []BudgetInv
<1>1. Init => BudgetInv
  BY RetriesAssumption DEF Init, BudgetInv
<1>2. TypeOK /\ BudgetInv /\ [Next]_vars => BudgetInv'
  BY BudgetStep
<1> QED
  BY <1>1, <1>2, TypeCorrect, PTL DEF Spec

(* One cluster costs at most 5 * max_retries API calls.                    *)
THEOREM CallsBudgeted == Spec => []CallBudget
<1>1. BudgetInv => CallBudget
  BY DEF BudgetInv, CallBudget
<1> QED
  BY <1>1, BudgetHolds, PTL
-----------------------------------------------------------------------------
(* No barging.                                                             *)

(* A task that re-enters _run_with_retry() right after its release calls   *)
(* at once only if nobody was queued; the other tasks issue nothing.       *)
LEMMA ReenterLemma ==
    ASSUME TypeOK, NEW t \in Tasks, NEW m, NEW r, RunWithRetry(t, Release(sem), m, r),
           NEW u \in Tasks, calls'[u] # calls[u]
    PROVE  sem.waiters = <<>>
<1>1. ~Locked(Release(sem))
  BY DEF RunWithRetry
<1>2. Release(sem).waiters = <<>>
  BY <1>1 DEF Locked
<1>3. Release(sem).waiters = sem.waiters
  BY DEF Release, WakeNext, Sem
<1> QED
  BY <1>2, <1>3

(* No step of the client starts a call past the queue.                     *)
LEMMA BargingStep ==
    TypeOK /\ [Next]_vars =>
        [\A t \in Tasks : pc[t] = "calling" /\ calls'[t] # calls[t] => sem.waiters = <<>>]_vars
<1> SUFFICES ASSUME TypeOK, [Next]_vars, NEW u \in Tasks, pc[u] = "calling", calls'[u] # calls[u]
             PROVE  sem.waiters = <<>>
  OBVIOUS
<1>1. ASSUME NEW t \in Tasks, Begin(t) \/ Admitted(t) \/ RetryAfterBackoff(t) PROVE FALSE
  <2>1. pc[t] # "calling" /\ u # t
    BY <1>1 DEF Begin, Admitted, RetryAfterBackoff, Running
  <2>2. calls' = calls \/ calls' = [calls EXCEPT ![t] = @ + 1]
    BY <1>1 DEF Begin, RunWithRetry, Admitted, RetryAfterBackoff, IssueCall
  <2> QED
    BY <2>1, <2>2 DEF TypeOK
<1>2. ASSUME NEW t \in Tasks, CallReturns(t) PROVE sem.waiters = <<>>
  <2>1. CASE BadRequest(t)
    <3>1. mode[t] \in Modes
      BY DEF TypeOK
    <3> QED
      BY <2>1, <3>1, ReenterLemma DEF BadRequest, Finish, Modes
  <2>2. CASE Respond(t)
    BY <2>2, ReenterLemma DEF Respond, ShapelessResponse, ValidResponse, InvalidResponse, Finish
  <2>3. CASE TransientError(t) \/ RetriesExhausted(t) \/ OtherError(t)
    BY <2>3 DEF TransientError, RetriesExhausted, OtherError, Finish
  <2> QED
    BY <1>2, <2>1, <2>2, <2>3 DEF CallReturns
<1>3. ASSUME NEW t \in Tasks, Unwind(t) PROVE FALSE
  BY <1>3 DEF Unwind
<1>4. CASE CancelAll \/ Terminated \/ UNCHANGED vars
  BY <1>4 DEF CancelAll, Terminated, vars
<1> QED
  BY <1>1, <1>2, <1>3, <1>4 DEF Next, TaskStep

(* A task coming back for another round never overtakes a waiting one.     *)
THEOREM NoBargingHolds == Spec => NoBarging
BY BargingStep, TypeCorrect, PTL DEF Spec, NoBarging

-----------------------------------------------------------------------------
(* The usage that is reported.                                             *)

(* The sums that bound a total, and what a response may do to them: to the *)
(* known bills it adds no more than to the total, and to the total no more *)
(* than to all bills.                                                      *)
LEMMA ResponseLemma ==
    ASSUME UsageTyped, UsageAccounted, NEW t \in Tasks, NEW u \in Usages,
           Billed(t, u), RecordUsage(u)
    PROVE  UsageAccounted'
<1> SUFFICES ASSUME NEW k \in Totals
             PROVE  /\ totals'[k] <= SumFunction(billed'[k])
                    /\ SumFunction(Known(k)') <= totals'[k]
  BY DEF UsageAccounted
<1> DEFINE n == u.bill[k]
           b == billed[k]
           K == Known(k)
           v == IF t \in missed'[k] THEN 0 ELSE b[t] + n
<1>1. n \in Nat /\ b \in [Tasks -> Nat] /\ K \in [Tasks -> Nat]
  BY UsagesAssumption DEF Usage, UsageTyped, Known
<1>2. /\ totals[k] \in Nat /\ b[t] \in Nat /\ v \in Nat /\ K[t] \in Nat
      /\ K[t] = IF t \in missed[k] THEN 0 ELSE b[t]
  BY <1>1 DEF UsageTyped, Known
<1>3. totals[k] <= SumFunction(b) /\ SumFunction(K) <= totals[k]
  BY DEF UsageAccounted
<1>4. SumFunction(b) \in Int /\ SumFunction(K) \in Int
  BY <1>1, TasksAssumption, SumType DEF SumFunction
<1>5. billed'[k] = [b EXCEPT ![t] = b[t] + n]
  BY DEF Billed
<1>6. Known(k)' = [K EXCEPT ![t] = v]
  <2>1. missed'[k] = IF k \in u.counted THEN missed[k] ELSE missed[k] \cup {t}
    BY DEF Billed
  <2>2. \A s \in Tasks : Known(k)'[s] = IF s \in missed'[k] THEN 0 ELSE billed'[k][s]
    BY DEF Known
  <2>3. \A s \in Tasks : billed'[k][s] = IF s = t THEN b[t] + n ELSE b[s]
    BY <1>1, <1>5
  <2>4. \A s \in Tasks \ {t} : K[s] = IF s \in missed[k] THEN 0 ELSE b[s]
    BY DEF Known
  <2>5. \A s \in Tasks : Known(k)'[s] = IF s = t THEN v ELSE K[s]
    BY <2>1, <2>2, <2>3, <2>4
  <2>6. Known(k)' = [s \in Tasks |-> Known(k)'[s]] /\ DOMAIN K = Tasks
    BY DEF Known
  <2> QED  BY <1>1, <2>5, <2>6
<1>7. /\ SumFunction([b EXCEPT ![t] = b[t] + n]) = SumFunction(b) - b[t] + (b[t] + n)
      /\ SumFunction([K EXCEPT ![t] = v]) = SumFunction(K) - K[t] + v
  <2>1. b \in [Tasks -> Int] /\ K \in [Tasks -> Int] /\ b[t] + n \in Int /\ v \in Int
    BY <1>1, <1>2
  <2> HIDE DEF n, b, K, v
  <2> QED  BY <2>1, TasksAssumption, SumExcept
<1>8. /\ totals'[k] = IF k \in u.counted THEN totals[k] + n ELSE totals[k]
      /\ v <= IF k \in u.counted THEN K[t] + n ELSE K[t]
  <2>1. totals'[k] = IF k \in u.counted THEN totals[k] + n ELSE totals[k]
    BY DEF RecordUsage
  <2>2. missed'[k] = IF k \in u.counted THEN missed[k] ELSE missed[k] \cup {t}
    BY DEF Billed
  <2> QED  BY <1>1, <1>2, <2>1, <2>2
<1>9. /\ SumFunction(billed'[k]) = SumFunction(b) - b[t] + (b[t] + n)
      /\ SumFunction(Known(k)') = SumFunction(K) - K[t] + v
  BY <1>5, <1>6, <1>7
<1> HIDE DEF n, b, K, v
<1> QED  BY <1>1, <1>2, <1>3, <1>4, <1>8, <1>9

(* A step without a response changes neither the bills nor the totals.     *)
LEMMA UsageStep ==
    TypeOK /\ UsageAccounted /\ [Next]_vars => UsageAccounted'
<1> SUFFICES ASSUME TypeOK, UsageAccounted, [Next]_vars PROVE UsageAccounted'
  OBVIOUS
<1>1. ASSUME NEW t \in Tasks, Respond(t) PROVE UsageAccounted'
  <2>1. PICK u \in Usages : Billed(t, u) /\ RecordUsage(u)
    BY <1>1 DEF Respond, ShapelessResponse, ValidResponse, InvalidResponse
  <2>2. UsageTyped
    BY DEF TypeOK, UsageTyped
  <2> QED  BY <2>1, <2>2, ResponseLemma
<1>2. CASE UNCHANGED <<totals, billed, missed>>
  BY <1>2 DEF UsageAccounted, Known
<1>3. ASSUME NEW t \in Tasks, Begin(t) \/ (TaskStep(t) /\ ~Respond(t))
      PROVE  UNCHANGED <<totals, billed, missed>>
  BY <1>3 DEF Begin, TaskStep, CallReturns, Admitted, RetryAfterBackoff, Unwind, TransientError,
              RetriesExhausted, BadRequest, OtherError
<1>4. CASE CancelAll \/ Terminated \/ UNCHANGED vars
  BY <1>2, <1>4 DEF CancelAll, Terminated, vars
<1> QED
  BY <1>1, <1>2, <1>3, <1>4 DEF Next

(* Nothing is billed initially.                                            *)
LEMMA UsageInit == Init => UsageAccounted
<1> SUFFICES ASSUME Init, NEW k \in Totals
             PROVE  /\ totals[k] <= SumFunction(billed[k])
                    /\ SumFunction(Known(k)) <= totals[k]
  BY DEF UsageAccounted
<1> DEFINE zero == [t \in Tasks |-> 0]
<1>1. SumFunctionOnSet(zero, Tasks) = 0
  <2> DEFINE P == [t \in Tasks |-> {}]
  <2>1. \A t \in Tasks : IsFiniteSet(P[t]) /\ zero[t] = Cardinality(P[t])
    BY FS_EmptySet
  <2>2. \A t, u \in Tasks : t # u => P[t] \cap P[u] = {}
    OBVIOUS
  <2>3. UNION {P[t] : t \in Tasks} = {}
    OBVIOUS
  <2> HIDE DEF P, zero
  <2>4. SumFunctionOnSet(zero, Tasks) = Cardinality(UNION {P[t] : t \in Tasks})
    BY <2>1, <2>2, TasksAssumption, SumOfParts
  <2> QED  BY <2>3, <2>4, FS_EmptySet
<1>2. billed[k] = zero /\ Known(k) = zero /\ totals[k] = 0 /\ DOMAIN zero = Tasks
  BY DEF Init, Known
<1> HIDE DEF zero
<1>3. SumFunction(zero) = 0
  BY <1>1, <1>2 DEF SumFunction
<1> QED
  BY <1>2, <1>3

(* The usage the client reports, for any number of tasks and any responses *)
(* and usage blocks: never more than was billed, and never less than what  *)
(* was billed to the tasks whose usage blocks could be read, whether their *)
(* content was valid or not and however their requests ended.              *)
THEOREM UsageReported == Spec => []UsageAccounted
BY UsageInit, UsageStep, TypeCorrect, PTL DEF Spec
=============================================================================
