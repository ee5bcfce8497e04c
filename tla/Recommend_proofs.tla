-------------------------- MODULE Recommend_proofs --------------------------
(***************************************************************************)
(* Proofs about Recommend for any number of clusters, permits and retries: *)
(* what LLMClient guarantees still holds under the stage, the progress is  *)
(* exact, incidents are honest, an abort is final for the API, and the     *)
(* stage implements the safety part of IncidentStage.                      *)
(***************************************************************************)
EXTENDS Recommend, LLMClient_proofs

-----------------------------------------------------------------------------
(* What a step of the stage is for the LLM client.                         *)

(* Apart from a retriever that raises, it is a step of LLMClient.          *)
LEMMA StageStepLemma ==
    [RecommendNext]_allVars => [Next]_vars \/ \E t \in Tasks : RetrieverRaises(t)
<1> SUFFICES ASSUME [RecommendNext]_allVars, ~ \E t \in Tasks : RetrieverRaises(t)
             PROVE  [Next]_vars
  OBVIOUS
<1>1. CASE \E t \in Tasks : RetrieverAnswers(t)
  BY <1>1 DEF RetrieverAnswers, Retrieved, Next
<1>2. CASE \E t \in Tasks : LLMStep(t)
  BY <1>2 DEF LLMStep, Next
<1>3. CASE RunCancelled
  BY <1>3 DEF RunCancelled, Next
<1>4. CASE GatherReturns \/ StageOver \/ UNCHANGED allVars
  BY <1>4 DEF GatherReturns, StageOver, allVars
<1> QED
  BY <1>1, <1>2, <1>3, <1>4 DEF RecommendNext

(* A step of a task concerns this task, which is inside a request.         *)
LEMMA TaskStepLemma ==
    ASSUME TypeOK, NEW t \in Tasks, TaskStep(t)
    PROVE  /\ pc[t] \in {"waiting", "calling", "backoff"}
           /\ pc'[t] \in {"waiting", "calling", "backoff", "finished"}
           /\ \A u \in Tasks : u # t => pc'[u] = pc[u] /\ outcome'[u] = outcome[u]
           /\ pc'[t] = "finished" => outcome'[t] \in {"ok", "cancelled"} \cup Failures
           /\ cancelled' = cancelled
           /\ t \in cancelled => calls' = calls
<1> DEFINE Goal == /\ pc[t] \in {"waiting", "calling", "backoff"}
                   /\ pc'[t] \in {"waiting", "calling", "backoff", "finished"}
                   /\ \A u \in Tasks : u # t => pc'[u] = pc[u] /\ outcome'[u] = outcome[u]
                   /\ pc'[t] = "finished" => outcome'[t] \in {"ok", "cancelled"} \cup Failures
                   /\ cancelled' = cancelled
                   /\ t \in cancelled => calls' = calls
<1>1. ASSUME NEW s, NEW m, NEW r, RunWithRetry(t, s, m, r), Running(t, "calling") PROVE Goal
  BY <1>1 DEF RunWithRetry, Running, TypeOK
<1>2. ASSUME NEW how \in {"ok"} \cup Failures, Finish(t, how), Running(t, "calling") PROVE Goal
  BY <1>2 DEF Finish, Running, TypeOK
<1>3. CASE Admitted(t) \/ RetryAfterBackoff(t) \/ TransientError(t)
  BY <1>3 DEF Admitted, RetryAfterBackoff, TransientError, Running, TypeOK
<1>4. CASE RetriesExhausted(t) \/ OtherError(t)
  BY <1>2, <1>4 DEF RetriesExhausted, OtherError, Failures
<1>5. CASE BadRequest(t)
  <2>1. mode[t] \in {"strict", "json_object", "plain_text"} /\ Running(t, "calling")
    BY <1>5 DEF BadRequest, TypeOK, Modes
  <2>2. \/ RunWithRetry(t, Release(sem), "json_object", 1)
        \/ RunWithRetry(t, Release(sem), "plain_text", 1)
        \/ Finish(t, "badRequest")
    BY <1>5, <2>1 DEF BadRequest
  <2> QED
    BY <1>1, <1>2, <2>1, <2>2 DEF Failures
<1>6. CASE Respond(t)
  <2>1. PICK u \in Usages : \/ ShapelessResponse(t, u)
                                \/ \E body \in Bodies : ValidResponse(t, u, body)
                                                        \/ InvalidResponse(t, u, body)
    BY <1>6 DEF Respond
  <2>2. CASE ShapelessResponse(t, u)
    BY <1>2, <2>2 DEF ShapelessResponse, Failures
  <2>3. ASSUME NEW body \in Bodies, ValidResponse(t, u, body) PROVE Goal
    BY <1>2, <2>3 DEF ValidResponse
  <2>4. ASSUME NEW body \in Bodies, InvalidResponse(t, u, body) PROVE Goal
    BY <1>1, <1>2, <2>4 DEF InvalidResponse, Failures
  <2> QED
    BY <2>1, <2>2, <2>3, <2>4
<1>7. CASE Unwind(t)
  BY <1>7 DEF Unwind, TypeOK
<1> QED
  BY <1>3, <1>4, <1>5, <1>6, <1>7 DEF TaskStep, CallReturns

(* A step of the stage keeps the types of the LLM client.                  *)
LEMMA ClientType == TypeOK /\ [RecommendNext]_allVars => TypeOK'
<1> SUFFICES ASSUME TypeOK, [RecommendNext]_allVars PROVE TypeOK'
  OBVIOUS
<1>1. ASSUME NEW t \in Tasks, RetrieverRaises(t) PROVE TypeOK'
  BY <1>1 DEF RetrieverRaises, TypeOK
<1> QED
  BY <1>1, StageStepLemma, TypeStep

(* A retriever that raises holds no permit and has issued no call.         *)
LEMMA RaisesLemma ==
    ASSUME TypeOK, NEW t \in Tasks, RetrieverRaises(t)
    PROVE  Holders' = Holders /\ UNCHANGED <<sem, mode, round, attempt, calls>>
BY DEF RetrieverRaises, Running, Holders, TypeOK

(* The permits of the client are conserved under the stage as well.        *)
LEMMA StagePermits ==
    TypeOK /\ PermitConservation /\ [RecommendNext]_allVars => PermitConservation'
<1> SUFFICES ASSUME TypeOK, PermitConservation, [RecommendNext]_allVars
             PROVE  PermitConservation'
  OBVIOUS
<1>1. ASSUME NEW t \in Tasks, RetrieverRaises(t) PROVE PermitConservation'
  BY <1>1, RaisesLemma DEF PermitConservation
<1> QED
  BY <1>1, StageStepLemma, PermitStep

(* And so is the budget of calls.                                          *)
LEMMA StageBudget == TypeOK /\ BudgetInv /\ [RecommendNext]_allVars => BudgetInv'
<1> SUFFICES ASSUME TypeOK, BudgetInv, [RecommendNext]_allVars PROVE BudgetInv'
  OBVIOUS
<1>1. ASSUME NEW t \in Tasks, RetrieverRaises(t) PROVE BudgetInv'
  <2>1. \A u \in Tasks : pc'[u] = IF u = t THEN "finished" ELSE pc[u]
    BY <1>1 DEF RetrieverRaises, TypeOK
  <2> QED
    BY <1>1, <2>1, RaisesLemma DEF BudgetInv
<1> QED
  BY <1>1, StageStepLemma, BudgetStep

(* However many clusters are gathered, whatever their retrievers do and    *)
(* whenever the run is cancelled, at most llm_max_concurrent of them hold  *)
(* a permit and none issues more than 5 * max_retries calls.               *)
THEOREM StageKeepsLimits == RecommendSpec => [](PermitConservation /\ CallBudget)
<1>1. RecommendInit => TypeOK /\ PermitConservation /\ BudgetInv
  <2>1. Init => BudgetInv
    BY RetriesAssumption DEF Init, BudgetInv
  <2> QED
    BY <2>1, TypeInit, PermitInit DEF RecommendInit
<1>2. BudgetInv => CallBudget
  BY DEF BudgetInv, CallBudget
<1> QED
  BY <1>1, <1>2, ClientType, StagePermits, StageBudget, PTL DEF RecommendSpec

(* What the report of a run says of the LLM's usage is bounded as the      *)
(* client promises, also when retrievers raise and the run is cancelled.   *)
THEOREM StageKeepsUsage == RecommendSpec => []UsageAccounted
<1>1. RecommendInit => TypeOK /\ UsageAccounted
  BY TypeInit, UsageInit DEF RecommendInit
<1>2. TypeOK /\ UsageAccounted /\ [RecommendNext]_allVars => UsageAccounted'
  <2>1. (\E t \in Tasks : RetrieverRaises(t)) /\ UsageAccounted => UsageAccounted'
    BY DEF RetrieverRaises, UsageAccounted, Known
  <2> QED
    BY <2>1, StageStepLemma, UsageStep
<1> QED
  BY <1>1, <1>2, ClientType, PTL DEF RecommendSpec

(* No cluster's next round overtakes another cluster's queued request, in  *)
(* whatever order the retrievers of the clusters answer, raise or end.     *)
THEOREM StageKeepsOrder == RecommendSpec => NoBarging
<1>1. RecommendInit => TypeOK
  BY TypeInit DEF RecommendInit
<1>2. TypeOK /\ [RecommendNext]_allVars =>
        [\A t \in Tasks : pc[t] = "calling" /\ calls'[t] # calls[t] => sem.waiters = <<>>]_vars
  <2>1. (\E t \in Tasks : RetrieverRaises(t)) => UNCHANGED calls
    BY DEF RetrieverRaises
  <2> QED
    BY <2>1, StageStepLemma, BargingStep
<1> QED
  BY <1>1, <1>2, ClientType, PTL DEF RecommendSpec, NoBarging

(* The coroutine of a cluster follows its request, and the incident of a   *)
(* cluster says how the request ended; a stage that returned has all of    *)
(* them, and an aborted one has cancelled whoever is still running.        *)
StageInv ==
    /\ \A t \in Tasks :
          /\ gen[t] = "retrieving" <=> pc[t] = "idle"
          /\ gen[t] \in {"returned", "raised", "cancelled"} <=> pc[t] = "finished"
          /\ gen[t] = "returned" =>
                /\ outcome[t] \in {"ok"} \cup Failures
                /\ incident[t] = ReportFor(chunks[t], outcome[t])
          /\ gen[t] # "returned" => incident[t] = NoIncident
    /\ stage = "returned" => \A t \in Tasks : gen[t] = "returned"
    /\ stage = "aborted" => \A t \in Tasks : pc[t] # "finished" => t \in cancelled

(* The report of a finished request is an incident.                        *)
LEMMA ReportLemma ==
    ASSUME NEW found \in {"files", "none"}, NEW how \in Outcomes
    PROVE  /\ ReportFor(found, how) \in [playbooks   : {"absent", "empty", "retrieved", "cited"},
                                         unavailable : BOOLEAN, reason : Outcomes]
           /\ ReportFor(found, how) # NoIncident
           /\ ReportFor(found, how).unavailable = (how # "ok")
           /\ ReportFor(found, how).playbooks = "cited" => found = "none" /\ how = "ok"
BY DEF ReportFor, NoIncident

(* One more number is heard.                                               *)
LEMMA CountLemma ==
    ASSUME NEW n \in Nat
    PROVE  Append([i \in 1..n |-> i], n + 1) = [i \in 1..(n + 1) |-> i]
<1> DEFINE s == [i \in 1..n |-> i]
<1>1. s \in Seq(Nat) /\ Len(s) = n
  OBVIOUS
<1> QED
  BY <1>1

(* The types and the invariant hold initially.                             *)
LEMMA StageInvInit == RecommendInit => RecommendTypeOK /\ StageInv
<1> SUFFICES ASSUME RecommendInit PROVE RecommendTypeOK /\ StageInv
  OBVIOUS
<1>1. TypeOK
  BY TypeInit DEF RecommendInit
<1>2. NoIncident \in [playbooks : {"absent", "empty", "retrieved", "cited"},
                      unavailable : BOOLEAN, reason : Outcomes]
  BY DEF NoIncident, Outcomes
<1> QED
  BY <1>1, <1>2 DEF RecommendInit, Init, RecommendTypeOK, StageInv

(* The answer of a retriever: a request begins, or the stage fails.        *)
LEMMA RetrieverStage ==
    ASSUME RecommendTypeOK, StageInv, TypeOK', NEW t \in Tasks, RetrieverAnswers(t)
    PROVE  RecommendTypeOK' /\ StageInv'
<1>1. ASSUME NEW found \in {"files", "none"}, Retrieved(t, found)
      PROVE  RecommendTypeOK' /\ StageInv'
  <2>1. /\ pc[t] = "idle" /\ gen[t] = "retrieving" /\ t \notin cancelled
        /\ gen' = [gen EXCEPT ![t] = "llm"] /\ chunks' = [chunks EXCEPT ![t] = found]
        /\ UNCHANGED <<incident, done, progress, stage, outcome, cancelled>>
    BY <1>1 DEF Retrieved, Begin, Running, RunWithRetry
  <2>2. /\ pc'[t] \in {"waiting", "calling"}
        /\ \A u \in Tasks : u # t => pc'[u] = pc[u]
    BY <1>1 DEF Retrieved, Begin, RunWithRetry, RecommendTypeOK, TypeOK
  <2>3. RecommendTypeOK'
    BY <2>1 DEF RecommendTypeOK
  <2>4. StageInv'
    BY <2>1, <2>2 DEF StageInv, RecommendTypeOK
  <2> QED
    BY <2>3, <2>4
<1>2. CASE RetrieverRaises(t)
  <2>1. /\ pc[t] = "idle" /\ gen[t] = "retrieving"
        /\ gen' = [gen EXCEPT ![t] = "raised"] /\ pc' = [pc EXCEPT ![t] = "finished"]
        /\ stage' = IF stage = "gathering" THEN "failed" ELSE stage
        /\ UNCHANGED <<incident, done, progress, outcome, cancelled, chunks>>
    BY <1>2 DEF RetrieverRaises, Running
  <2>2. RecommendTypeOK'
    BY <2>1 DEF RecommendTypeOK
  <2>3. StageInv'
    BY <2>1 DEF StageInv, RecommendTypeOK, TypeOK
  <2> QED
    BY <2>2, <2>3
<1> QED
  BY <1>1, <1>2 DEF RetrieverAnswers

(* A step of a cluster's request: its end leads to the report.             *)
LEMMA LLMStage ==
    ASSUME RecommendTypeOK, StageInv, TypeOK', NEW t \in Tasks, LLMStep(t)
    PROVE  /\ RecommendTypeOK' /\ StageInv'
           /\ \/ UNCHANGED <<incident, done, progress, stage>>
              \/ /\ done' = done + 1 /\ progress' = Append(progress, done + 1)
                 /\ ~HasIncident(t) /\ stage' = stage /\ stage # "returned"
                 /\ \E r : r # NoIncident /\ incident' = [incident EXCEPT ![t] = r]
<1>1. /\ pc[t] \in {"waiting", "calling", "backoff"}
      /\ pc'[t] \in {"waiting", "calling", "backoff", "finished"}
      /\ \A u \in Tasks : u # t => pc'[u] = pc[u] /\ outcome'[u] = outcome[u]
      /\ pc'[t] = "finished" => outcome'[t] \in {"ok", "cancelled"} \cup Failures
      /\ cancelled' = cancelled
  BY TaskStepLemma DEF LLMStep, RecommendTypeOK
<1>2. gen[t] = "llm" /\ incident[t] = NoIncident
  BY <1>1 DEF StageInv, RecommendTypeOK
<1>3. CASE pc'[t] # "finished"
  <2>1. UNCHANGED <<gen, chunks, incident, done, progress, stage>>
    BY <1>3 DEF LLMStep, genVars
  <2>2. RecommendTypeOK'
    BY <2>1 DEF RecommendTypeOK
  <2>3. ASSUME NEW u \in Tasks
        PROVE  /\ gen'[u] = "retrieving" <=> pc'[u] = "idle"
               /\ gen'[u] \in {"returned", "raised", "cancelled"} <=> pc'[u] = "finished"
               /\ gen'[u] = "returned" =>
                     /\ outcome'[u] \in {"ok"} \cup Failures
                     /\ incident'[u] = ReportFor(chunks'[u], outcome'[u])
               /\ gen'[u] # "returned" => incident'[u] = NoIncident
               /\ stage' = "returned" => gen'[u] = "returned"
               /\ stage' = "aborted" /\ pc'[u] # "finished" => u \in cancelled'
    BY <1>1, <1>2, <1>3, <2>1 DEF StageInv
  <2>4. StageInv'
    BY <2>3 DEF StageInv
  <2> QED
    BY <2>1, <2>2, <2>4
<1>4. CASE pc'[t] = "finished" /\ outcome'[t] = "cancelled"
  <2>1. /\ gen' = [gen EXCEPT ![t] = "cancelled"]
        /\ UNCHANGED <<chunks, incident, done, progress, stage>>
    BY <1>4 DEF LLMStep, Continue
  <2>2. RecommendTypeOK'
    BY <2>1 DEF RecommendTypeOK
  <2>3. ASSUME NEW u \in Tasks
        PROVE  /\ gen'[u] = "retrieving" <=> pc'[u] = "idle"
               /\ gen'[u] \in {"returned", "raised", "cancelled"} <=> pc'[u] = "finished"
               /\ gen'[u] = "returned" =>
                     /\ outcome'[u] \in {"ok"} \cup Failures
                     /\ incident'[u] = ReportFor(chunks'[u], outcome'[u])
               /\ gen'[u] # "returned" => incident'[u] = NoIncident
               /\ stage' = "returned" => gen'[u] = "returned"
               /\ stage' = "aborted" /\ pc'[u] # "finished" => u \in cancelled'
    <3>1. gen'[u] = IF u = t THEN "cancelled" ELSE gen[u]
      BY <2>1 DEF RecommendTypeOK
    <3>2. CASE u = t
      BY <1>1, <1>2, <1>4, <2>1, <3>1, <3>2 DEF StageInv
    <3>3. CASE u # t
      BY <1>1, <1>2, <2>1, <3>1, <3>3 DEF StageInv
    <3> QED
      BY <3>2, <3>3
  <2>4. StageInv'
    BY <2>3 DEF StageInv
  <2> QED
    BY <2>1, <2>2, <2>4
<1>5. CASE pc'[t] = "finished" /\ outcome'[t] # "cancelled"
  <2> DEFINE r == ReportFor(chunks[t], outcome'[t])
  <2>1. /\ gen' = [gen EXCEPT ![t] = "returned"]
        /\ incident' = [incident EXCEPT ![t] = r]
        /\ done' = done + 1 /\ progress' = Append(progress, done + 1)
        /\ UNCHANGED <<chunks, stage>>
    BY <1>5 DEF LLMStep, Continue
  <2>2. outcome'[t] \in {"ok"} \cup Failures /\ outcome'[t] \in Outcomes
    BY <1>1, <1>5 DEF Outcomes
  <2>3. chunks[t] \in {"files", "none"}
    BY DEF RecommendTypeOK
  <2>4. /\ r \in [playbooks   : {"absent", "empty", "retrieved", "cited"},
                  unavailable : BOOLEAN, reason : Outcomes]
        /\ r # NoIncident
    BY <2>2, <2>3, ReportLemma
  <2> HIDE DEF r
  <2>5. done' \in Nat /\ progress' \in Seq(Nat)
    BY <2>1, AppendProperties DEF RecommendTypeOK
  <2>6. RecommendTypeOK'
    BY <2>1, <2>4, <2>5 DEF RecommendTypeOK
  <2>7. ASSUME NEW u \in Tasks
        PROVE  /\ gen'[u] = "retrieving" <=> pc'[u] = "idle"
               /\ gen'[u] \in {"returned", "raised", "cancelled"} <=> pc'[u] = "finished"
               /\ gen'[u] = "returned" =>
                     /\ outcome'[u] \in {"ok"} \cup Failures
                     /\ incident'[u] = ReportFor(chunks'[u], outcome'[u])
               /\ gen'[u] # "returned" => incident'[u] = NoIncident
               /\ stage' = "returned" => gen'[u] = "returned"
               /\ stage' = "aborted" /\ pc'[u] # "finished" => u \in cancelled'
    <3>1. CASE u = t
      BY <1>5, <2>1, <2>2, <3>1 DEF StageInv, RecommendTypeOK, r
    <3>2. CASE u # t
      BY <1>1, <2>1, <3>2 DEF StageInv, RecommendTypeOK
    <3> QED
      BY <3>1, <3>2
  <2>8. StageInv'
    BY <2>7 DEF StageInv
  <2>9. stage # "returned"
    BY <1>2 DEF StageInv
  <2> QED
    BY <1>2, <2>1, <2>4, <2>6, <2>8, <2>9 DEF HasIncident
<1> QED
  BY <1>3, <1>4, <1>5

(* asyncio.run() cancels whatever is left.                                 *)
LEMMA CancelStage ==
    ASSUME RecommendTypeOK, StageInv, TypeOK', RunCancelled
    PROVE  RecommendTypeOK' /\ StageInv'
<1>1. /\ stage \in {"gathering", "failed"} /\ stage' = "aborted"
      /\ UNCHANGED <<chunks, incident, done, progress>>
      /\ gen' = [t \in Tasks |-> IF pc'[t] = "finished" /\ pc[t] # "finished"
                                 THEN "cancelled" ELSE gen[t]]
  BY DEF RunCancelled
<1>2. RecommendTypeOK'
  BY <1>1 DEF RecommendTypeOK
<1>3. ASSUME NEW u \in Tasks
      PROVE  /\ pc'[u] = pc[u] \/ pc'[u] = "finished"
             /\ pc[u] = "idle" => pc'[u] = "finished"
             /\ pc[u] = "finished" => pc'[u] = "finished" /\ outcome'[u] = outcome[u]
             /\ pc[u] # "finished" => u \in cancelled'
  <2>1. CASE \E t \in Tasks : pc[t] # "finished"
    BY <2>1 DEF RunCancelled, CancelAll, Dropped
  <2>2. CASE ~ \E t \in Tasks : pc[t] # "finished"
    BY <2>2 DEF RunCancelled, vars
  <2> QED
    BY <2>1, <2>2
<1>4. ASSUME NEW u \in Tasks
      PROVE  /\ gen'[u] = "retrieving" <=> pc'[u] = "idle"
             /\ gen'[u] \in {"returned", "raised", "cancelled"} <=> pc'[u] = "finished"
             /\ gen'[u] = "returned" =>
                   /\ outcome'[u] \in {"ok"} \cup Failures
                   /\ incident'[u] = ReportFor(chunks'[u], outcome'[u])
             /\ gen'[u] # "returned" => incident'[u] = NoIncident
             /\ pc'[u] # "finished" => u \in cancelled'
  <2>1. /\ gen[u] = "retrieving" <=> pc[u] = "idle"
        /\ gen[u] \in {"returned", "raised", "cancelled"} <=> pc[u] = "finished"
        /\ gen[u] = "returned" =>
              /\ outcome[u] \in {"ok"} \cup Failures
              /\ incident[u] = ReportFor(chunks[u], outcome[u])
        /\ gen[u] # "returned" => incident[u] = NoIncident
    BY DEF StageInv
  <2>2. CASE pc[u] = "finished"
    BY <1>1, <1>3, <2>1, <2>2
  <2>3. CASE pc[u] # "finished"
    BY <1>1, <1>3, <2>1, <2>3
  <2> QED
    BY <2>2, <2>3
<1>5. StageInv'
  BY <1>1, <1>4 DEF StageInv
<1> QED
  BY <1>2, <1>5

(* Every step keeps the types and the invariant.                           *)
LEMMA StageInvStep ==
    RecommendTypeOK /\ StageInv /\ [RecommendNext]_allVars => RecommendTypeOK' /\ StageInv'
<1> SUFFICES ASSUME RecommendTypeOK, StageInv, [RecommendNext]_allVars
             PROVE  RecommendTypeOK' /\ StageInv'
  OBVIOUS
<1>1. TypeOK'
  BY ClientType DEF RecommendTypeOK
<1>2. CASE GatherReturns
  <2>1. RecommendTypeOK'
    BY <1>1, <1>2 DEF GatherReturns, RecommendTypeOK
  <2>2. StageInv'
    BY <1>2 DEF GatherReturns, vars, StageInv
  <2> QED
    BY <2>1, <2>2
<1>3. CASE StageOver \/ UNCHANGED allVars
  <2>1. RecommendTypeOK'
    BY <1>1, <1>3 DEF StageOver, allVars, genVars, RecommendTypeOK
  <2>2. StageInv'
    BY <1>3 DEF StageOver, allVars, vars, genVars, StageInv
  <2> QED
    BY <2>1, <2>2
<1> QED
  BY <1>1, <1>2, <1>3, RetrieverStage, LLMStage, CancelStage DEF RecommendNext

(* Type correctness of the stage.                                          *)
THEOREM RecommendTypeCorrect == RecommendSpec => []RecommendTypeOK
BY StageInvInit, StageInvStep, PTL DEF RecommendSpec

(* No cluster's report hides a failed request, or shows a playbook that    *)
(* the LLM made up while retrieval had found files.                        *)
THEOREM IncidentsHonest == RecommendSpec => []HonestIncident
<1>1. RecommendTypeOK /\ StageInv => HonestIncident
  <2> SUFFICES ASSUME RecommendTypeOK, StageInv, NEW t \in Tasks, HasIncident(t)
               PROVE  /\ incident[t].unavailable <=> outcome[t] \in Failures
                      /\ incident[t].playbooks = "cited" => chunks[t] = "none"
    BY DEF HonestIncident
  <2>1. /\ outcome[t] \in {"ok"} \cup Failures /\ outcome[t] \in Outcomes
        /\ incident[t] = ReportFor(chunks[t], outcome[t])
    BY DEF StageInv, HasIncident, Outcomes
  <2>2. chunks[t] \in {"files", "none"}
    BY DEF RecommendTypeOK
  <2>3. "ok" \notin Failures
    BY DEF Failures
  <2> QED
    BY <2>1, <2>2, <2>3, ReportLemma
<1> QED
  BY <1>1, StageInvInit, StageInvStep, PTL DEF RecommendSpec

-----------------------------------------------------------------------------
(* The progress callback.                                                  *)

(* Only the report of a cluster touches the incidents and the counter.     *)
LEMMA ReportingLemma ==
    ASSUME RecommendTypeOK, StageInv, [RecommendNext]_allVars
    PROVE  \/ UNCHANGED <<incident, done, progress>>
           \/ /\ stage' = stage /\ stage # "returned"
              /\ done' = done + 1 /\ progress' = Append(progress, done + 1)
              /\ \E t \in Tasks \ Produced : Produced' = Produced \cup {t}
<1>1. ASSUME NEW t \in Tasks, LLMStep(t), ~UNCHANGED <<incident, done, progress>>
      PROVE  /\ stage' = stage /\ stage # "returned"
             /\ done' = done + 1 /\ progress' = Append(progress, done + 1)
             /\ t \notin Produced /\ Produced' = Produced \cup {t}
  <2>1. TypeOK'
    BY ClientType DEF RecommendTypeOK
  <2>2. /\ done' = done + 1 /\ progress' = Append(progress, done + 1)
        /\ ~HasIncident(t) /\ stage' = stage /\ stage # "returned"
        /\ \E r : r # NoIncident /\ incident' = [incident EXCEPT ![t] = r]
    BY <1>1, <2>1, LLMStage
  <2>3. PICK r : r # NoIncident /\ incident' = [incident EXCEPT ![t] = r]
    BY <2>2
  <2>4. Produced' = Produced \cup {t}
    BY <2>3 DEF Produced, HasIncident, RecommendTypeOK
  <2> QED
    BY <2>2, <2>4 DEF Produced
<1>2. CASE \E t \in Tasks : LLMStep(t)
  BY <1>1, <1>2 DEF Produced
<1>3. CASE (\E t \in Tasks : RetrieverAnswers(t)) \/ GatherReturns \/ RunCancelled \/ StageOver
           \/ UNCHANGED allVars
  BY <1>3 DEF RetrieverAnswers, Retrieved, RetrieverRaises, GatherReturns, RunCancelled,
              StageOver, allVars, genVars
<1> QED
  BY <1>2, <1>3 DEF RecommendNext

(* The counter and the callback start together.                            *)
LEMMA ProgressInit == RecommendInit => ProgressExact
<1> SUFFICES ASSUME RecommendInit PROVE ProgressExact
  OBVIOUS
<1>1. Produced = {}
  BY DEF RecommendInit, Produced, HasIncident
<1>2. done = 0 /\ progress = <<>>
  BY DEF RecommendInit
<1>3. progress = [i \in 1..0 |-> i]
  BY <1>2
<1> QED
  BY <1>1, <1>2, <1>3, FS_EmptySet DEF ProgressExact

(* Every step keeps them together.                                         *)
LEMMA ProgressStep ==
    RecommendTypeOK /\ StageInv /\ ProgressExact /\ [RecommendNext]_allVars => ProgressExact'
<1> SUFFICES ASSUME RecommendTypeOK, StageInv, ProgressExact, [RecommendNext]_allVars
             PROVE  ProgressExact'
  OBVIOUS
<1>1. CASE UNCHANGED <<incident, done, progress>>
  BY <1>1 DEF ProgressExact, Produced, HasIncident
<1>2. CASE /\ done' = done + 1 /\ progress' = Append(progress, done + 1)
           /\ \E t \in Tasks \ Produced : Produced' = Produced \cup {t}
  <2>1. PICK t \in Tasks \ Produced : Produced' = Produced \cup {t}
    BY <1>2
  <2>2. IsFiniteSet(Produced)
    BY TasksAssumption, FS_Subset DEF Produced
  <2>3. Cardinality(Produced \cup {t}) = Cardinality(Produced) + 1
    BY <2>2, FS_AddElement
  <2>4. done \in Nat /\ progress = [i \in 1..done |-> i]
    BY DEF ProgressExact, RecommendTypeOK
  <2>5. progress' = [i \in 1..(done + 1) |-> i]
    BY <1>2, <2>4, CountLemma
  <2> QED
    BY <1>2, <2>1, <2>3, <2>5 DEF ProgressExact
<1> QED
  BY <1>1, <1>2, ReportingLemma

(* However many clusters' tasks interleave, the callback hears 1, 2, 3 ... *)
(* and the last number is the number of incidents that exist.              *)
THEOREM ProgressIsExact == RecommendSpec => []ProgressExact
BY StageInvInit, StageInvStep, ProgressInit, ProgressStep, PTL DEF RecommendSpec
-----------------------------------------------------------------------------
(* After an abort.                                                         *)

(* An aborted stage has cancelled every task that is still inside a        *)
(* request, so that all such a task can do is unwind.                      *)
LEMMA AbortStep ==
    RecommendTypeOK /\ StageInv /\ [RecommendNext]_allVars =>
        (stage = "aborted" => calls' = calls)
<1> SUFFICES ASSUME RecommendTypeOK, StageInv, [RecommendNext]_allVars, stage = "aborted"
             PROVE  calls' = calls
  OBVIOUS
<1>1. \A t \in Tasks : pc[t] # "finished" => t \in cancelled
  BY DEF StageInv
<1>2. ASSUME NEW t \in Tasks, RetrieverAnswers(t) PROVE calls' = calls
  <2>1. pc[t] = "idle" /\ t \notin cancelled
    BY <1>2 DEF RetrieverAnswers, Retrieved, RetrieverRaises, Begin, Running
  <2> QED
    BY <1>1, <2>1
<1>3. ASSUME NEW t \in Tasks, LLMStep(t) PROVE calls' = calls
  BY <1>1, <1>3, TaskStepLemma DEF LLMStep, RecommendTypeOK
<1>4. CASE GatherReturns \/ RunCancelled \/ StageOver \/ UNCHANGED allVars
  BY <1>4 DEF GatherReturns, RunCancelled, StageOver, allVars, vars
<1> QED
  BY <1>2, <1>3, <1>4 DEF RecommendNext

(* Once the run is cancelled no task issues another paid API call.         *)
THEOREM NoCallsAfterAbort == RecommendSpec => NoCallAfterAbort
BY StageInvInit, StageInvStep, AbortStep, PTL DEF RecommendSpec, NoCallAfterAbort
-----------------------------------------------------------------------------
(* The safety part of IncidentStage.                                       *)

(* The initial states are initial states of IncidentStage.                 *)
LEMMA PromiseInit == RecommendInit => Promise!StageInit
BY DEF RecommendInit, Promise!StageInit, Produced, HasIncident, Verdict

(* Every step is one of IncidentStage or changes nothing that it sees.     *)
LEMMA PromiseStep ==
    RecommendTypeOK /\ StageInv /\ ProgressExact /\ [RecommendNext]_allVars =>
        [Promise!StageNext]_(Promise!stageVars)
<1> SUFFICES ASSUME RecommendTypeOK, StageInv, ProgressExact, [RecommendNext]_allVars
             PROVE  [Promise!StageNext]_(Promise!stageVars)
  OBVIOUS
<1>1. CASE ~UNCHANGED <<incident, done, progress>>
  <2>1. PICK t \in Tasks \ Produced : Produced' = Produced \cup {t}
    BY <1>1, ReportingLemma
  <2>2. Verdict' = Verdict /\ Verdict # "result"
    BY <1>1, ReportingLemma DEF Verdict
  <2>3. done' = Cardinality(Produced')
    BY ProgressStep DEF ProgressExact
  <2> QED
    <3>1. \A S : Promise!Cardinality(S) = Cardinality(S)
      BY DEF Promise!Cardinality, Cardinality
    <3> QED
      BY <2>1, <2>2, <2>3, <3>1 DEF Promise!StageNext, Promise!Produce
<1>2. CASE UNCHANGED <<incident, done, progress>>
  <2>1. Produced' = Produced /\ done' = done
    BY <1>2 DEF Produced, HasIncident
  <2>2. CASE Verdict' = Verdict
    BY <2>1, <2>2 DEF Promise!stageVars
  <2>3. CASE Verdict = "pending" /\ Verdict' = "noResult"
    BY <2>1, <2>3 DEF Promise!StageNext, Promise!GiveUp
  <2>4. CASE Verdict = "pending" /\ Verdict' = "result"
    <3>1. stage = "gathering" /\ stage' = "returned"
      BY <2>4 DEF Verdict, RecommendTypeOK
    <3>2. \A t \in Tasks : gen[t] = "returned"
      BY <3>1 DEF RecommendNext, RetrieverAnswers, Retrieved, RetrieverRaises, LLMStep, Continue,
                  genVars, allVars, GatherReturns, RunCancelled, StageOver
    <3>3. \A t \in Tasks : HasIncident(t)
      <4> TAKE t \in Tasks
      <4>1. incident[t] = ReportFor(chunks[t], outcome[t]) /\ outcome[t] \in Outcomes
        BY <3>2 DEF StageInv, Outcomes
      <4>2. chunks[t] \in {"files", "none"}
        BY DEF RecommendTypeOK
      <4> QED
        BY <4>1, <4>2, ReportLemma DEF HasIncident
    <3>4. Produced = Tasks
      BY <3>3 DEF Produced
    <3> QED
      BY <2>1, <2>4, <3>4 DEF Promise!StageNext, Promise!Deliver
  <2>5. \/ Verdict' = Verdict
        \/ Verdict = "pending" /\ Verdict' \in {"result", "noResult"}
    <3>1. \/ stage' = stage
          \/ stage = "gathering"
          \/ stage = "failed" /\ stage' = "aborted"
      BY DEF RecommendNext, RetrieverAnswers, Retrieved, RetrieverRaises, LLMStep, Continue,
             genVars, allVars, GatherReturns, RunCancelled, StageOver
    <3>2. stage' \in {"gathering", "returned", "failed", "aborted"}
      BY StageInvStep DEF RecommendTypeOK
    <3> QED
      BY <3>1, <3>2 DEF Verdict
  <2> QED
    BY <2>2, <2>3, <2>4, <2>5
<1> QED
  BY <1>1, <1>2

(* The stage hands over one incident per cluster or none at all, and its   *)
(* callback follows the incidents, for every interleaving and failure.     *)
THEOREM StageSafe == RecommendSpec => Promise!StageSafety
BY StageInvInit, StageInvStep, ProgressInit, ProgressStep, PromiseInit, PromiseStep, PTL
   DEF RecommendSpec, Promise!StageSafety

(* The whole refinement, given that the stage ends: nothing else in what   *)
(* the stage promises its caller rests on fairness.                        *)
THEOREM EndingStageImplements == RecommendSpec /\ StageEnds => ImplementsStage
<1> DEFINE Over == stage \in {"returned", "aborted"} /\ \A t \in Tasks : pc[t] = "finished"
<1>1. Over => Verdict # "pending"
  BY DEF Verdict
<1> HIDE DEF Over
<1>2. RecommendSpec /\ <>[]Over => ImplementsStage
  BY <1>1, StageSafe, PTL DEF ImplementsStage, Promise!StageSpec
<1> QED
  BY <1>2 DEF Over, StageEnds

(* What process() takes from the stage: when gather() returns, every       *)
(* cluster has its incident, and the callback has heard of all of them.    *)
THEOREM ResultIsComplete ==
    RecommendSpec => [](stage = "returned" => Produced = Tasks /\ done = Cardinality(Tasks))
<1>1. RecommendTypeOK /\ StageInv /\ ProgressExact
        => (stage = "returned" => Produced = Tasks /\ done = Cardinality(Tasks))
  <2> SUFFICES ASSUME RecommendTypeOK, StageInv, ProgressExact, stage = "returned"
               PROVE  Produced = Tasks
    BY DEF ProgressExact
  <2> SUFFICES ASSUME NEW t \in Tasks PROVE HasIncident(t)
    BY DEF Produced
  <2>1. incident[t] = ReportFor(chunks[t], outcome[t]) /\ outcome[t] \in Outcomes
    BY DEF StageInv, Outcomes
  <2>2. chunks[t] \in {"files", "none"}
    BY DEF RecommendTypeOK
  <2> QED
    BY <2>1, <2>2, ReportLemma DEF HasIncident
<1> QED
  BY <1>1, StageInvInit, StageInvStep, ProgressInit, ProgressStep, PTL DEF RecommendSpec
=============================================================================
