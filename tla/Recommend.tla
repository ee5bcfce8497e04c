----------------------------- MODULE Recommend -----------------------------
(***************************************************************************)
(* The recommendation stage: SOCPipeline._generate_all() gathers one task  *)
(* per cluster; each runs RecommendationGenerator.generate(), which        *)
(* retrieves playbooks in a thread, calls LLMClient.generate_structured()  *)
(* and falls back to a template when that raises.  Composes LLMClient: a   *)
(* task of LLMClient is the cluster whose prompt it carries.               *)
(*                                                                         *)
(* What a task does after generate_structured() ends, up to the return of  *)
(* _one(), has no suspension point: it is part of the same step.           *)
(***************************************************************************)
EXTENDS LLMClient

VARIABLES gen,       \* where the coroutine of each cluster is
          chunks,    \* what _retrieve() found: playbook files or nothing
          incident,  \* the IncidentReport of each cluster
          done,      \* the nonlocal counter of _generate_all()
          progress,  \* history: the counts given to the progress callback
          stage      \* the coroutine awaiting gather()

genVars == <<gen, chunks, incident, done, progress, stage>>
allVars == <<vars, genVars>>

NoIncident == [playbooks |-> "absent", unavailable |-> FALSE, reason |-> "none"]

RecommendInit ==
    /\ Init
    /\ gen = [t \in Tasks |-> "retrieving"]
    /\ chunks = [t \in Tasks |-> "none"]
    /\ incident = [t \in Tasks |-> NoIncident]
    /\ done = 0
    /\ progress = <<>>
    /\ stage = "gathering"

(* Mutant of ReportFor: the playbooks the LLM cites are always kept.       *)
ReportForCiting(found, how) ==
    [playbooks   |-> IF how = "ok" THEN "cited" ELSE "empty",
     unavailable |-> how # "ok",
     reason      |-> how]

(* The rest of generate() and _one(): recommendation or fallback, counter, *)
(* callback, report.  Retrieved files replace those the LLM cites; with    *)
(* none retrieved its own list stays; the fallback lists none.             *)
ReportFor(found, how) ==
    [playbooks   |-> IF how # "ok" THEN "empty"
                     ELSE IF found = "files" THEN "retrieved" ELSE "cited",
     unavailable |-> how # "ok",
     reason      |-> how]

(* Mutant of Continue: the callback is told before the counter is raised.  *)
ContinueReportingFirst(t) ==
    IF outcome'[t] = "cancelled"
    THEN /\ gen' = [gen EXCEPT ![t] = "cancelled"]
         /\ UNCHANGED <<chunks, incident, done, progress, stage>>
    ELSE /\ gen' = [gen EXCEPT ![t] = "returned"]
         /\ incident' = [incident EXCEPT ![t] = ReportFor(chunks[t], outcome'[t])]
         /\ done' = done + 1
         /\ progress' = Append(progress, done)
         /\ UNCHANGED <<chunks, stage>>

Continue(t) ==
    IF outcome'[t] = "cancelled"
    THEN /\ gen' = [gen EXCEPT ![t] = "cancelled"]
         /\ UNCHANGED <<chunks, incident, done, progress, stage>>
    ELSE /\ gen' = [gen EXCEPT ![t] = "returned"]
         /\ incident' = [incident EXCEPT ![t] = ReportFor(chunks[t], outcome'[t])]
         /\ done' = done + 1
         /\ progress' = Append(progress, done + 1)
         /\ UNCHANGED <<chunks, stage>>

(* The retriever thread answers; the prompt is built and the LLM asked.    *)
Retrieved(t, found) ==
    /\ gen[t] = "retrieving"
    /\ Begin(t)
    /\ gen' = [gen EXCEPT ![t] = "llm"]
    /\ chunks' = [chunks EXCEPT ![t] = found]
    /\ UNCHANGED <<incident, done, progress, stage>>

(* Mutant of RetrieverRaises: gather() collects the exception.             *)
RetrieverRaisesCollected(t) ==
    /\ gen[t] = "retrieving"
    /\ Running(t, "idle")
    /\ pc' = [pc EXCEPT ![t] = "finished"]
    /\ gen' = [gen EXCEPT ![t] = "returned"]
    /\ UNCHANGED <<mode, round, attempt, outcome, cancelled, sem, totals, calls, billed, missed>>
    /\ UNCHANGED <<chunks, incident, done, progress, stage>>

(* The retriever raises outside generate()'s try: the first such error     *)
(* completes gather(), whose other tasks keep running.                     *)
RetrieverRaises(t) ==
    /\ gen[t] = "retrieving"
    /\ Running(t, "idle")
    /\ pc' = [pc EXCEPT ![t] = "finished"]
    /\ gen' = [gen EXCEPT ![t] = "raised"]
    /\ stage' = IF stage = "gathering" THEN "failed" ELSE stage
    /\ UNCHANGED <<mode, round, attempt, outcome, cancelled, sem, totals, calls, billed, missed>>
    /\ UNCHANGED <<chunks, incident, done, progress>>

LLMStep(t) ==
    /\ TaskStep(t)
    /\ IF pc'[t] = "finished" THEN Continue(t) ELSE UNCHANGED genVars

GatherReturns ==
    /\ stage = "gathering"
    /\ \A t \in Tasks : gen[t] = "returned"
    /\ stage' = "returned"
    /\ UNCHANGED <<vars, gen, chunks, incident, done, progress>>

(* process() has raised, or the user interrupts: asyncio.run() cancels     *)
(* every task that is left.                                                *)
RunCancelled ==
    /\ stage \in {"gathering", "failed"}
    /\ IF \E t \in Tasks : pc[t] # "finished" THEN CancelAll ELSE UNCHANGED vars
    /\ gen' = [t \in Tasks |-> IF pc'[t] = "finished" /\ pc[t] # "finished"
                               THEN "cancelled" ELSE gen[t]]
    /\ stage' = "aborted"
    /\ UNCHANGED <<chunks, incident, done, progress>>

StageOver ==
    /\ stage \in {"returned", "aborted"}
    /\ \A t \in Tasks : pc[t] = "finished"
    /\ UNCHANGED allVars

RetrieverAnswers(t) ==
    \/ \E found \in {"files", "none"} : Retrieved(t, found)
    \/ RetrieverRaises(t)

RecommendNext ==
    \/ \E t \in Tasks : RetrieverAnswers(t) \/ LLMStep(t)
    \/ GatherReturns
    \/ RunCancelled
    \/ StageOver

(* The retriever thread is local and finite; the event loop runs whatever  *)
(* is ready; a failed process() does end in asyncio.run()'s cancellation.  *)
RecommendFairness ==
    /\ \A t \in Tasks : WF_allVars(RetrieverAnswers(t)) /\ WF_allVars(LLMStep(t))
    /\ WF_allVars(GatherReturns)
    /\ WF_allVars(stage = "failed" /\ RunCancelled)

RecommendSpec == RecommendInit /\ [][RecommendNext]_allVars /\ RecommendFairness
-----------------------------------------------------------------------------
RecommendTypeOK ==
    /\ TypeOK
    /\ gen \in [Tasks -> {"retrieving", "llm", "returned", "raised", "cancelled"}]
    /\ chunks \in [Tasks -> {"files", "none"}]
    /\ incident \in [Tasks -> [playbooks   : {"absent", "empty", "retrieved", "cited"},
                               unavailable : BOOLEAN,
                               reason      : Outcomes]]
    /\ done \in Nat
    /\ progress \in Seq(Nat)
    /\ stage \in {"gathering", "returned", "failed", "aborted"}

HasIncident(t) == incident[t] # NoIncident

Produced == {t \in Tasks : HasIncident(t)}

(* However the clusters' tasks interleave, the callback hears 1, 2, 3, ... *)
(* without gap or repetition, and the last number is that of the incidents *)
(* that exist: the shared counter is never read on one side of an await    *)
(* and written on the other.                                               *)
ProgressExact ==
    /\ progress = [i \in 1..done |-> i]
    /\ done = Cardinality(Produced)

(* An incident is marked unavailable exactly when the LLM gave no valid    *)
(* answer, and never carries a playbook name of the LLM's own while        *)
(* retrieval found files, so what it shows then is in the index.  (What    *)
(* the LLM cites after an empty retrieval is nowhere compared with it.)    *)
HonestIncident ==
    \A t \in Tasks : HasIncident(t) =>
        /\ incident[t].unavailable <=> outcome[t] \in Failures
        /\ incident[t].playbooks = "cited" => chunks[t] = "none"

(* Once the run is cancelled no task issues another paid API call.         *)
NoCallAfterAbort == [][stage = "aborted" => calls' = calls]_allVars

(* The stage always comes to an end, and no cluster's task outlives it.    *)
StageEnds == <>[](stage \in {"returned", "aborted"} /\ \A t \in Tasks : pc[t] = "finished")

Verdict ==
    CASE stage = "returned"  -> "result"
      [] stage = "gathering" -> "pending"
      [] OTHER               -> "noResult"

Promise == INSTANCE IncidentStage WITH
    Clusters <- Tasks, produced <- Produced, reported <- done, verdict <- Verdict

(* Refinement: the stage implements the promise made to its caller.        *)
ImplementsStage == Promise!StageSpec
=============================================================================
