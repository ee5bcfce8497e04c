# Verification of SOC Agent

TLA+ models of `soc_agent/` (the CLI that analyses SIEM exports) and
`inference_service/` (the GPU service it calls), TLC configurations that check
them on small instances, and TLAPS proofs of every safety property of every
component for all values of the constants. Paths below are
relative to the repository (`src/`). `PROJECT.json` lists components, runs,
mutants, hazards, findings and theorems, and maps each definition to the lines
it models.

    tlc -workers 2 -config MCLLMClient_requests.cfg MCLLMClient
    tlapm LLMClient_proofs.tla

## The system

`soc-agent analyze export.jsonl` is one process with one asyncio loop:

    load_logs -> embed_texts -> HDBSCAN -> classify_texts per cluster
              -> gather(generate per cluster) -> write JSON, Markdown

It talks HTTP to the inference service (another process, one GPU, one lock),
shares a cache directory with other agent processes, queries a Chroma
collection that runs of `soc-agent index-playbooks` (other processes, perhaps
two at once) rewrite, and calls a cloud LLM with at most `llm_max_concurrent` requests in flight.

| Component | State it keeps | Operations | Where it is hard | What makes it correct |
| --- | --- | --- | --- | --- |
| LLM client `recommendations/llm_client.py` | semaphore, usage counters | `generate_structured` | three modes x two validation rounds x retries under one permit; cancellation anywhere | permits conserved, call budget, usage accounted for, nobody starves |
| Generator, `_generate_all` | incidents, shared progress counter | `generate`, `_one`, `gather` | coroutines interleave at every await; one may raise | one incident per cluster or none, exact progress, honest fallback, no call after an abort |
| Embedder client `clustering/embedder.py` | disk cache, hit and miss counters | `embed_texts` | cache shared by processes or absent, kills, batches that fail half way, vectors of two models in one list | vectors stay with their texts, the cache never lies, work is not repeated |
| Indexer, retriever `rag/` | Chroma collection, per-chunk hash | `index`, `retrieve`, `count` | not atomic, killed between delete and add, read while rewritten, two runs at once, dropped under another run's handle | a file is whole or absent, a completed run is current, overlapping runs converge |
| Inference service `inference_service/` | GPU lock, model | `/embeddings`, `/classify` | client timeouts leave handlers behind, OOM passes, restarts with another key, limit or model | GPU exclusive, queue order, every call decided |
| Classifier client, `_classify_all` | `classifier_disabled` | `classify_texts` | 501 in the middle of a cluster | all or none of a cluster's predictions, off for the rest |
| Loader `io/loaders.py` | counters, capped errors | `load_logs`, `iter_logs` | what is skipped, counted and kept; three formats, one of them without types, told by the extension or sniffed | the result accounts for each row, an event reads the same in every format but for known cells |
| Pipeline, CLI `pipeline.py`, `cli.py` | clusters, incidents, progress bars, report files | `process`, `_build_pipeline`, `_write_outputs` | failures of any stage, options taken unchecked that change the flow | every log accounted for, evidence whole, true progress, a clean run reports |
| Prompts, settings, metrics, logging, containers | configuration | parsing, formatting | none over time | unit tests |

`soc_agent.reports`, named in README.md:137 and imported by `cli.py:358`, is
not in the repository; the CLI then writes a stub Markdown file.

## Modules

| Module | Models | State and actions |
| --- | --- | --- |
| `AsyncSemaphore` | CPython's `asyncio.Semaphore` (and `Lock`: one permit) | a record `permits`/`waiters`/`granted`; operators `Acquire`, `Release`, `Resumed`, `CancelWaiters`... External code, modelled from how the clients use it: a permit is handed to the head of the queue and is taken when that task runs. |
| `LLMClient` | `LLMClient.generate_structured` and below | one task per cluster; an action is the code between two awaits: `Begin`, `Admitted`, `TransientError`, `RetryAfterBackoff`, `RetriesExhausted`, `BadRequest`, `OtherError`, `ShapelessResponse`, `ValidResponse`, `InvalidResponse`, `CancelAll`, `Unwind`. Release and re-acquire between two rounds is one step, as in the code. |
| `IncidentStage` | the abstract promise of the recommendation stage | `produced`, `reported`, `verdict`; `Produce`, `Deliver`, `GiveUp` |
| `Recommend` | `RecommendationGenerator.generate` under `_generate_all` | EXTENDS `LLMClient`; `Retrieved`, `RetrieverRaises`, `LLMStep` (a step of the client and, when it ends, the rest of `generate` and `_one`), `GatherReturns`, `RunCancelled` |
| `Embedder` | `EmbedderClient.embed_texts`, the disk cache, redeployment of the service | one process per run; `Lookup`, `SkipLookup`, `LookedUp`, `BatchOk`, `BatchRetried`, `BatchFailed`, `RequestInvalid`, `AllReceived`, `Store`, `Stored`, `Crash`, `Redeploy`. `hasCache` says which client has a cache. The arithmetic of vectors is left out except for their length: `Assembled` is `np.asarray()`, which fails on rows of two lengths. |
| `PlaybookIndex` | runs of `PlaybookIndexer.index`, which may overlap, against `PlaybookRetriever.retrieve` and the count of `health` | each Chroma call and each read of a file is a step: `StartIndex`, `OpenIndex`, `Scan`, `ReadFile`, `DeleteChunks`, `DeleteSwallowed`, `AddChunks`, `AddRaises`, `EndIndex`, `CrashIndex`; `OpenRetrieval`, `ProbeCounts`, `FirstCount`, `SecondCount`, `Query`, `RetrievalRaises`; `Edit`. A handle is the generation of the collection it was opened on: a drop makes it stale. `listed` is the set of files a run has still to treat; `Current` is the next of them in the order of `Files`. |
| `BatchCall` | the abstract promise of the inference service | `verdict`, `work`; `Compute`, `Decide` |
| `InferenceService` | handlers, GPU lock, model passes, client attempts; `gate` is what the deployment answers before any work (401, 422, 501 or nothing) | one handler per attempt; `Send`, `TimedOut`, `Refused`, `ConnectionReset`, `Receive`; `GpuGranted`, `ForwardChunk`, `ForwardDone`, `OomRetry`, `ForwardFails`; `Die`, `ComeBack` |
| `Loader` | `load_logs`, `iter_logs`, `detect_format`, `_iter_*`, `_clean_csv_row`, what `LogEntry` accepts | an export has a layout, the format it is told as (or none) and rows: blank lines, objects, JSON that is no object (`scalar`) and lines that are no JSON (`broken`), with what each would be taken for as the first line (`looks`). An object has a cell per class of field; a cell is what the checks of `LogEntry` can tell apart (`Cell`), `CleanCsvRow` what becomes of it in a CSV. `Format` is what the file is read as, `Opens` whether its iterator gets to a first row, `Rows` what it yields. Row by row: `DetectFormat`, `OpenFile`, `SkipBlank`, `AcceptRow`, `SkipRow`, `RejectGarbage`, `RaiseInvalid`, `ReturnResult` |
| `Pipeline` | `_run_analyze`, `SOCPipeline.process`, `_write_outputs` | EXTENDS `Loader`; `Load`, `Loaded`, `BuildPipeline`, `Embed`, `Cluster`, `ClassifyBatch`, `ClassifyUnsupported`, `ClassifyFails`, `NotClassified`, `BuildClusters`, `SkipRecommendations`, `Recommended`, `WriteJson`, `WriteMarkdown`, `WriteFails`. `bars` holds what the progress callbacks show. `InOrder` is `sorted()`. |
| `LLMClient_proofs`, `Recommend_proofs`, `InferenceService_proofs`, `Embedder_proofs`, `PlaybookIndex_proofs`, `Loader_proofs`, `Pipeline_proofs` | theorems about the module they are named after | |
| `CommonLemmas` | lemmas of several proofs: induction over finite sets, lists in order, sums, the semaphore | |
| `MC*` | TLC instances | values of the constants |

How they compose: `LLMClient` and `InferenceService` both use
`AsyncSemaphore`; `Recommend` runs on `LLMClient` (a step of the stage is a
step of the client) and implements `IncidentStage`; `InferenceService` implements
`BatchCall`. The callers use the abstract promises: `Pipeline` starts from
`Loader`'s result, takes from the recommendation stage an incident per cluster
or an exception, as `IncidentStage` promises, and `Embedder` and `Pipeline`
take from a batch one verdict, as `BatchCall` promises: success, failure, or
"unsupported" for a classification.

Operators whose name ends in a mutation (`UnwindLeaking`,
`ClassifyUnsupportedKeeping`, ...) are never used by a specification: each is a
plausible bug in the definition that follows it, and substituting it for that
definition violates the property it is listed with in `PROJECT.json`.

## Runs

| Run | What it asks | Bounds |
| --- | --- | --- |
| `llm_requests` | permits, queue order, calls per cluster, usage, termination, with all modes, retries and cancellation | 2 clusters, 1 permit, 2 attempts; the usage of a response is read as a whole or only up to its prompt count |
| `recommend_stage` | exact progress, honest incidents, silence after an abort, termination; `Recommend` implements `IncidentStage` | 2 clusters, 1 permit, 2 attempts |
| `embedder_cache` | alignment, cache coherence, no repeated work, request budget, termination | 2 processes, each with or without a cache, lists of up to 4 texts with duplicates and an oversized one, batches of 2, 2 attempts, 1 redeploy to a wider checkpoint |
| `embedder_checkpoint` | violation: a hit after a redeploy is an old vector | the same, 1 attempt |
| `playbook_race` | index runs that overlap or follow one another, with kills, failing deletions and edits, against a retrieval or a count: files whole, completed runs current, convergence of runs that overlapped, repair by a rebuild, when a retrieval may raise or mix versions | 2 playbooks, one that alternates between a version of 2 chunks and one of 1, one empty, both removable and perhaps undecodable; 3 runs of which 2 at once, 1 edit, 1 failing deletion, 1 retrieval |
| `playbook_mirror` | violation: removed playbooks stay indexed | 2 runs one after another, 1 edit, no failing deletion |
| `service_retries` | GPU lock and queue under timeouts, orphans, OOM, restart; every queue place is left; `InferenceService` implements `BatchCall` | 1 embedding and 1 classification batch of 3 texts, provider batches of 2, 2 attempts, 1 restart, any deployment before and after it |
| `loader_exports` | accounting of rows and errors, for both callers; agreement of the formats | every export of up to 4 rows in 3 formats; every export of up to 3 rows told as another format or sniffed, garbage lines of any look included; every export of a row with one cell that is not good, its port infinite or not, and a good row; 2 errors kept |
| `loader_malformed` | violation: one line that is not JSON loses the export | JSONL of up to 3 rows |
| `pipeline_analyze` | accounting, evidence, 501, priorities, progress bars; an analysis of clean input reaches its reports | 7 exports of up to 5 logs, 6 command lines, requests of up to 3 texts, every clustering and classification with 3 labels |
| `pipeline_severity` | violation: a log without a severity fails the analysis | the same |
| `pipeline_output` | violation: the Markdown report overwrites the JSON report | the same |

Why the bounds are enough to be interesting. With two tasks and one permit
every second request queues, is granted its permit by a release, and can be
cancelled before, between and after; more tasks and permits are the subject of
the proofs. Two attempts are a first and a last one. A list of three texts with
a duplicate has hits and misses in every order and two batches. A file of two
chunks is the least that can be torn, and two runs are the least that can
overlap, with a rebuild or a kill in either; the third is the one that finds
what they left. A batch of three texts with provider batches of two has a full
and a cut chunk. Five logs with `min_cluster_size` 2 give two clusters with and
without noise, one cluster, and noise only; a cluster of three or more has two
classification batches. The limit of a request is 3 texts where the code has
512: a batch size of 2 stays below it, 3 meets it and 4 exceeds it. One spoilt
cell is enough for what depends on the format of an export, as each cell is
cleaned and validated by itself (`CellLemma` proves it of any row); only an
infinite port, which raises, is combined with each. `MCLoader` evaluates
`DependentExactly`: the list of cells in `FormatDependent` names no cell that
the formats treat alike.

`Contents`, `MaxEdits`, `MaxRuns`, `MaxSwallowed`, `MaxRestarts` and the length
of `Dim` (the checkpoints) bound environment actions that are unlimited in
reality; nothing else is bounded beyond the constants of the code.
`playbook_race` alone uses a symmetry: the names of the index runs are
interchangeable, and it checks safety only. No state constraint is used, and
deadlock is checked in every run: the states in which a system may rest have a
stuttering action of their own (`Terminated`, `StageOver`, `Over`, `Quiet`,
`LoaderOver`, `PipelineOver`).

## Fairness

- `LLMClient`: weak fairness of each task's steps. Calls carry a timeout
  (`llm_client.py:230`), backoff is at most 30 s, and the event loop runs every
  ready task. Nothing obliges the caller to begin or to cancel.
- `Recommend`: the retriever's thread is local and finite; a `process()` that
  raised does reach the cancellation at the end of `asyncio.run()`. An
  interrupt by the user is never assumed.
- `Embedder`, `InferenceService`: every HTTP attempt ends within the client's
  timeout, every forward pass is finite. A kill, a restart, a redeploy and the
  return of the service are never assumed.
- `BatchCall` promises a verdict for every batch, which `InferenceService` meets
  under the fairness above.
- `Pipeline`: weak fairness of the next step. It is one process whose awaits all
  end: the loader reads a finite file, the requests have timeouts, the
  recommendation stage ends (`StageEnds`). `CleanRunReports` rests on it.
- `PlaybookIndex` and `Loader` have safety properties only and no fairness.
- Weak fairness suffices everywhere: a step that is ready stays ready until it
  is taken, because the queues are first in, first out.

## Proofs

Every invariant and every action property that a passing run checks is also a
theorem, for all constants that meet the `ASSUME`s of its module, which are no
more than the types and the positive bounds the code itself requires (a finite
set of tasks, at least one permit and one attempt, disjoint batches, file rows
of `RowType`, `Options \subseteq Option`, ...). Nothing is assumed about the
number of processes, clusters, files, texts, handlers, rows or logs.

| Module | Theorem | Statement |
| --- | --- | --- |
| `LLMClient` | `TypeCorrect` | `[]TypeOK` |
| | `PermitsConserved` | `[]PermitConservation` |
| | `ConcurrencyBounded` | `[]ConcurrencyBound`: never more than `llm_max_concurrent` tasks calling or in backoff |
| | `BudgetHolds`, `CallsBudgeted` | `[]BudgetInv`, hence `[]CallBudget`: at most `5 * max_retries` calls for one cluster |
| | `NoBargingHolds` | `NoBarging` |
| | `UsageReported` | `[]UsageAccounted` |
| `Recommend` | `StageKeepsLimits`, `StageKeepsUsage`, `StageKeepsOrder` | permits, call budget, `UsageAccounted` and `NoBarging` hold under `_generate_all()` too, whose tasks may also be ended by a retriever that raises |
| | `RecommendTypeCorrect` | `[]RecommendTypeOK` |
| | `IncidentsHonest` | `[]HonestIncident` |
| | `ProgressIsExact` | `[]ProgressExact` |
| | `NoCallsAfterAbort` | `NoCallAfterAbort` |
| | `StageSafe` | `Promise!StageSafety`: the safety part of `IncidentStage` under its refinement mapping |
| | `ResultIsComplete` | when `gather()` returns every cluster has its incident, which is what `Recommended` of `Pipeline` takes for granted |
| | `EndingStageImplements` | `RecommendSpec /\ StageEnds => ImplementsStage`: the refinement rests on fairness only as far as the stage's end does |
| `InferenceService` | `TypeCorrect` | `[]TypeOK` |
| | `GpuIsExclusive` | `[]GpuExclusive` |
| | `RetriesKeepOrder` | `[]RetryNeverOvertakes` |
| | `BatchCallSafety` | `Abstract!Safety`: the safety part of `BatchCall` under its refinement mapping |
| `Embedder` | `EmbedderTypeCorrect` | `[]TypeOK` |
| | `CacheIsCoherent` | `[]CacheCoherent` |
| | `ResultsAligned` | `[]ResultAligned` |
| | `NothingRecomputed` | `[]NoRecompute` |
| | `RequestsBudgeted` | `[]RequestBudget` |
| `PlaybookIndex` | `PlaybookTypeCorrect` | `[]TypeOK` |
| | `FilesStayWhole` | `[]FileWhole` |
| | `DoneRunsAreCurrent` | `[]DoneIsCurrent` |
| | `OverlapsConverge` | `[]OverlapConverges` |
| | `RebuildsRepair` | `[]RebuildRepairs` |
| | `RetrievalsSound` | `RetrievalSound` |
| `Loader` | `LoaderTypeCorrect` | `[]LoaderTypeOK` |
| | `ResultsWhole` | `[]ResultIsFile` |
| | `FirstErrorsKept` | `[]ErrorsNameSkipped` |
| | `FormatsReadAlike` | `[]FormatsAgree` |
| `Pipeline` | `PipelineTypeCorrect` | `[]PipelineTypeOK` |
| | `PipelineLoads` | `PipelineSpec => LoaderSpec`: the loader's theorems hold of the export an analysis reads |
| | `LogsAreAccounted` | `[]EveryLogAccounted` |
| | `EvidenceIsWhole` | `[]EvidenceWhole` |
| | `DisablingLasts` | `[]DisabledForTheRest` |
| | `WorstLogWins` | `[]WorstLogDecides` |
| | `BarsTellTheTruth` | `[]BarsTrue` |
| | `CleanRunIsSafe` | `[]CleanRunSafe`: on clean input the agent never raises by itself, and a finished run has its report |
| | `EndedRunsReport` | `PipelineSpec /\ <>(stage \in {"finished", "failed"}) => CleanRunReports`: what TLC adds is only that a run ends |

The inductive invariants, and why each is needed:

- **LLM client.** `TypeOK` says that a task in backoff has an attempt left;
  without that `RetryAfterBackoff` could leave `1..MaxRetries`.
  `PermitConservation` is inductive relative to it: free permits, granted ones
  and the tasks in `calling` or `backoff` add up to `MaxConcurrent`. An action
  moves one task across the border of `Holders` and the semaphore by one, or
  neither; the lemmas of `CommonLemmas` on `Acquire`, `Release`, `Resumed`, ...
  say so of the semaphore, and the client's proofs never open its queue.
  `CallBudget` does not know how many calls the current mode may still issue:
  `BudgetInv` adds, for each place a task can wait, what its mode, round and
  attempt account for (`SpentBefore`; the three modes have the ranges 0..R,
  R..3R and 3R..5R). `NoBarging` needs only `TypeOK`: a task that runs on after
  its own release calls at once only if `Locked` is false, which `Release`
  allows only for an empty queue. `UsageAccounted`
  bounds the totals from both sides, by the bills of all responses and by those
  of the tasks that missed nothing; it is inductive once a sum is known to
  change by what one term does (`SumExcept`), and because a response is billed
  and recorded in the same step whatever becomes of it (`ResponseLemma`).
- **Recommendation stage.** A step of the stage is a step of `LLMClient` or a
  retriever that raises (`StageStepLemma`), so the client's step lemmas are
  reused. `StageInv` ties `gen` to `pc`, the incident to how the request ended,
  and an abort to `cancelled`; from it `ProgressExact` is inductive and every
  step maps to a step of `IncidentStage` or a stutter.
- **Inference service.** `GpuExclusive` is inductive together with the
  finiteness of `OnGpu` (`GpuInv`), by the same semaphore lemmas.
  `RetryNeverOvertakes` needs that a later attempt of a batch is not sent yet
  (`FreshInv`) and that the lock's queue holds exactly the queued handlers,
  those of one batch in the order of their attempts (`QueueInv`): a restart
  clears the queue and an orphaned handler stays in its place. `WorkInv` (a 200
  means computed, a 501 is a classification) gives the refinement.
- **Embedder.** Alignment is not inductive, as it speaks of results. `TextInv`
  ties `fresh`, the vectors received, to `missing` position by position;
  `SlotInv` says that a position without a vector is still ahead of one of the
  loops. `WarmInv` keeps what was cached when a run began out of `missing`;
  `PostInv` counts requests for the batches received and the one under way,
  which needs that all batches but the last are full.
- **Playbook index.** `FileWhole` fails between `DeleteChunks` and `AddChunks`
  unless nobody adds others in between (`AddInv`, from `StoreInv`: a collection
  that was dropped is never the current one again). `DoneIsCurrent` and
  `RebuildRepairs` need that a clean run is alone with its collection
  (`AloneInv`) and that what it has treated is current while what it has not
  is as it found it (`TreatedInv`, `RebuildInv`). `OverlapConverges` is a
  covering argument: without edits every file is indexed or some run will index
  it (`CoverInv`), and when all are done no run is left. `RetrieveInv` lets a
  retrieval that no run overlapped rely on what it read.
- **Loader.** The properties speak of whole files; `LoaderInv` says the same of
  the rows before `line` (`ReadInv`, `TotalInv`, `StoredInv`), for a file whose
  rows never change, and remembers that a file that is read did open
  (`OpenInv`), which is why nothing is yielded of an array that does not parse.
  `FormatsAgree` is a case split over cells (`CellLemma`).
- **Pipeline.** `GroupedInv` says that the clusters are those of *some*
  labelling HDBSCAN may return, `ClassifiedInv` that a cluster has all its
  predictions or none, `BarsInv` that the clusters asked for are the first ones
  and only the last of them was refused, `IncidentsInv` that the incidents are
  made of both. The accounting then is arithmetic: the clusters partition the
  labelled logs (`ClustersLemma`), so sizes add up to the union (`SumOfParts`);
  the dominant classes are a sorted list cut off (`ClassesLemma`). `CleanInv`
  adds that the loader of a clean export does not fail (`CleanOpens`:
  a file with an entry is read as what it is, and its lines are all objects).

TLC found each of these invariants unviolated on its run's instance before it was
proved. Sums, sorted lists and cardinalities are not out of reach although the
library's induction theorems cannot be used: `SetMin` in `CommonLemmas` gets a
minimal finite set from the well-foundedness of the subset order, and
`SetInduction` states induction with a set of sets in place of a predicate.

Only model-checked, and why:

- the liveness properties `EveryRequestEnds`, `StageEnds`, `RunEnds`,
  `QueueDrains`, and of `CleanRunReports` that a run ends: weak fairness is
  beyond the prover;
- of `ImplementsStage` that the stage ends (the rest is `StageSafe` and
  `EndingStageImplements`), and of `ImplementsBatchCall` the fairness of
  `BatchCall`, which speaks of ENABLED; its safety is `BatchCallSafety`.

## What the code does that its documentation does not say

Each is a run that TLC must find violated; `PROJECT.json` quotes both sides.

1. DEPLOYMENT.md:87-89 expects a new checkpoint to lower the cache hit rate; the
   cache key has no checkpoint (`embedder.py:118`), so old vectors are hits.
2. Makefile:9 and README.md:109 promise a rebuilt index; without `--rebuild`
   the chunks of removed playbooks stay (`indexer.py:96`).
3. README.md:127 says malformed rows are skipped; a line that does not parse
   ends the load (`loaders.py:121`).
4. `LogEntry.severity` is optional (`schemas.py:132`), but a log without one
   fails the analysis in `_build_cluster` (`pipeline.py:200`).
5. With `--markdown --output x.md` the Markdown report replaces the JSON report
   (`cli.py:356`).

What no run is spent on:

- A suppressed failure of `delete()` leaves the old chunks, since Chroma ignores
  the `add()` of ids it has, and the run still counts the file as indexed
  (`indexer.py:105`). `FileWhole` and `DoneIsCurrent` therefore speak of
  histories in which no deletion failed, and of files that no two runs treated
  at once with different contents; `RebuildRepairs` is the way out of both.
- README.md:118 says that `--skip-recommendations` embeds and clusters only;
  `process()` classifies before it looks at the flag (`pipeline.py:105`).
  `BarsTrue` leaves open whether such a run asks the classifier.
- `iter_logs()` says that it skips invalid rows by default (`loaders.py:148`),
  but an infinite port (`1e400`, `Infinity`) raises `OverflowError` in
  `_validate_port` (`schemas.py:97`), which neither it nor `skip_invalid`
  catches: `RaiseInvalid` ends the load at such a row (`Overflows`).
- An event may be an entry in one format and a skipped row in another:
  `FormatDependent` lists the cells. A port of `443.0` or `true` is taken from
  JSON and refused from a CSV, a number for a text the other way round, and a
  nested object given as text is parsed from a CSV only.
- A file of an unknown extension whose first line is no JSON but has a comma is
  taken for a CSV and loads with every row skipped (`loaders.py:66`); without
  the comma the load fails.
- `--batch-size` is not validated (`cli.py:222`), and the settings allow 2048
  (`config.py:48`) where a request holds 512 texts. A description may be longer
  than the 2048 characters a request accepts, and an export may mix timestamps
  with and without a zone, which `min()` refuses to compare. Each of the three
  ends the analysis with an exception, as do an infinite port and a line that is
  no object; `CleanInput` excludes them by name, and
  `CleanRunReports` shows that nothing else inside the agent does.
- `soc-agent health` reports UP for any answer with status 200, also when the
  body says `"status": "error"`.
- The reports are written after all the work is paid for; a path that cannot be
  written loses it (`cli.py:235`, `WriteFails`). Nothing in the code promises
  otherwise, so no property is stated.

## Assumptions about code outside the repository

- `asyncio.Semaphore` and `Lock`: first in first out, `locked()` while anyone
  waits (Python 3.11 and later).
- `asyncio.gather`: the first exception completes it, the other tasks go on;
  `asyncio.run` cancels what is left.
- tenacity: `stop_after_attempt(n)` with `reraise`.
- Chroma: `add` ignores ids it has, `query` refuses `n_results=0`, a handle of
  a deleted collection raises.
- HDBSCAN: labels are -1 or count up from 0 and every cluster has at least
  `min_cluster_size` members; nothing else.

## Not modelled

- Arithmetic of vectors: pooling, normalisation, centroids, distances, the
  choice of representative logs, scores and the MITRE boost (any fetched chunk
  may be among the results).
- Counts of addresses and users in a cluster: sets of strings, no behaviour.
- Texts: prompts, JSON extraction character by character (a response body is
  one of four kinds), chunking of Markdown, report formatting.
- Decoding and CSV syntax: a file is UTF-8, a CSV record is a line, has its
  header first and no field above the limit of Python's `csv`; an array of JSON
  has a row a line, as exporters write it.
- Eviction by diskcache, which culls beyond its size limit (1 GiB): `NoRecompute`
  holds below it. The hit rate.
- The `FileNotFoundError`s of a missing export or playbook directory, raised
  before anything is done.
- A connection that is reset while the service stays up: `ConnectionReset` needs
  it to go down. To a client either is one more transient failure.
- `/health` and `/metrics` of the service, the other rows of `health`,
  `version`, and settings: they read and format. "Model not loaded" (503) does
  not occur, as the model is loaded before the service accepts connections. The
  rate limiter is built but attached to no route.
- Validation of responses and of `Recommendation` field by field: a response is
  valid or not.
- `process([])`, which only a caller other than the CLI can reach.

## Plan

All components of the inventory that have behaviour over time are modelled,
and all their safety properties are proved. What is left:

1. the promise of `BatchCall` as seen by its callers: that `Embed` and the
   classification batches of `Pipeline` ask of it no more than
   `BatchCallSafety` gives is so far argued in "How they compose" and not a
   theorem, as `ResultIsComplete` is for the recommendation stage;
2. conditional forms of the remaining liveness properties, as `EndedRunsReport`
   and `EndingStageImplements` are: what follows from a request or a queue
   coming to an end.
