------------------------------ MODULE Pipeline ------------------------------
(***************************************************************************)
(* "soc-agent analyze": _run_analyze() loads the export (Loader), then     *)
(* SOCPipeline.process() embeds, clusters, classifies and recommends, and  *)
(* _write_outputs() writes the reports.                                    *)
(*                                                                         *)
(* Each await of process() is a step.  What is inside the embedding, the   *)
(* recommendation stage and the HTTP attempts of one /classify batch is    *)
(* the subject of Embedder, Recommend and InferenceService; here they      *)
(* succeed or raise.  HDBSCAN is any clustering it may return.             *)
(***************************************************************************)
EXTENDS Loader, Functions, FiniteSetsExt

CONSTANTS Options,         \* the command lines (and constructions of SOCPipeline)
          MaxTexts,        \* the most texts one request may hold
          Labels,          \* labels of the classifier head
          TopClasses       \* k of _aggregate_dominant_classes()

Option == [skip : BOOLEAN, noise : BOOLEAN, classifier : BOOLEAN, generator : BOOLEAN,
           markdown : BOOLEAN, output : {"report.json", "report.md"},
           batch : Int, minCluster : Int]

ASSUME PipelineAssumption ==
    /\ Options \subseteq Option
    /\ MaxTexts \in Nat \ {0} /\ TopClasses \in Nat \ {0}

VARIABLES options,
          stage,       \* what process() awaits
          failure,     \* the stage that raised
          clusters,    \* kept: ClusterStats of the clusters that are reported
          nClusters,
          nNoise,
          disabled,    \* classifier_disabled
          preds,       \* predictions of the cluster being classified
          classified,  \* results of the clusters already classified
          incidents,
          bars,        \* the progress bars: <<completed, total>>, or <<>>
          disk         \* the report files

pipelineVars == <<options, stage, failure, clusters, nClusters, nNoise, disabled,
                  preds, classified, incidents, bars, disk>>
allVars == <<loaderVars, pipelineVars>>

PipelineInit ==
    /\ LoaderInit
    /\ api = "load" /\ skipInvalid = TRUE
    /\ options \in Options
    /\ stage = "loading"
    /\ failure = "none"
    /\ clusters = <<>>
    /\ nClusters = 0 /\ nNoise = 0
    /\ disabled = FALSE
    /\ preds = <<>>
    /\ classified = <<>>
    /\ incidents = <<>>
    /\ bars = [name \in {"embedding", "clustering", "classifying"} |-> <<>>]
    /\ disk = [path \in {"report.json", "report.md"} |-> "none"]

Load ==
    /\ stage = "loading"
    /\ LoaderStep
    /\ UNCHANGED pipelineVars

(* An exception of any stage leaves process() and ends the command.        *)
Raise(what) ==
    /\ stage' = "failed"
    /\ failure' = what
    /\ UNCHANGED <<loaderVars, options, clusters, nClusters, nNoise, disabled, preds,
                   classified, incidents, bars, disk>>

(* The callbacks of a step, `bars', are left to it.                        *)
GoTo(next) ==
    /\ stage' = next
    /\ UNCHANGED <<loaderVars, options, failure, clusters, nClusters, nNoise, disabled,
                   preds, classified, incidents, disk>>

(* Exit code 1 for an export that does not load or has no valid row.       *)
Loaded ==
    /\ stage = "loading"
    /\ \/ phase = "failed" /\ Raise("load")
       \/ phase = "loaded" /\ logs = <<>> /\ Raise("load")
       \/ phase = "loaded" /\ logs # <<>> /\ GoTo("building") /\ UNCHANGED bars

(* --batch-size and --min-cluster-size reach the constructors unchecked.   *)
OptionsValid == options.batch > 0 /\ options.minCluster >= 2

(* _build_pipeline(): Chroma or its embedding model may not open either.   *)
BuildPipeline ==
    /\ stage = "building"
    /\ \/ ~OptionsValid /\ Raise("options")
       \/ OptionsValid /\ Raise("construct")
       \/ /\ OptionsValid
          /\ GoTo("embedding")
          /\ bars' = [bars EXCEPT !.embedding = <<0, Len(logs)>>]

(* Mutant of Fits: a full request is refused.                              *)
FitsBelow(n) == n < MaxTexts

(* EmbeddingsRequest and ClassifyRequest: at most 512 texts.               *)
Fits(n) == n <= MaxTexts

TooLong(member) == Cells(logs[member]).description = "long"

(* The texts the cache does not have are sent in batches; the last batch   *)
(* is never longer than the first.  A text that is too long was never      *)
(* sent, so never cached.  A request that is not valid is not sent.        *)
Embed ==
    /\ stage = "embedding"
    /\ \/ Raise("embed")
       \/ \E uncached \in 0..Len(logs) :
            IF Fits(Min({options.batch, uncached})) /\ ~\E m \in DOMAIN logs : TooLong(m)
            THEN /\ GoTo("clustering")
                 /\ bars' = [bars EXCEPT !.embedding = <<Len(logs), Len(logs)>>,
                                         !.clustering = <<0, 1>>]
            ELSE Raise("request")

-----------------------------------------------------------------------------
(* Labels of HDBSCAN for n logs: -1 is noise, clusters count up from 0.    *)
Labelings(n) ==
    {labels \in [1..n -> -1..(n \div options.minCluster - 1)] :
       \A c \in 0..(n \div options.minCluster - 1) :
          LET size == Cardinality({i \in 1..n : labels[i] = c})
          IN  /\ size = 0 \/ size >= options.minCluster
              /\ size > 0 => \A b \in 0..(c - 1) : \E i \in 1..n : labels[i] = b}

(* The members of the finite set S in the order of Before, a strict total  *)
(* order on them: sorted().                                                *)
InOrder(S, Before(_, _)) ==
    CHOOSE s \in [1..Cardinality(S) -> S] :
        \A i, k \in DOMAIN s : i < k => Before(s[i], s[k])

(* Mutant of Aggregate: log indices count from zero.                       *)
AggregateFromZero(labels) ==
    LET ids == InOrder(Range(labels), <)
    IN  [b \in DOMAIN ids |->
           [id      |-> ids[b],
            members |-> InOrder({i - 1 : i \in {j \in DOMAIN labels : labels[j] = ids[b]}}, <)]]

(* _aggregate(): buckets of log indices in the order of their label.       *)
Aggregate(labels) ==
    LET ids == InOrder(Range(labels), <)
    IN  [b \in DOMAIN ids |->
           [id      |-> ids[b],
            members |-> InOrder({i \in DOMAIN labels : labels[i] = ids[b]}, <)]]

(* Mutant of Kept: cluster 0 is taken for noise.                           *)
KeptPositive(buckets) ==
    LET at == InOrder({b \in DOMAIN buckets : buckets[b].id > 0 \/ options.noise}, <)
    IN  [k \in DOMAIN at |-> buckets[at[k]]]

Kept(buckets) ==
    LET at == InOrder({b \in DOMAIN buckets : buckets[b].id >= 0 \/ options.noise}, <)
    IN  [k \in DOMAIN at |-> buckets[at[k]]]

Cluster ==
    /\ stage = "clustering"
    /\ \/ Raise("cluster")
       \/ \E labels \in Labelings(Len(logs)) :
            /\ clusters' = Kept(Aggregate(labels))
            /\ nClusters' = Cardinality(Range(labels) \ {-1})
            /\ nNoise' = Cardinality({i \in DOMAIN labels : labels[i] = -1})
            /\ bars' = [bars EXCEPT !.clustering = <<1, 1>>]
            /\ stage' = "classifying"
            /\ UNCHANGED <<loaderVars, options, failure, disabled, preds, classified,
                           incidents, disk>>

(* _classify_all(): the cluster that is next, batch by batch.              *)
Current == clusters[Len(classified) + 1]

Classifying == stage = "classifying" /\ Len(classified) < Len(clusters)

Posting == Classifying /\ options.classifier /\ ~disabled

NextBatch ==
    LET left == Len(Current.members) - Len(preds)
    IN  Min({left, options.batch})

(* Mutant of ReportCluster: the clusters done before this one.             *)
ReportClusterBefore ==
    bars' = [bars EXCEPT !.classifying = <<Len(classified), Len(clusters)>>]

ReportCluster ==
    bars' = [bars EXCEPT !.classifying = <<Len(classified) + 1, Len(clusters)>>]

ClassifyBatch ==
    /\ Posting
    /\ Fits(NextBatch)
    /\ \E answer \in [1..NextBatch -> Labels] :
         IF Len(preds) + NextBatch = Len(Current.members)
         THEN classified' = Append(classified, preds \o answer) /\ preds' = <<>> /\ ReportCluster
         ELSE preds' = preds \o answer /\ UNCHANGED <<classified, bars>>
    /\ UNCHANGED <<loaderVars, options, stage, failure, clusters, nClusters, nNoise,
                   disabled, incidents, disk>>

(* Mutants of ClassifyUnsupported: the predictions so far are kept; the    *)
(* next cluster is asked for again.                                        *)
ClassifyUnsupportedKeeping ==
    /\ Posting
    /\ Fits(NextBatch)
    /\ disabled' = TRUE
    /\ ReportCluster
    /\ classified' = Append(classified, preds)
    /\ preds' = <<>>
    /\ UNCHANGED <<loaderVars, options, stage, failure, clusters, nClusters, nNoise,
                   incidents, disk>>

ClassifyUnsupportedOnce ==
    /\ Posting
    /\ Fits(NextBatch)
    /\ ReportCluster
    /\ classified' = Append(classified, <<>>)
    /\ preds' = <<>>
    /\ UNCHANGED <<loaderVars, options, stage, failure, clusters, nClusters, nNoise,
                   disabled, incidents, disk>>

(* 501, also on a later batch of a cluster: its predictions are discarded. *)
ClassifyUnsupported ==
    /\ Posting
    /\ Fits(NextBatch)
    /\ disabled' = TRUE
    /\ ReportCluster
    /\ classified' = Append(classified, <<>>)
    /\ preds' = <<>>
    /\ UNCHANGED <<loaderVars, options, stage, failure, clusters, nClusters, nNoise,
                   incidents, disk>>

(* Retries exhausted, a 4xx or a wrong count; a batch that is no request.  *)
ClassifyFails == Posting /\ Raise(IF Fits(NextBatch) THEN "classify" ELSE "request")

(* No classifier, or it is disabled: no predictions for this cluster, and  *)
(* no progress of the bar.                                                 *)
NotClassified ==
    /\ Classifying
    /\ disabled \/ ~options.classifier
    /\ classified' = Append(classified, <<>>)
    /\ UNCHANGED <<loaderVars, options, stage, failure, clusters, nClusters, nNoise,
                   disabled, preds, incidents, bars, disk>>

-----------------------------------------------------------------------------
SeverityOf(member) == SeverityAt(logs[member])
ZoneOf(member) == file.rows[logs[member]].zone

(* The severities of a cluster and how often each occurs.                  *)
SeverityBreakdown(members) ==
    [s \in {SeverityOf(members[i]) : i \in DOMAIN members} |->
       Cardinality({i \in DOMAIN members : SeverityOf(members[i]) = s})]

(* Python does not compare aware with naive timestamps.                    *)
TimeRangeFails(members) == Cardinality({ZoneOf(members[i]) : i \in DOMAIN members}) > 1

(* Cluster() rejects a breakdown with None among its keys.                 *)
BuildClusters ==
    /\ stage = "classifying"
    /\ Len(classified) = Len(clusters)
    /\ IF \E c \in Range(clusters) :
            TimeRangeFails(c.members) \/ NoSeverity \in DOMAIN SeverityBreakdown(c.members)
       THEN Raise("build")
       ELSE GoTo("recommending") /\ UNCHANGED bars

Occurrences(labels, label) == {i \in DOMAIN labels : labels[i] = label}

(* The labels in order of appearance, stably sorted by falling count, cut. *)
DominantClasses(labels) ==
    LET Before(a, b) ==
            LET m == Occurrences(labels, a)
                n == Occurrences(labels, b)
            IN  \/ Cardinality(m) > Cardinality(n)
                \/ Cardinality(m) = Cardinality(n) /\ Min(m) < Min(n)
        sorted == InOrder(Range(labels), Before)
        shown == SubSeq(sorted, 1, Min({TopClasses, Len(sorted)}))
    IN  [k \in DOMAIN shown |->
           [label |-> shown[k], count |-> Cardinality(Occurrences(labels, shown[k]))]]

(* Mutant of MaxSeverity: the most frequent severity.                      *)
MaxSeverityByCount(breakdown) ==
    CHOOSE s \in DOMAIN breakdown : \A r \in DOMAIN breakdown : breakdown[r] <= breakdown[s]

MaxSeverity(breakdown) ==
    LET present == {s \in DOMAIN breakdown : breakdown[s] > 0}
    IN  IF present = {} THEN 1 ELSE Max(present)

SeverityToPriority(s) ==
    CASE s \in {4, 5} -> "critical"
      [] s = 3        -> "high"
      [] s = 2        -> "medium"
      [] s = 1        -> "low"
      [] s = 0        -> "informational"

(* An incident; "skipped" and "fallback" ones take their priority from the *)
(* severities, the others carry the one the LLM chose.                     *)
Incident(k, how) ==
    LET breakdown == SeverityBreakdown(clusters[k].members)
    IN  [cluster   |-> clusters[k].id,
         size      |-> Len(clusters[k].members),
         breakdown |-> breakdown,
         classes   |-> DominantClasses(classified[k]),
         how       |-> how,
         priority  |-> IF how = "llm" THEN "llm" ELSE SeverityToPriority(MaxSeverity(breakdown))]

Deliver(outcomes) ==
    /\ incidents' = [k \in DOMAIN clusters |-> Incident(k, outcomes[k])]
    /\ stage' = "json"
    /\ UNCHANGED <<loaderVars, options, failure, clusters, nClusters, nNoise, disabled,
                   preds, classified, bars, disk>>

Skipping == options.skip \/ ~options.generator

SkipRecommendations ==
    /\ stage = "recommending"
    /\ Skipping
    /\ Deliver([k \in DOMAIN clusters |-> "skipped"])

(* _generate_all(): an incident for every cluster, or an exception.        *)
Recommended ==
    /\ stage = "recommending"
    /\ ~Skipping
    /\ \/ \E outcomes \in [DOMAIN clusters -> {"llm", "fallback"}] : Deliver(outcomes)
       \/ clusters # <<>> /\ Raise("recommend")

Write(path, content, next) ==
    /\ disk' = [disk EXCEPT ![path] = content]
    /\ stage' = next
    /\ UNCHANGED <<loaderVars, options, failure, clusters, nClusters, nNoise, disabled,
                   preds, classified, incidents, bars>>

WriteJson ==
    /\ stage = "json"
    /\ Write(options.output, "json", IF options.markdown THEN "markdown" ELSE "finished")

(* json_path.with_suffix(".md").                                           *)
WriteMarkdown == stage = "markdown" /\ Write("report.md", "markdown", "finished")

(* The disk is full, or the path cannot be written.                        *)
WriteFails == stage \in {"json", "markdown"} /\ Raise("write")

PipelineStep ==
    \/ Load \/ Loaded \/ BuildPipeline
    \/ Embed
    \/ Cluster
    \/ ClassifyBatch \/ ClassifyUnsupported \/ ClassifyFails \/ NotClassified
    \/ BuildClusters
    \/ SkipRecommendations \/ Recommended
    \/ WriteJson \/ WriteMarkdown \/ WriteFails

PipelineOver == stage \in {"finished", "failed"} /\ UNCHANGED allVars

PipelineNext == PipelineStep \/ PipelineOver

(* One process that never waits for good: every await has a timeout.       *)
PipelineSpec == PipelineInit /\ [][PipelineNext]_allVars /\ WF_allVars(PipelineStep)
-----------------------------------------------------------------------------
Delivered == stage \in {"json", "markdown", "finished"}

PipelineTypeOK ==
    /\ LoaderTypeOK
    /\ options \in Options
    /\ stage \in {"loading", "building", "embedding", "clustering", "classifying", "recommending",
                  "json", "markdown", "finished", "failed"}
    /\ failure \in {"none", "load", "options", "construct", "request", "embed", "cluster",
                    "classify", "build", "recommend", "write"}
    /\ clusters \in Seq([id : Int, members : Seq(DOMAIN logs)])
    /\ nClusters \in Nat /\ nNoise \in Nat
    /\ disabled \in BOOLEAN
    /\ preds \in Seq(Labels)
    /\ classified \in Seq(Seq(Labels))
    /\ bars \in [{"embedding", "clustering", "classifying"} -> {<<>>} \cup (Nat \X Nat)]
    /\ disk \in [{"report.json", "report.md"} -> {"none", "json", "markdown"}]

(* Every entry of the export is in exactly one incident, or is one of the  *)
(* n_noise logs that the run was told to leave out; n_clusters and the     *)
(* number of incidents agree.                                              *)
Reported == {m \in DOMAIN logs : \E c \in Range(clusters) : m \in Range(c.members)}

EveryLogAccounted ==
    Delivered =>
        /\ SumFunction([k \in DOMAIN incidents |-> incidents[k].size]) = Cardinality(Reported)
        /\ Cardinality(Reported) = Len(logs) - (IF options.noise THEN 0 ELSE nNoise)
        /\ Len(incidents) = nClusters + (IF options.noise /\ nNoise > 0 THEN 1 ELSE 0)

(* The evidence of an incident is that of its own logs: severities add up  *)
(* to its size, and the classes are absent altogether or, as long as none  *)
(* is cut off, add up to it too: never the predictions of half a cluster.  *)
EvidenceWhole ==
    Delivered =>
        \A k \in DOMAIN incidents :
            LET counted == SumFunction([n \in DOMAIN incidents[k].classes |->
                                          incidents[k].classes[n].count])
            IN  /\ SumFunction(incidents[k].breakdown) = incidents[k].size
                /\ counted <= incidents[k].size
                /\ Len(incidents[k].classes) \in 1..(TopClasses - 1) => counted = incidents[k].size

(* The first 501 disables classification for the rest: clusters with       *)
(* classes come before those without, never again after an outage.         *)
DisabledForTheRest ==
    Delivered =>
        \A k, n \in DOMAIN incidents :
            k < n /\ incidents[k].classes = <<>> => incidents[n].classes = <<>>

(* Without an answer of the LLM the priority is that of the worst log of   *)
(* the cluster, whatever else is in it.                                    *)
WorstLogDecides ==
    Delivered =>
        \A k \in DOMAIN incidents : incidents[k].how # "llm" =>
            \A m \in Range(clusters[k].members) :
                /\ SeverityOf(m) >= 4 => incidents[k].priority = "critical"
                /\ SeverityOf(m) = 3 => incidents[k].priority \in {"high", "critical"}
                /\ SeverityOf(m) = 2 => incidents[k].priority \notin {"low", "informational"}
                /\ SeverityOf(m) = 1 => incidents[k].priority # "informational"

(* The bars tell the truth: what was asked of the classifier, out of all   *)
(* clusters.  A bar that stays short of its total means that the service   *)
(* has no classifier, and the clusters beyond it have no classes.  What a  *)
(* run with --skip-recommendations ought to ask of the classifier is left  *)
(* open, as README.md does not agree with the code.                        *)
BarsTrue ==
    Delivered =>
        /\ bars.embedding = <<Len(logs), Len(logs)>> /\ bars.clustering = <<1, 1>>
        /\ ~options.skip =>
              (bars.classifying = <<>> <=> ~options.classifier \/ clusters = <<>>)
        /\ bars.classifying # <<>> =>
              /\ bars.classifying[2] = Len(incidents)
              /\ \A k \in DOMAIN incidents :
                    incidents[k].classes # <<>> <=>
                       k < bars.classifying[1] \/ (k = Len(incidents) /\ ~disabled)
              /\ ~disabled => bars.classifying[1] = Len(incidents)

(* An export that is what it is told to be, whose lines are all objects    *)
(* without an infinite port, and whose entries all have a severity,        *)
(* timestamps of one kind and descriptions that fit, read with options     *)
(* that are in range, is analysed to the end, whatever its invalid rows    *)
(* are and however HDBSCAN groups it, unless something outside raises:     *)
(* Chroma, the inference service, HDBSCAN, the LLM or the disk.            *)
CleanInput ==
    /\ Entries # {}
    /\ \A i \in DOMAIN file.rows : file.rows[i].kind \in {"blank", "object"} /\ ~Overflows(i)
    /\ \A i \in Entries : SeverityAt(i) # NoSeverity /\ Cells(i).description # "long"
    /\ \A i, k \in Entries : file.rows[i].zone = file.rows[k].zone
    /\ options.batch \in 1..MaxTexts /\ options.minCluster >= 2

CleanRunReports ==
    CleanInput =>
        <>(\/ stage = "finished" /\ disk[options.output] # "none"
           \/ failure \in {"construct", "embed", "cluster", "classify", "recommend", "write"})

(* What LogEntry declares, severity being optional: a log without one is a *)
(* log process() can run on.                                               *)
SeverityIsOptional ==
    failure = "build" => \E c \in Range(clusters) : TimeRangeFails(c.members)

(* What the help of --output and --markdown says: a JSON report at the     *)
(* given path, and a Markdown report in addition.                          *)
JsonReportWritten == stage = "finished" => disk[options.output] = "json"
=============================================================================
