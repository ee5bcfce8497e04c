--------------------------- MODULE IncidentStage ---------------------------
(***************************************************************************)
(* What the recommendation stage of SOCPipeline promises its caller, with  *)
(* no LLM, retriever, semaphore or event loop in sight: clusters become    *)
(* incidents one at a time, and the stage either hands over one incident   *)
(* per cluster or none at all.                                             *)
(***************************************************************************)
EXTENDS FiniteSets, Naturals

CONSTANT Clusters

VARIABLES produced,  \* the clusters whose incident exists
          reported,  \* the last number given to the progress callback
          verdict    \* "pending", "result" or "noResult"

stageVars == <<produced, reported, verdict>>

StageInit ==
    /\ produced = {}
    /\ reported = 0
    /\ verdict = "pending"

(* One more incident exists, and the callback hears how many there are.    *)
Produce ==
    /\ verdict # "result"
    /\ \E c \in Clusters \ produced :
          /\ produced' = produced \cup {c}
          /\ reported' = Cardinality(produced')
    /\ UNCHANGED verdict

Deliver ==
    /\ verdict = "pending"
    /\ produced = Clusters
    /\ verdict' = "result"
    /\ UNCHANGED <<produced, reported>>

GiveUp ==
    /\ verdict = "pending"
    /\ verdict' = "noResult"
    /\ UNCHANGED <<produced, reported>>

StageNext == Produce \/ Deliver \/ GiveUp

(* What the caller may never see, apart from the promise of a verdict.     *)
StageSafety == StageInit /\ [][StageNext]_stageVars

StageSpec == StageSafety /\ <>(verdict # "pending")
=============================================================================
