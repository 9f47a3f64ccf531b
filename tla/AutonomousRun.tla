---------------------------- MODULE AutonomousRun ----------------------------
(***************************************************************************)
(* A run that AutonomousSWOS (orchestrator.py) drives from its request to  *)
(* its release in one process: each step calls one broker capability and   *)
(* records what it returns.  Beyond the stage machine it expands the       *)
(* research, a bounded number of times, while the evidence is thin and     *)
(* when a review asks for it; it then replaces accepted submissions by new *)
(* ones, in place.  The run's directory is temporary and its own.          *)
(***************************************************************************)
EXTENDS WorkOrderRun

CONSTANT MaxExpansions  \* MAX_RESEARCH_EXPANSIONS

ASSUME ExpansionAssumption == MaxExpansions \in Nat

VARIABLES
  run,        \* the state of the WorkOrderRun
  files,      \* its submissions
  expansions, \* entries of research_expansions
  diversity,  \* the recorded report: what it measured, its verdict
  held,       \* extracted evidence, before the decision to expand the research
  pc,         \* the step of _fulfil, or the stage to be rebuilt
  outcome     \* what run() returns

vars == <<run, files, expansions, diversity, held, pc, outcome>>

Rebuilt == {"evidence_extraction", "citation_support_audit", "argument_construction"}

Steps == {"fulfil", "extracted", "draft_generation"} \cup Rebuilt

NoReport == [of |-> {}, status |-> "none"]

Report == [of : SUBSET Nat, status : {"none", "pass", "fail"}]

Active == outcome = "none" /\ run.status = "ACTIVE"

At(step, stage) == Active /\ pc = step /\ run.stage = stage

\* The report mentions contents, too.
New(fs) ==
  FreshId({fs[n] : n \in Positions}
            \cup {held, [NoResult EXCEPT !.reads = diversity.of]})

-----------------------------------------------------------------------------
(* What the broker is given and returns. *)

\* Some stages also see the ranking.
BrokerStages(stage) ==
  InputStages(stage) \cup
    (IF stage \in {"citation_support_audit", "hostile_review"}
     THEN {"semantic_rerank"} ELSE {})

\* Mutant: the review is given the untransformed text.
ReviewSource(fs) == TextId(run, fs)

\* The review is given the transformed text under either of its keys.
ReviewText(fs) == FinalText(run, fs)

Returned(fs, stage, verdict) ==
  LET texts == CASE stage = "hostile_review"        -> {ReviewText(fs)}
                 [] stage = "semantic_verification" ->
                      {TextId(run, fs), Id(run, fs, "prose_transformation")}
                 [] OTHER                           -> TextInputs(run, fs, stage)
  IN  [stage   |-> stage,
       id      |-> New(fs),
       verdict |-> verdict,
       reads   |-> {Id(run, fs, s) : s \in BrokerStages(stage)} \cup texts,
       article |-> IF stage = "hostile_review" THEN ReviewText(fs) ELSE 0]

\* The broker's transformation always has the key "candidate".
BrokerVerdicts(stage) ==
  IF stage = "prose_transformation" THEN {"candidate"} ELSE Verdicts(stage)

Submit(result) ==
  /\ files' = [files EXCEPT ![NextPosition(run)] = result]
  /\ run' = Accept(run, result)
  /\ held' = NoResult
  /\ pc' = "fulfil"

\* replace_latest_submission
Replaced(fs, result) == [fs EXCEPT ![LastIndex(run, result.stage)] = result]

-----------------------------------------------------------------------------
(* The stages that one call and one submission fulfil. *)

FulfilStage ==
  /\ Active
  /\ pc = "fulfil"
  /\ run.stage \notin {"evidence_extraction", "citation_support_audit"}
  /\ \E v \in BrokerVerdicts(run.stage) : Submit(Returned(files, run.stage, v))
  /\ UNCHANGED <<expansions, diversity, outcome>>

\* _measure_diversity, if the plan has a requirement: the retrieved sources and
\* the claims of the evidence that the audit admits.
Measured ==
  {Id(run', files', s) :
     s \in {"source_retrieval", "evidence_extraction", "citation_support_audit"}}

Audit ==
  /\ At("fulfil", "citation_support_audit")
  /\ Submit(Returned(files, run.stage, "accepted"))
  /\ \/ UNCHANGED diversity
     \/ \E s \in {"pass", "fail"} : diversity' = [of |-> Measured, status |-> s]
  /\ UNCHANGED <<expansions, outcome>>

-----------------------------------------------------------------------------
(* _expand_research *)

\* Mutant: the expansion is not recorded.
CountNothing == expansions < MaxExpansions /\ UNCHANGED expansions

\* An expansion counts even when it adds nothing.
Count == expansions < MaxExpansions /\ expansions' = expansions + 1

\* The new sources join the old ones; the plan or the review asks for them.
MoreSources ==
  [Latest(run, files, "source_retrieval") EXCEPT
     !.id = New(files),
     !.reads = @ \cup (IF run.stage = "revision"
                       THEN {Id(run, files, "hostile_review")} ELSE {})]

\* Mutant: the sources are not ranked again.
AddSourcesUnranked == files' = Replaced(files, MoreSources)

AddSources ==
  LET fs == Replaced(files, MoreSources)
  IN  files' = Replaced(fs, Returned(fs, "semantic_rerank", "accepted"))

-----------------------------------------------------------------------------
(* The evidence stage: extract, and expand the research while it is thin. *)

Extract ==
  /\ At("fulfil", "evidence_extraction")
  /\ held' = Returned(files, run.stage, "accepted")
  /\ pc' = "extracted"
  /\ UNCHANGED <<run, files, expansions, diversity, outcome>>

\* The evidence suffices, or no expansion is left.
SubmitEvidence ==
  /\ At("extracted", "evidence_extraction")
  /\ Submit(held)
  /\ UNCHANGED <<expansions, diversity, outcome>>

ExpandEvidence ==
  /\ At("extracted", "evidence_extraction")
  /\ Count
  /\ \/ AddSources /\ held' = NoResult /\ pc' = "fulfil" /\ UNCHANGED run
     \/ Submit(held)
  /\ UNCHANGED <<diversity, outcome>>

-----------------------------------------------------------------------------
(* The revision stage, when a blocking finding asks for research and some is   *)
(* added; otherwise FulfilStage revises the text.                              *)

RepairResearch ==
  /\ At("fulfil", "revision")
  /\ Count
  /\ \/ /\ AddSources
        /\ pc' = "evidence_extraction"
        /\ UNCHANGED <<run, held>>
     \/ Submit(Returned(files, "revision", "accepted"))
  /\ UNCHANGED <<diversity, outcome>>

\* Mutant: the new evidence is not audited.
RebuildUnaudited(stage) ==
  IF stage = "evidence_extraction" THEN "argument_construction"
                                   ELSE "draft_generation"

NextRebuilt(stage) ==
  CASE stage = "evidence_extraction"    -> "citation_support_audit"
    [] stage = "citation_support_audit" -> "argument_construction"
    [] stage = "argument_construction"  -> "draft_generation"

\* _rebuild_research_stages
Rebuild ==
  /\ Active
  /\ pc \in Rebuilt
  /\ files' = Replaced(files, Returned(files, pc, "accepted"))
  /\ pc' = NextRebuilt(pc)
  /\ UNCHANGED <<run, expansions, diversity, held, outcome>>

\* A new draft is submitted as the revision.
Redraft ==
  /\ At("draft_generation", "revision")
  /\ Submit([Returned(files, "draft_generation", "accepted") EXCEPT
                !.stage = "revision"])
  /\ UNCHANGED <<expansions, diversity, outcome>>

-----------------------------------------------------------------------------
(* run() *)

\* A capability fails, or its result is not valid.
Fail ==
  /\ Active
  /\ outcome' = "REVIEW_REQUIRED"
  /\ UNCHANGED <<run, files, expansions, diversity, held, pc>>

\* The reviews found blockers to the end.
GiveUp ==
  /\ outcome = "none"
  /\ run.status = "REVIEW_REQUIRED"
  /\ outcome' = "REVIEW_REQUIRED"
  /\ UNCHANGED <<run, files, expansions, diversity, held, pc>>

\* finalize_work_order_run: a diversity report that did not pass blocks; so may
\* other checks.
Finalise ==
  /\ outcome = "none"
  /\ run.status = "READY_TO_FINALISE"
  /\ \/ outcome' = "REVIEW_REQUIRED"
     \/ outcome' = "APPROVED" /\ diversity.status # "fail"
  /\ run' = [run EXCEPT !.status = outcome']
  /\ UNCHANGED <<files, expansions, diversity, held, pc>>

Init ==
  /\ run = NewRun
  /\ files = NoFiles
  /\ expansions = 0
  /\ diversity = NoReport
  /\ held = NoResult
  /\ pc = "fulfil"
  /\ outcome = "none"

Next ==
  \/ FulfilStage \/ Audit \/ Extract \/ SubmitEvidence \/ ExpandEvidence
  \/ RepairResearch \/ Rebuild \/ Redraft \/ Fail \/ GiveUp \/ Finalise

Spec == Init /\ [][Next]_vars

\* run() loops until it has an outcome, and each call of the broker returns.
FairSpec == Spec /\ WF_vars(Next)

-----------------------------------------------------------------------------
(* Properties *)

TypeOK ==
  /\ run \in Run
  /\ Len(run.submissions) <= MaxSubmissions
  /\ files \in [Positions -> Result]
  /\ expansions \in 0..MaxExpansions
  /\ diversity \in Report
  /\ held \in Result
  /\ pc \in Steps
  /\ outcome \in {"none", "APPROVED", "REVIEW_REQUIRED"}

Released == run.status \in {"READY_TO_FINALISE", "APPROVED"}

\* However often submissions were replaced in place, everything a release rests
\* on was made from what is released with it.
ReleaseCoherent == Released => Coherent(run, files)

\* What is released is the text that the last review was given and cleared.
ReleaseReviewed == Released => ReleasedTextReviewed(run, files)

\* Claims and audits are joined by index (_verified_candidate_rows): wherever they
\* are used, the audit in force was made of the evidence in force.
Joining ==
  \/ Released
  \/ pc \in {"argument_construction", "draft_generation"}
  \/ /\ pc = "fulfil"
     /\ run.stage \in {"argument_construction", "draft_generation", "hostile_review",
                       "revision"}

RowsJoined ==
  Joining => Id(run, files, "evidence_extraction")
               \in Latest(run, files, "citation_support_audit").reads

\* Every run has an outcome: expansions and reviews are bounded.
RunEnds == <>(outcome # "none")
=============================================================================
