----------------------------- MODULE WorkOrderRun -----------------------------
(***************************************************************************)
(* The stage machine of one research run (class WorkOrderRun of            *)
(* work_orders.py), as operators on the run's state, run-state.json, and   *)
(* on its accepted submissions, the files under submissions/.              *)
(*                                                                         *)
(* What a model or a host produces is opaque: a result is an id, the       *)
(* verdict that the code branches on and the ids of the results it was     *)
(* made from.  An id stands for a content; 0 stands for no content.        *)
(***************************************************************************)
EXTENDS Naturals, Sequences, FiniteSets

SequenceExt == INSTANCE SequencesExt

CONSTANT MaxReviewIterations

ASSUME ReviewAssumption == MaxReviewIterations \in Nat \ {0}

BaseStageSequence ==
  <<"research_planning", "source_retrieval", "semantic_rerank",
    "evidence_extraction", "citation_support_audit", "argument_construction",
    "draft_generation", "prose_transformation", "semantic_verification",
    "hostile_review">>

Stages ==
  {BaseStageSequence[i] : i \in DOMAIN BaseStageSequence} \cup {"revision"}

Statuses == {"ACTIVE", "READY_TO_FINALISE", "REVIEW_REQUIRED", "APPROVED"}

\* A revision goes through three more stages to its review.
MaxSubmissions == Len(BaseStageSequence) + 4 * (MaxReviewIterations - 1)

\* The n-th submission is in the file NN-<stage>.json.  The stages before a
\* position leave one stage possible there, so the position names the file.
Positions == 1..MaxSubmissions

Run ==
  [status      : Statuses,
   stage       : Stages \cup {"none"},
   iteration   : 0..MaxReviewIterations,
   revisions   : Nat,
   submissions : Seq(Stages)]

NewRun ==
  [status |-> "ACTIVE", stage |-> "research_planning", iteration |-> 0,
   revisions |-> 0, submissions |-> << >>]

\* Which key carries the transformed text; REJECT acts like REVIEW; whether a
\* review has blocker or major findings.
Verdicts(stage) ==
  CASE stage = "prose_transformation"  -> {"candidate", "final_text"}
    [] stage = "semantic_verification" -> {"PASS", "REVIEW"}
    [] stage = "hostile_review"        -> {"clear", "blocking"}
    [] OTHER                           -> {"accepted"}

\* article is the text that a hostile review was given, reads all its inputs.
Result ==
  [stage : Stages, id : Nat, verdict : UNION {Verdicts(s) : s \in Stages},
   reads : SUBSET Nat, article : Nat]

NoResult ==
  [stage |-> "revision", id |-> 0, verdict |-> "accepted", reads |-> {},
   article |-> 0]

NoFiles == [n \in Positions |-> NoResult]

\* Ids of contents that are mentioned nowhere any more are used again.
MentionedBy(results) ==
  UNION {{r.id, r.article} \cup r.reads : r \in results}

FreshId(results) ==
  LET mentioned == MentionedBy(results)
  IN  CHOOSE i \in 1..(Cardinality(mentioned) + 1) : i \notin mentioned

-----------------------------------------------------------------------------
(* _latest and what is built on it. *)

LastIndex(run, stage) ==
  SequenceExt!SelectLastInSeq(run.submissions, LAMBDA s : s = stage)

Latest(run, files, stage) ==
  IF LastIndex(run, stage) = 0 THEN NoResult ELSE files[LastIndex(run, stage)]

Id(run, files, stage) == Latest(run, files, stage).id

TextStage(run) ==
  IF LastIndex(run, "revision") # 0 THEN "revision" ELSE "draft_generation"

TextId(run, files) == Id(run, files, TextStage(run))

Verified(run, files) ==
  Latest(run, files, "semantic_verification").verdict = "PASS"

-----------------------------------------------------------------------------
(* _work_inputs *)

InputStages(stage) ==
  CASE stage = "source_retrieval"       -> {"research_planning"}
    [] stage = "semantic_rerank"        -> {"source_retrieval"}
    [] stage = "evidence_extraction"    -> {"source_retrieval", "semantic_rerank"}
    [] stage = "citation_support_audit" -> {"evidence_extraction", "source_retrieval"}
    [] stage = "argument_construction"  ->
         {"research_planning", "evidence_extraction", "citation_support_audit"}
    [] stage = "draft_generation"       ->
         {"research_planning", "source_retrieval", "evidence_extraction",
          "citation_support_audit", "argument_construction"}
    [] stage \in {"revision", "hostile_review"} ->
         {"source_retrieval", "evidence_extraction", "citation_support_audit",
          "argument_construction"}
    [] stage = "semantic_verification"  -> {"prose_transformation"}
    [] OTHER                            -> {}

\* Mutant: the review is given the untransformed text.
ReviewUntransformed(run, files) == TextId(run, files)

\* The review reads only the key "candidate" of the transformation.
ReviewArticle(run, files) ==
  IF ~Verified(run, files) THEN TextId(run, files)
  ELSE IF Latest(run, files, "prose_transformation").verdict = "candidate"
  THEN Id(run, files, "prose_transformation") ELSE 0

TextInputs(run, files, stage) ==
  CASE stage = "revision" ->
         {TextId(run, files), Id(run, files, "hostile_review")}
    [] stage \in {"prose_transformation", "semantic_verification"} ->
         {TextId(run, files)}
    [] stage = "hostile_review" -> {ReviewArticle(run, files)} \ {0}
    [] OTHER -> {}

WorkInputs(run, files, stage) ==
  {Id(run, files, s) : s \in InputStages(stage)}
    \cup TextInputs(run, files, stage)

\* The text that export_host_bundle and finalize_work_order_run release.
FinalText(run, files) ==
  IF Verified(run, files) THEN Id(run, files, "prose_transformation")
                          ELSE TextId(run, files)

-----------------------------------------------------------------------------
(* _advance *)

\* Mutant: the review that clears the text is not counted.
ReviewedUncounted(run, verdict) ==
  IF verdict = "clear"
  THEN [run EXCEPT !.status = "READY_TO_FINALISE", !.stage = "none"]
  ELSE IF run.iteration + 1 >= MaxReviewIterations
  THEN [run EXCEPT !.iteration = @ + 1, !.status = "REVIEW_REQUIRED", !.stage = "none"]
  ELSE [run EXCEPT !.iteration = @ + 1, !.stage = "revision"]

Reviewed(run, verdict) ==
  LET counted == [run EXCEPT !.iteration = @ + 1]
  IN  IF verdict = "clear"
      THEN [counted EXCEPT !.status = "READY_TO_FINALISE", !.stage = "none"]
      ELSE IF counted.iteration >= MaxReviewIterations
      THEN [counted EXCEPT !.status = "REVIEW_REQUIRED", !.stage = "none"]
      ELSE [counted EXCEPT !.stage = "revision"]

Advance(run, stage, verdict) ==
  CASE stage = "hostile_review" -> Reviewed(run, verdict)
    [] stage = "revision" ->
         [run EXCEPT !.revisions = @ + 1, !.stage = "prose_transformation"]
    [] OTHER ->
         [run EXCEPT !.stage =
            BaseStageSequence[1 + CHOOSE i \in DOMAIN BaseStageSequence :
                                    BaseStageSequence[i] = stage]]

\* Mutant: a stage has one file.
StagePosition(run) ==
  IF LastIndex(run, run.stage) # 0 THEN LastIndex(run, run.stage)
  ELSE Len(run.submissions) + 1

\* submit, once the result is validated: the file's position and the new state.
NextPosition(run) == Len(run.submissions) + 1

Accept(run, result) ==
  Advance([run EXCEPT !.submissions = Append(@, result.stage)],
          result.stage, result.verdict)

-----------------------------------------------------------------------------
(* What a released run has to satisfy. *)

\* The last review found nothing blocking, and the text it was given is the text
\* that is released.
ReleasedTextReviewed(run, files) ==
  LET review == Latest(run, files, "hostile_review")
  IN  review.verdict = "clear" /\ review.article = FinalText(run, files)

\* Every result that the release rests on was made from the results that are
\* released with it, none of them replaced since.
CurrentStages(run) ==
  {run.submissions[i] : i \in DOMAIN run.submissions}
    \ (IF TextStage(run) = "revision" THEN {"draft_generation"} ELSE {})

Coherent(run, files) ==
  \A s \in CurrentStages(run) :
    /\ {Id(run, files, u) : u \in InputStages(s)}
         \subseteq Latest(run, files, s).reads
    /\ s \in {"prose_transformation", "semantic_verification"} =>
         TextId(run, files) \in Latest(run, files, s).reads
=============================================================================
