------------------------------- MODULE Promotion -------------------------------
(***************************************************************************)
(* The promotion of a capability (the second half of image_analysis.py).   *)
(* A candidate's evidence is assessed against a baseline's, a person       *)
(* approves an assessment, and a commit with both enables the capability   *)
(* until it is rolled back.  Nothing is stored: whoever holds an           *)
(* assessment and an approval may commit them, late or again.              *)
(***************************************************************************)
EXTENDS Clock, Integers, Sequences, FiniteSets, FiniteSetsExt

CONSTANTS
  Pairs,           \* evidence of a baseline and of a candidate
  MinImprovement,  \* policy: the least mean improvement
  MaxAssessments   \* bound: assessments

(* gated: the capability's primary metric is one of those that is only       *)
(* accepted case by case.  base and cand: the scores of the cases, and the   *)
(* cases that have human truth.  drawn: both name their draws.  manifest:    *)
(* both name the same evaluation manifest.  paired: both were made with the  *)
(* same source, provider, model, configuration, prompts, seed, draws and     *)
(* artifact.  gain and lower: what the candidate claims in total when there  *)
(* are no cases.  sound: live evidence, quorum, safety, rollback, status and *)
(* blocking metrics raise no objection.  until: when the evidence expires.   *)

Side(s) == /\ IsFiniteSet(DOMAIN s.scores)
           /\ s.judged \subseteq DOMAIN s.scores
           /\ \A c \in DOMAIN s.scores : s.scores[c] \in Nat

ASSUME PromotionAssumption ==
  /\ \A p \in Pairs :
       /\ Side(p.base) /\ Side(p.cand)
       /\ {p.gated, p.drawn, p.manifest, p.paired, p.sound, p.lower} \subseteq BOOLEAN
       /\ p.gain \in Int /\ p.until \in Nat
  /\ MinImprovement \in Int
  /\ MaxAssessments \in Nat

VARIABLES
  assessments,  \* the assessments made
  approval,     \* the approval at hand
  decision      \* the decision in force

promotionVars == <<now, assessments, approval, decision>>

-----------------------------------------------------------------------------
None == <<>>

Cases(p) == DOMAIN p.base.scores

Difference(p, c) == p.cand.scores[c] - p.base.scores[c]

Differences(p) == {Difference(p, c) : c \in Cases(p)}

CaseLevel(p) ==
  p.gated \/ DOMAIN p.base.scores # {} \/ DOMAIN p.cand.scores # {}

\* _case_level_scores: at least two cases, all of them judged by people.
Scored(s) == Cardinality(DOMAIN s.scores) >= 2 /\ s.judged = DOMAIN s.scores

\* The cases of the two sides can be compared.
Compared(p) ==
  /\ Scored(p.base) /\ Scored(p.cand)
  /\ DOMAIN p.base.scores = DOMAIN p.cand.scores
  /\ p.drawn /\ p.manifest

\* The mean improvement reaches the policy's, in the units of one case.
Improves(p) ==
  IF CaseLevel(p)
  THEN /\ Compared(p)
       /\ MapThenSumSet(LAMBDA c : Difference(p, c), Cases(p))
            >= MinImprovement * Cardinality(Cases(p))
  ELSE p.gain >= MinImprovement

\* _paired_bootstrap: the lower bound of the resampled means is one of the
\* values between the least and the greatest difference.
LowerBoundPositive(p) ==
  IF ~CaseLevel(p) THEN {p.lower}
  ELSE IF ~Compared(p) THEN {FALSE}
  ELSE {positive \in BOOLEAN :
          IF positive THEN \E d \in Differences(p) : d > 0
                      ELSE \E d \in Differences(p) : d <= 0}

\* assess_promotion
Assess(p) ==
  /\ Len(assessments) < MaxAssessments
  /\ \E positive \in LowerBoundPositive(p) :
       assessments' = Append(assessments,
         [pair |-> p, at |-> now,
          eligible |-> /\ p.paired /\ p.sound
                       /\ Improves(p) /\ positive
                       /\ CaseLevel(p) => Compared(p)
                       /\ NotExpired(p.until)])
  /\ UNCHANGED <<now, approval, decision>>

\* A person, outside the code, approves an assessment.  The approval says itself
\* when it was given, when it lapses, and which assessment's candidate, scope,
\* records and policy it is for.
Approve(i) ==
  /\ \E b \in DOMAIN assessments, at, until \in 0..MaxTime :
       approval' = [assessment |-> i, bound |-> b, at |-> at, until |-> until]
  /\ UNCHANGED <<now, assessments, decision>>

\* Mutant: the assessment that was approved is not compared.
CommitsBound(i) ==
  /\ approval # None
  /\ assessments[i].eligible
  /\ assessments[approval.bound].pair = assessments[i].pair
  /\ approval.at <= now
  /\ NotExpired(approval.until)

Commits(i) ==
  /\ approval # None
  /\ assessments[i].eligible
  /\ approval.assessment = i
  /\ assessments[approval.bound].pair = assessments[i].pair
  /\ assessments[i].at <= approval.at /\ approval.at <= now
  /\ NotExpired(approval.until)

\* commit_promotion: what the evidence's expiry is by now is not looked at.
Commit(i) ==
  /\ decision' = IF Commits(i)
                 THEN [state |-> "enabled", assessment |-> i, at |-> now,
                       approved |-> approval.assessment, given |-> approval.at]
                 ELSE [state |-> "disabled"]
  /\ UNCHANGED <<now, assessments, approval>>

\* rollback_promotion
Rollback ==
  /\ decision.state # "none"
  /\ decision' = [decision EXCEPT !.state = "rolled_back"]
  /\ UNCHANGED <<now, assessments, approval>>

PromotionInit ==
  /\ now = 1
  /\ assessments = <<>>
  /\ approval = None
  /\ decision = [state |-> "none"]

PromotionNext ==
  \/ \E p \in Pairs : Assess(p)
  \/ \E i \in DOMAIN assessments : Approve(i) \/ Commit(i)
  \/ Rollback
  \/ Tick /\ UNCHANGED <<assessments, approval, decision>>

PromotionSpec == PromotionInit /\ [][PromotionNext]_promotionVars

-----------------------------------------------------------------------------
(* Properties. *)

\* An enabled capability was approved by someone who had its assessment, after it
\* was made and before it was committed, and the candidate of that assessment was
\* better than the baseline: case by case, as people judged the cases, if the
\* metric asks for it, and on evidence that had not expired when it was assessed
\* (assess_promotion, commit_promotion).
EnabledIsEvidenced ==
  decision.state = "enabled" =>
    LET assessed == assessments[decision.assessment]
        p        == assessed.pair
    IN  /\ decision.approved = decision.assessment
        /\ decision.given \in assessed.at..decision.at
        /\ p.gated =>
             /\ Cases(p) = DOMAIN p.cand.scores
             /\ Cases(p) \subseteq p.base.judged \cap p.cand.judged
             /\ MapThenSumSet(LAMBDA c : Difference(p, c), Cases(p)) > 0
        /\ p.until = 0 \/ p.until > assessed.at
=============================================================================
