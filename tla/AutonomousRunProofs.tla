-------------------------- MODULE AutonomousRunProofs --------------------------
(***************************************************************************)
(* ReleaseCoherent, ReleaseReviewed and RowsJoined for any numbers of      *)
(* reviews and expansions.  Stages have ranks in the order of their        *)
(* inputs, revision with the draft that it replaces.  At every step there  *)
(* is a rank (Due) below which all results are sound: made from the        *)
(* results that are in force.  A submission or a replacement at that rank  *)
(* raises it by one; an expansion throws it back to the evidence.          *)
(***************************************************************************)
EXTENDS AutonomousRun, SequenceTheorems, TLAPS

Rank ==
  [s \in Stages |->
     CASE s = "research_planning"      -> 1
       [] s = "source_retrieval"       -> 2
       [] s = "semantic_rerank"        -> 3
       [] s = "evidence_extraction"    -> 4
       [] s = "citation_support_audit" -> 5
       [] s = "argument_construction"  -> 6
       [] s \in {"draft_generation", "revision"} -> 7
       [] s = "prose_transformation"   -> 8
       [] s = "semantic_verification"  -> 9
       [] s = "hostile_review"         -> 10]

RunState ==
  [status : Statuses, stage : Stages \cup {"none"}, iteration : Nat,
   revisions : Nat, submissions : Seq(Stages)]

\* Where in its rounds a run is: the base stages, or a cycle of four.
FirstRound(r) ==
  /\ r.iteration = 0
  /\ Len(r.submissions) < 10
  /\ r.stage = BaseStageSequence[Len(r.submissions) + 1]
  /\ LastIndex(r, "revision") = 0

\* The place of a stage in a cycle.
Turn(stage) ==
  CASE stage = "revision"              -> 0
    [] stage = "prose_transformation"  -> 1
    [] stage = "semantic_verification" -> 2
    [] stage = "hostile_review"        -> 3

LaterRound(r) ==
  /\ r.iteration \in 1..(MaxReviewIterations - 1)
  /\ r.stage \in {"revision", "prose_transformation", "semantic_verification",
                  "hostile_review"}
  /\ Len(r.submissions) = 10 + 4 * (r.iteration - 1) + Turn(r.stage)
  /\ r.stage # "revision" => LastIndex(r, "revision") # 0

Placed(r) ==
  /\ r.status = "ACTIVE" => FirstRound(r) \/ LaterRound(r)
  /\ r.status # "ACTIVE" => Len(r.submissions) >= 10
  /\ Len(r.submissions) <= MaxSubmissions

\* LastIndex finds every stage that was submitted, and all of the first ten were.
Indexed(r) ==
  /\ \A s \in Stages : /\ LastIndex(r, s) \in 0..Len(r.submissions)
                       /\ LastIndex(r, s) # 0 => r.submissions[LastIndex(r, s)] = s
  /\ \A i \in DOMAIN r.submissions : LastIndex(r, r.submissions[i]) # 0
  /\ \A i \in 1..10 : i <= Len(r.submissions) => LastIndex(r, BaseStageSequence[i]) # 0

GoodRun(r) == r \in RunState /\ Placed(r) /\ Indexed(r)

-----------------------------------------------------------------------------
(* Sound results, and the invariant. *)

\* A result was made from the results in force.
SoundAt(r, fs, s) ==
  /\ {Id(r, fs, u) : u \in InputStages(s)} \subseteq Latest(r, fs, s).reads
  /\ s \in {"prose_transformation", "semantic_verification"} =>
       TextId(r, fs) \in Latest(r, fs, s).reads

InForce(r, s) ==
  /\ LastIndex(r, s) # 0
  /\ s = "draft_generation" => LastIndex(r, "revision") = 0

SoundBelow(r, fs, d) ==
  \A s \in Stages : InForce(r, s) /\ Rank[s] < d => SoundAt(r, fs, s)

\* The rank that is to be made next; none after a review.
Due ==
  IF run.status # "ACTIVE" \/ (run.stage = "revision" /\ pc = "fulfil") THEN 11
  ELSE IF pc \in {"fulfil", "extracted"} THEN Rank[run.stage] ELSE Rank[pc]

\* Results are filed under their stages.
IsResult(x) ==
  x = [stage |-> x.stage, id |-> x.id, verdict |-> x.verdict, reads |-> x.reads,
       article |-> x.article]

Filed(r, fs) ==
  /\ fs = [n \in Positions |-> fs[n]]
  /\ \A s \in Stages :
       LastIndex(r, s) # 0 => Latest(r, fs, s).stage = s /\ IsResult(Latest(r, fs, s))

HeldSound ==
  /\ held.stage = "evidence_extraction" /\ IsResult(held)
  /\ {Id(run, files, u) : u \in InputStages("evidence_extraction")} \subseteq held.reads

IInv ==
  /\ GoodRun(run)
  /\ Filed(run, files)
  /\ pc \in Steps
  /\ pc = "extracted" =>
       run.status = "ACTIVE" /\ run.stage = "evidence_extraction" /\ HeldSound
  /\ pc \in Rebuilt \cup {"draft_generation"} =>
       run.status = "ACTIVE" /\ run.stage = "revision"
  /\ SoundBelow(run, files, Due)
  /\ ReleaseReviewed

-----------------------------------------------------------------------------
(* The stage machine. *)

LEMMA StageNames ==
  /\ DOMAIN BaseStageSequence = 1..10 /\ Len(BaseStageSequence) = 10
  /\ Stages = {"research_planning", "source_retrieval", "semantic_rerank",
               "evidence_extraction", "citation_support_audit",
               "argument_construction", "draft_generation", "prose_transformation",
               "semantic_verification", "hostile_review", "revision"}
  /\ Rank["research_planning"] = 1 /\ Rank["source_retrieval"] = 2
  /\ Rank["semantic_rerank"] = 3 /\ Rank["evidence_extraction"] = 4
  /\ Rank["citation_support_audit"] = 5 /\ Rank["argument_construction"] = 6
  /\ Rank["draft_generation"] = 7 /\ Rank["revision"] = 7
  /\ Rank["prose_transformation"] = 8 /\ Rank["semantic_verification"] = 9
  /\ Rank["hostile_review"] = 10
<1>1. Len(BaseStageSequence) = 10 /\ DOMAIN BaseStageSequence = 1..10
  BY DEF BaseStageSequence
<1>2. Stages = {BaseStageSequence[1], BaseStageSequence[2], BaseStageSequence[3],
                BaseStageSequence[4], BaseStageSequence[5], BaseStageSequence[6],
                BaseStageSequence[7], BaseStageSequence[8], BaseStageSequence[9],
                BaseStageSequence[10], "revision"}
  BY <1>1 DEF Stages
<1>3. Stages = {"research_planning", "source_retrieval", "semantic_rerank",
                "evidence_extraction", "citation_support_audit",
                "argument_construction", "draft_generation", "prose_transformation",
                "semantic_verification", "hostile_review", "revision"}
  BY <1>2 DEF BaseStageSequence
<1> QED BY <1>1, <1>3 DEF Rank

LEMMA BaseRanks ==
  /\ \A i \in 1..10 : BaseStageSequence[i] \in Stages /\ Rank[BaseStageSequence[i]] = i
  /\ \A s \in Stages : s # "revision" => BaseStageSequence[Rank[s]] = s
  /\ \A s \in Stages : Rank[s] \in 1..10
<1>1. /\ BaseStageSequence[1] = "research_planning"
      /\ BaseStageSequence[2] = "source_retrieval"
      /\ BaseStageSequence[3] = "semantic_rerank"
      /\ BaseStageSequence[4] = "evidence_extraction"
      /\ BaseStageSequence[5] = "citation_support_audit"
      /\ BaseStageSequence[6] = "argument_construction"
      /\ BaseStageSequence[7] = "draft_generation"
      /\ BaseStageSequence[8] = "prose_transformation"
      /\ BaseStageSequence[9] = "semantic_verification"
      /\ BaseStageSequence[10] = "hostile_review"
  BY DEF BaseStageSequence
<1> QED BY <1>1, StageNames

\* The stage that _advance puts next has the next rank.
LEMMA NextStage ==
  ASSUME NEW s \in Stages, s \notin {"hostile_review", "revision"}
  PROVE  LET next == BaseStageSequence[1 + CHOOSE i \in DOMAIN BaseStageSequence :
                                              BaseStageSequence[i] = s]
         IN  next = BaseStageSequence[Rank[s] + 1] /\ next \in Stages
             /\ next # "revision" /\ Rank[next] = Rank[s] + 1
<1> DEFINE k == CHOOSE i \in DOMAIN BaseStageSequence : BaseStageSequence[i] = s
<1>1. BaseStageSequence[Rank[s]] = s /\ Rank[s] \in 1..9
  BY BaseRanks, StageNames
<1>2. k \in 1..10 /\ BaseStageSequence[k] = s
  BY <1>1, StageNames
<1> HIDE DEF k
<1>3. k = Rank[s]
  BY <1>2, BaseRanks
<1>4. 1 + k \in 1..10 /\ 1 + k = Rank[s] + 1
  BY <1>1, <1>3
<1>5. BaseStageSequence[1 + k] # "revision"
  BY <1>4 DEF BaseStageSequence
<1> QED BY <1>4, <1>5, BaseRanks DEF k

\* Appending a stage moves its own last index only.
LEMMA IndexAppend ==
  ASSUME NEW r, NEW q, NEW x \in Stages, NEW s, r.submissions \in Seq(Stages),
         q.submissions = Append(r.submissions, x)
  PROVE  LastIndex(q, s) = IF s = x THEN Len(r.submissions) + 1 ELSE LastIndex(r, s)
<1> DEFINE Marks(seq) == {i \in 1..Len(seq) : seq[i] = s}
           n == Len(r.submissions)
<1>1. \A seq : LET last(R) == CHOOSE i \in R : \A j \in R : i >= j
               IN  \A t : t.submissions = seq =>
                     LastIndex(t, s) = IF Marks(seq) # {} THEN last(Marks(seq)) ELSE 0
  BY DEF LastIndex, SequenceExt!SelectLastInSeq, SequenceExt!Max
<1>2. /\ Len(q.submissions) = n + 1 /\ q.submissions[n + 1] = x /\ n \in Nat
      /\ \A i \in 1..n : q.submissions[i] = r.submissions[i]
  BY AppendProperties, LenProperties
<1>3. CASE s = x
  <2>1. n + 1 \in Marks(q.submissions) /\ \A i \in Marks(q.submissions) : n + 1 >= i
    BY <1>2, <1>3
  <2> DEFINE M == Marks(q.submissions)
             top == CHOOSE i \in M : \A j \in M : i >= j
  <2>2. LastIndex(q, s) = top
    BY <1>1, <2>1
  <2>3. top \in M /\ top >= n + 1
    BY <2>1
  <2>4. top = n + 1
    BY <1>2, <2>1, <2>3
  <2> QED BY <1>3, <2>2, <2>4
<1>4. CASE s # x
  <2>1. Marks(q.submissions) = Marks(r.submissions)
    BY <1>2, <1>4
  <2> HIDE DEF Marks
  <2> QED BY <1>1, <1>4, <2>1
<1> QED BY <1>3, <1>4

\* Appending the due stage keeps the indices in order.
LEMMA AppendIndexed ==
  ASSUME NEW r, NEW q, NEW x \in Stages, r.submissions \in Seq(Stages), Indexed(r),
         q.submissions = Append(r.submissions, x),
         Len(r.submissions) < 10 => x = BaseStageSequence[Len(r.submissions) + 1]
  PROVE  Indexed(q)
<1> DEFINE n == Len(r.submissions)
<1>1. /\ q.submissions \in Seq(Stages)
      /\ Len(q.submissions) = n + 1 /\ q.submissions[n + 1] = x /\ n \in Nat
      /\ \A i \in 1..n : q.submissions[i] = r.submissions[i]
      /\ DOMAIN r.submissions = 1..n /\ DOMAIN q.submissions = 1..(n + 1)
  BY AppendProperties, LenProperties
<1>2. \A s : LastIndex(q, s) = IF s = x THEN n + 1 ELSE LastIndex(r, s)
  BY IndexAppend
<1>3. ASSUME NEW s \in Stages
      PROVE  /\ LastIndex(q, s) \in 0..Len(q.submissions)
             /\ LastIndex(q, s) # 0 => q.submissions[LastIndex(q, s)] = s
  <2>1. LastIndex(r, s) \in 0..n
        /\ (LastIndex(r, s) # 0 => r.submissions[LastIndex(r, s)] = s)
    BY DEF Indexed
  <2>2. CASE s = x
    BY <1>1, <1>2, <2>2
  <2>3. CASE s # x
    <3>1. LastIndex(q, s) = LastIndex(r, s)
      BY <1>2, <2>3
    <3> HIDE DEF n
    <3> QED BY <1>1, <2>1, <3>1
  <2> QED BY <2>2, <2>3
<1>4. ASSUME NEW i \in DOMAIN q.submissions
      PROVE  LastIndex(q, q.submissions[i]) # 0
  <2>1. CASE i = n + 1
    BY <1>1, <1>2, <2>1
  <2>2. CASE i # n + 1
    <3>1. i \in DOMAIN r.submissions /\ q.submissions[i] = r.submissions[i]
      BY <1>1, <2>2
    <3>2. LastIndex(r, r.submissions[i]) # 0
      BY <3>1 DEF Indexed
    <3> QED BY <1>1, <1>2, <3>1, <3>2
  <2> QED BY <2>1, <2>2
<1>5. ASSUME NEW i \in 1..10, i <= Len(q.submissions)
      PROVE  LastIndex(q, BaseStageSequence[i]) # 0
  <2>1. CASE i = n + 1
    <3>1. x = BaseStageSequence[i]
      BY <1>1, <2>1
    <3> QED BY <1>1, <1>2, <3>1
  <2>2. CASE i # n + 1
    <3>1. i <= n
      BY <1>1, <1>5, <2>2
    <3>2. LastIndex(r, BaseStageSequence[i]) # 0
      BY <3>1 DEF Indexed
    <3> QED BY <1>1, <1>2, <3>2
  <2> QED BY <2>1, <2>2
<1> QED BY <1>3, <1>4, <1>5 DEF Indexed

LEMMA Turns ==
  /\ Turn("revision") = 0 /\ Turn("prose_transformation") = 1
  /\ Turn("semantic_verification") = 2 /\ Turn("hostile_review") = 3
BY DEF Turn

\* A cycle of four submissions fits, and the next one begins where it ends.
LEMMA Cycles ==
  ASSUME NEW m \in Nat, NEW i \in 1..(m - 1), NEW k \in 0..3
  PROVE  /\ 10 + 4 * (i - 1) + k >= 10
         /\ 10 + 4 * (i - 1) + k + 1 <= 10 + 4 * (m - 1)
         /\ k = 3 => 10 + 4 * (i - 1) + k + 1 = 10 + 4 * ((i + 1) - 1) + 0
         /\ 10 + 4 * (i - 1) + k + 1 = 10 + 4 * (i - 1) + (k + 1)
OBVIOUS

\* An active run is at a stage.
LEMMA ActiveStage ==
  ASSUME NEW r, GoodRun(r), r.status = "ACTIVE"
  PROVE  r.stage \in Stages
<1>1. Len(r.submissions) \in Nat /\ (FirstRound(r) \/ LaterRound(r))
  BY LenProperties DEF GoodRun, Placed, RunState
<1>2. CASE FirstRound(r)
  <2>1. Len(r.submissions) + 1 \in 1..10
        /\ r.stage = BaseStageSequence[Len(r.submissions) + 1]
    BY <1>1, <1>2 DEF FirstRound
  <2> QED BY <2>1, BaseRanks
<1>3. CASE LaterRound(r)
  BY <1>3, StageNames DEF LaterRound
<1> QED BY <1>1, <1>2, <1>3

\* Where an active run is, the number of its submissions says.
LEMMA PlacedRun ==
  ASSUME NEW r, GoodRun(r), r.status = "ACTIVE"
  PROVE  LET n == Len(r.submissions)
             k == Turn(r.stage)
         IN  /\ FirstRound(r) =>
                  /\ r.stage # "revision" /\ n + 1 = Rank[r.stage] /\ n < 10
                  /\ r.iteration = 0 /\ LastIndex(r, "revision") = 0
             /\ LaterRound(r) =>
                  /\ r.iteration \in 1..(MaxReviewIterations - 1)
                  /\ r.stage \in {"revision", "prose_transformation",
                                  "semantic_verification", "hostile_review"}
                  /\ k \in 0..3 /\ n = 10 + 4 * (r.iteration - 1) + k /\ n >= 10
                  /\ r.stage # "revision" => LastIndex(r, "revision") # 0
<1> DEFINE n == Len(r.submissions)
           k == Turn(r.stage)
<1>1. n \in Nat
  BY LenProperties DEF GoodRun, RunState
<1>2. MaxReviewIterations \in Nat \ {0}
  BY ReviewAssumption
<1>3. ASSUME FirstRound(r)
      PROVE  r.stage # "revision" /\ n + 1 = Rank[r.stage]
  <2>1. n + 1 \in 1..10 /\ r.stage = BaseStageSequence[n + 1]
    BY <1>1, <1>3 DEF FirstRound
  <2>2. r.stage # "revision"
    BY <2>1 DEF BaseStageSequence
  <2> QED BY <2>1, <2>2, BaseRanks
<1>4. ASSUME LaterRound(r)
      PROVE  k \in 0..3 /\ n >= 10
  <2>1. k \in 0..3
    BY <1>4, Turns DEF LaterRound
  <2>2. r.iteration \in 1..(MaxReviewIterations - 1)
        /\ n = 10 + 4 * (r.iteration - 1) + k
    BY <1>4 DEF LaterRound
  <2> HIDE DEF k, n
  <2> QED BY <1>2, <2>1, <2>2, Cycles
<1> QED BY <1>1, <1>3, <1>4 DEF FirstRound, LaterRound

\* Accepting a result of the due stage: where the run then is.
LEMMA AcceptRun ==
  ASSUME NEW r, NEW result, GoodRun(r), r.status = "ACTIVE", result.stage = r.stage
  PROVE  LET q == Accept(r, result)
         IN  /\ GoodRun(q) /\ r.stage \in Stages
             /\ q.submissions = Append(r.submissions, r.stage)
             /\ r.stage # "hostile_review" =>
                  /\ q.status = "ACTIVE" /\ q.stage \in Stages \ {"revision"}
                  /\ Rank[q.stage] = Rank[r.stage] + 1
             /\ r.stage = "hostile_review" => q.status # "ACTIVE" \/ q.stage = "revision"
             /\ q.status \in {"READY_TO_FINALISE", "APPROVED"} =>
                  r.stage = "hostile_review" /\ result.verdict = "clear"
<1> DEFINE s == Append(r.submissions, r.stage)
           n == Len(r.submissions)
           p == [r EXCEPT !.submissions = s]
           q == Accept(r, result)
<1>1. /\ r \in RunState /\ r.submissions \in Seq(Stages) /\ n \in Nat
      /\ r.iteration \in Nat /\ n <= MaxSubmissions
      /\ FirstRound(r) \/ LaterRound(r)
  BY LenProperties DEF GoodRun, Placed, RunState
<1>2. r.stage \in Stages
  BY ActiveStage
<1>3. s \in Seq(Stages) /\ Len(s) = n + 1
  BY <1>1, <1>2, AppendProperties
<1>4. p \in RunState /\ p.submissions = s /\ p.iteration = r.iteration
      /\ p.revisions = r.revisions /\ p.status = "ACTIVE" /\ p.stage = r.stage
  BY <1>1, <1>3 DEF RunState
<1>5. q = Advance(p, r.stage, result.verdict)
  BY DEF Accept
<1>6. /\ r.stage = "hostile_review" => q = Reviewed(p, result.verdict)
      /\ r.stage = "revision" =>
           q = [p EXCEPT !.revisions = @ + 1, !.stage = "prose_transformation"]
      /\ r.stage \notin {"hostile_review", "revision"} =>
           q = [p EXCEPT !.stage = BaseStageSequence[Rank[r.stage] + 1]]
  <2>1. r.stage \notin {"hostile_review", "revision"} =>
          BaseStageSequence[1 + CHOOSE i \in DOMAIN BaseStageSequence :
                                  BaseStageSequence[i] = r.stage]
            = BaseStageSequence[Rank[r.stage] + 1]
    BY <1>2, NextStage
  <2> HIDE DEF p, q
  <2> QED BY <1>5, <2>1 DEF Advance
<1> DEFINE k == Turn(r.stage)
<1>7. MaxSubmissions = 10 + 4 * (MaxReviewIterations - 1)
      /\ MaxReviewIterations \in Nat \ {0}
  BY StageNames, ReviewAssumption DEF MaxSubmissions
<1>8. /\ FirstRound(r) => r.stage # "revision" /\ n + 1 = Rank[r.stage] /\ r.iteration = 0
                          /\ LastIndex(r, "revision") = 0 /\ n < 10
      /\ LaterRound(r) =>
           /\ r.iteration \in 1..(MaxReviewIterations - 1)
           /\ r.stage \in {"revision", "prose_transformation", "semantic_verification",
                           "hostile_review"}
           /\ k \in 0..3 /\ n = 10 + 4 * (r.iteration - 1) + k /\ n >= 10
           /\ r.stage # "revision" => LastIndex(r, "revision") # 0
  BY PlacedRun
<1>9. n < 10 => r.stage = BaseStageSequence[n + 1]
  BY <1>1, <1>8 DEF FirstRound
<1>10. /\ \A x \in Stages :
            LastIndex(q, x) = IF x = r.stage THEN n + 1 ELSE LastIndex(r, x)
       /\ q.submissions = s
  <2>1. q.submissions = s
    BY <1>4, <1>6 DEF RunState, Reviewed
  <2>2. q.submissions = Append(r.submissions, r.stage)
    BY <2>1
  <2> HIDE DEF q
  <2>3. ASSUME NEW x \in Stages
        PROVE  LastIndex(q, x) = IF x = r.stage THEN n + 1 ELSE LastIndex(r, x)
    <3>1. r.submissions \in Seq(Stages) /\ r.stage \in Stages
      BY <1>1, <1>2
    <3> HIDE DEF s, n, p, k
    <3>2. LastIndex(q, x) = IF x = r.stage THEN Len(r.submissions) + 1 ELSE LastIndex(r, x)
      BY ONLY <2>2, <3>1, IndexAppend
    <3> QED BY <3>2 DEF n
  <2> QED BY <2>1, <2>3
<1>11. Indexed(q)
  <2> HIDE DEF q
  <2> QED BY <1>1, <1>2, <1>9, <1>10, AppendIndexed DEF GoodRun
<1> HIDE DEF n
<1>12. n + 1 <= MaxSubmissions
  <2>1. CASE FirstRound(r)
    BY <1>1, <1>7, <1>8, <2>1
  <2>2. CASE LaterRound(r)
    BY <1>7, <1>8, <2>2, Cycles
  <2> QED BY <1>1, <2>1, <2>2
<1> HIDE DEF p, s, k
<1>13. CASE r.stage = "hostile_review"
  <2> DEFINE c == [p EXCEPT !.iteration = @ + 1]
  <2>1. c \in RunState /\ c.submissions = s /\ c.iteration = r.iteration + 1
        /\ c.status = "ACTIVE"
    BY <1>4 DEF RunState
  <2>2. q = IF result.verdict = "clear"
            THEN [c EXCEPT !.status = "READY_TO_FINALISE", !.stage = "none"]
            ELSE IF c.iteration >= MaxReviewIterations
            THEN [c EXCEPT !.status = "REVIEW_REQUIRED", !.stage = "none"]
            ELSE [c EXCEPT !.stage = "revision"]
    BY <1>6, <1>13 DEF Reviewed
  <2>3. Len(s) >= 10 /\ Len(s) = 10 + 4 * ((r.iteration + 1) - 1) + 0
    <3>1. CASE FirstRound(r)
      BY <1>1, <1>3, <1>8, <1>13, <3>1, StageNames
    <3>2. CASE LaterRound(r)
      <4>1. k = 3
        BY <1>13, Turns DEF k
      <4>2. r.iteration \in 1..(MaxReviewIterations - 1) /\ k \in 0..3
            /\ n = 10 + 4 * (r.iteration - 1) + k /\ n >= 10
        BY <1>8, <3>2
      <4>3. 10 + 4 * (r.iteration - 1) + k + 1 = 10 + 4 * ((r.iteration + 1) - 1) + 0
        BY <1>7, <4>1, <4>2, Cycles
      <4>4. Len(s) = 10 + 4 * (r.iteration - 1) + k + 1
        BY <1>3, <4>2
      <4> QED BY <1>1, <1>3, <4>2, <4>3, <4>4
    <3> QED BY <1>1, <3>1, <3>2
  <2> HIDE DEF c, q
  <2>4. q \in RunState /\ q.submissions = s
    BY <2>1, <2>2, StageNames DEF RunState, Statuses
  <2>5. CASE result.verdict = "clear" \/ c.iteration >= MaxReviewIterations
    <3>1. q.status # "ACTIVE"
          /\ (q.status = "READY_TO_FINALISE" => result.verdict = "clear")
          /\ q.status # "APPROVED"
      BY <2>1, <2>2, <2>5 DEF RunState
    <3>2. Placed(q)
      BY <1>3, <1>12, <2>3, <2>4, <3>1 DEF Placed
    <3> QED BY <1>2, <1>10, <1>11, <1>13, <2>4, <3>1, <3>2 DEF GoodRun, q, s
  <2>6. CASE ~(result.verdict = "clear" \/ c.iteration >= MaxReviewIterations)
    <3>1. q.status = "ACTIVE" /\ q.stage = "revision" /\ q.iteration = r.iteration + 1
      BY <2>1, <2>2, <2>6 DEF RunState
    <3>2. q.iteration \in 1..(MaxReviewIterations - 1)
      BY <1>1, <1>7, <2>1, <2>6, <3>1
    <3>3. LaterRound(q)
      BY <1>1, <2>3, <2>4, <3>1, <3>2, Turns DEF LaterRound
    <3>4. Placed(q)
      BY <1>3, <1>12, <2>4, <3>1, <3>3 DEF Placed
    <3> QED BY <1>2, <1>10, <1>11, <1>13, <2>4, <3>1, <3>4 DEF GoodRun, q, s
  <2> QED BY <2>5, <2>6
<1>14. CASE r.stage = "revision"
  <2>1. /\ LaterRound(r) /\ n = 10 + 4 * (r.iteration - 1) + 0
        /\ r.iteration \in 1..(MaxReviewIterations - 1)
    <3>1. k = 0
      BY <1>14, Turns DEF k
    <3> QED BY <1>1, <1>8, <1>14, <3>1
  <2>2. q \in RunState /\ q.status = "ACTIVE" /\ q.stage = "prose_transformation"
        /\ q.iteration = r.iteration /\ q.submissions = s
    <3>1. q = [p EXCEPT !.revisions = @ + 1, !.stage = "prose_transformation"]
      BY <1>6, <1>14
    <3>2. "prose_transformation" \in Stages
      BY StageNames
    <3>3. p.revisions + 1 \in Nat
      BY <1>4 DEF RunState
    <3> HIDE DEF q
    <3>4. q = [p EXCEPT !.revisions = p.revisions + 1, !.stage = "prose_transformation"]
      BY <3>1
    <3> QED BY <1>4, <3>2, <3>3, <3>4 DEF RunState
  <2>3. LastIndex(q, "revision") # 0
    BY <1>1, <1>2, <1>10, <1>14
  <2> HIDE DEF q
  <2>4. LaterRound(q)
    <3>1. Len(q.submissions) = 10 + 4 * (q.iteration - 1) + 1
      <4>1. n + 1 = 10 + 4 * (r.iteration - 1) + (0 + 1)
        BY <1>7, <2>1, Cycles
      <4> QED BY <1>3, <2>2, <4>1
    <3> QED BY <2>1, <2>2, <2>3, <3>1, Turns DEF LaterRound
  <2>5. Placed(q)
    BY <1>3, <1>12, <2>2, <2>4 DEF Placed
  <2>6. q.stage \in Stages \ {"revision"} /\ Rank[q.stage] = Rank[r.stage] + 1
    BY <1>14, <2>2, StageNames
  <2> QED BY <1>2, <1>10, <1>11, <1>14, <2>2, <2>5, <2>6 DEF GoodRun, q, s
<1>15. CASE r.stage \notin {"hostile_review", "revision"}
  <2>1. /\ BaseStageSequence[Rank[r.stage] + 1] \in Stages \ {"revision"}
        /\ Rank[BaseStageSequence[Rank[r.stage] + 1]] = Rank[r.stage] + 1
    BY <1>2, <1>15, NextStage
  <2>2. q \in RunState /\ q.status = "ACTIVE"
        /\ q.stage = BaseStageSequence[Rank[r.stage] + 1]
        /\ q.iteration = r.iteration /\ q.submissions = s
    BY <1>4, <1>6, <1>15, <2>1 DEF RunState
  <2>3. LastIndex(q, "revision") = LastIndex(r, "revision")
    BY <1>10, <1>15, StageNames
  <2> HIDE DEF q
  <2>4. Rank[q.stage] = Rank[r.stage] + 1 /\ q.stage \in Stages \ {"revision"}
    BY <2>1, <2>2
  <2>5. CASE FirstRound(r)
    <3>1. Rank[r.stage] <= 9
      BY <1>2, <1>15, StageNames
    <3>2. Len(s) = n + 1 /\ n + 1 = Rank[r.stage]
      BY <1>3, <1>8, <2>5
    <3>3. FirstRound(q)
      BY <1>1, <1>8, <2>2, <2>3, <2>5, <3>1, <3>2 DEF FirstRound
    <3>4. Placed(q)
      BY <1>3, <1>12, <2>2, <3>3 DEF Placed
    <3> QED BY <1>2, <1>10, <1>11, <1>15, <2>2, <2>4, <3>4 DEF GoodRun, q, s
  <2>6. CASE LaterRound(r)
    <3>1. /\ r.stage \in {"prose_transformation", "semantic_verification"}
          /\ LastIndex(r, "revision") # 0
      BY <1>8, <1>15, <2>6
    <3>2. /\ q.stage \in {"semantic_verification", "hostile_review"}
          /\ Turn(q.stage) = k + 1 /\ k \in 0..3
      <4>1. Rank[q.stage] = (IF r.stage = "prose_transformation" THEN 9 ELSE 10)
        BY <2>4, <3>1, StageNames
      <4>2. q.stage = (IF r.stage = "prose_transformation" THEN "semantic_verification"
                                                           ELSE "hostile_review")
        BY <2>4, <3>1, <4>1, StageNames
      <4> QED BY <3>1, <4>2, Turns DEF k
    <3>3. q.submissions = s /\ q.stage # "revision"
      BY <2>2, <2>4
    <3>4. Len(q.submissions) = 10 + 4 * (q.iteration - 1) + Turn(q.stage)
      <4>1. q.submissions = s /\ q.iteration = r.iteration
        BY <2>2
      <4>2. n + 1 = 10 + 4 * (r.iteration - 1) + (k + 1)
        BY <1>7, <1>8, <2>6, Cycles
      <4> QED BY <1>3, <3>2, <4>1, <4>2
    <3>5. LaterRound(q)
      BY <1>8, <2>2, <2>3, <2>6, <3>1, <3>2, <3>4 DEF LaterRound
    <3>6. Placed(q)
      BY <1>3, <1>12, <2>2, <3>5 DEF Placed
    <3> QED BY <1>2, <1>10, <1>11, <1>15, <2>2, <2>4, <3>6 DEF GoodRun, q, s
  <2> QED BY <1>1, <2>5, <2>6
<1> QED BY <1>13, <1>14, <1>15

-----------------------------------------------------------------------------
(* Results in force. *)

\* A step from r and fs to q and gs puts a result in force at stage t, and changes
\* nothing else that is in force.
Updated(r, fs, q, gs, t, result) ==
  /\ \A s \in Stages :
       /\ Latest(q, gs, s) = IF s = t THEN result ELSE Latest(r, fs, s)
       /\ LastIndex(q, s) # 0 <=> s = t \/ LastIndex(r, s) # 0
  /\ gs = [n \in Positions |-> gs[n]]

\* The result was made from what is in force.
MadeOf(r, fs, t, result) ==
  /\ {Id(r, fs, u) : u \in InputStages(t)} \subseteq result.reads
  /\ t \in {"prose_transformation", "semantic_verification"} =>
       TextId(r, fs) \in result.reads

\* The inputs of a stage have lower ranks.
LEMMA InputRanks ==
  /\ \A s \in Stages : \A u \in InputStages(s) : u \in Stages /\ Rank[u] < Rank[s]
  /\ InputStages("revision") \subseteq InputStages("draft_generation")
<1>1. ASSUME NEW s \in Stages, NEW u \in InputStages(s)
      PROVE  u \in Stages /\ Rank[u] < Rank[s]
  <2>1. CASE s \in {"source_retrieval", "semantic_rerank", "evidence_extraction"}
    BY <1>1, <2>1, StageNames DEF InputStages
  <2>2. CASE s \in {"citation_support_audit", "argument_construction"}
    BY <1>1, <2>2, StageNames DEF InputStages
  <2>3. CASE s = "draft_generation"
    BY <1>1, <2>3, StageNames DEF InputStages
  <2>4. CASE s \in {"revision", "hostile_review", "semantic_verification"}
    BY <1>1, <2>4, StageNames DEF InputStages
  <2>5. CASE s \in {"research_planning", "prose_transformation"}
    BY <1>1, <2>5 DEF InputStages
  <2> QED BY <2>1, <2>2, <2>3, <2>4, <2>5, StageNames
<1>2. InputStages("revision") \subseteq InputStages("draft_generation")
  BY DEF InputStages
<1> QED BY <1>1, <1>2

\* A submission of the due stage puts its result in force.
LEMMA SubmitUpdates ==
  ASSUME NEW r, NEW fs, NEW result, GoodRun(r), r.status = "ACTIVE",
         result.stage = r.stage, fs = [n \in Positions |-> fs[n]]
  PROVE  Updated(r, fs, Accept(r, result), [fs EXCEPT ![NextPosition(r)] = result],
                 r.stage, result)
<1> DEFINE q == Accept(r, result)
           at == NextPosition(r)
           gs == [fs EXCEPT ![at] = result]
<1>1. /\ GoodRun(q) /\ r.stage \in Stages
      /\ q.submissions = Append(r.submissions, r.stage)
  BY AcceptRun
<1>2. r.submissions \in Seq(Stages) /\ Len(r.submissions) \in Nat
      /\ at = Len(r.submissions) + 1
  BY LenProperties DEF GoodRun, RunState, NextPosition
<1>3. at \in Positions /\ at <= MaxSubmissions /\ MaxSubmissions \in Nat
  <2>1. Len(q.submissions) <= MaxSubmissions /\ Len(q.submissions) = at
    BY <1>1, <1>2, AppendProperties DEF GoodRun, Placed
  <2>2. MaxSubmissions \in Nat
    BY StageNames, ReviewAssumption DEF MaxSubmissions
  <2> QED BY <1>2, <2>1, <2>2 DEF Positions
<1> HIDE DEF q, at
<1>4. \A n \in Positions : gs[n] = IF n = at THEN result ELSE fs[n]
  OBVIOUS
<1>5. gs = [n \in Positions |-> gs[n]]
  OBVIOUS
<1>6. ASSUME NEW s \in Stages
      PROVE  LastIndex(q, s) = IF s = r.stage THEN at ELSE LastIndex(r, s)
  BY ONLY <1>1, <1>2, <1>6, IndexAppend
<1> HIDE DEF gs
<1>7. ASSUME NEW s \in Stages
      PROVE  /\ Latest(q, gs, s) = IF s = r.stage THEN result ELSE Latest(r, fs, s)
             /\ LastIndex(q, s) # 0 <=> s = r.stage \/ LastIndex(r, s) # 0
  <2>1. CASE s = r.stage
    <3>1. LastIndex(q, s) = at /\ at # 0
      BY <1>2, <1>6, <2>1
    <3> QED BY <1>3, <1>4, <2>1, <3>1 DEF Latest
  <2>2. CASE s # r.stage
    <3>1. LastIndex(q, s) = LastIndex(r, s)
      BY <1>6, <2>2
    <3>2. LastIndex(r, s) \in 0..Len(r.submissions)
      BY DEF GoodRun, Indexed
    <3>3. LastIndex(r, s) # 0 => LastIndex(r, s) \in Positions /\ LastIndex(r, s) # at
      BY <1>2, <1>3, <3>2 DEF Positions
    <3>4. LastIndex(r, s) # 0 => gs[LastIndex(r, s)] = fs[LastIndex(r, s)]
      BY <1>4, <3>3
    <3> QED BY <2>2, <3>1, <3>4 DEF Latest
  <2> QED BY <2>1, <2>2
<1> QED BY <1>5, <1>7 DEF Updated, q, at, gs

\* A replacement puts its result in force.
LEMMA ReplaceUpdates ==
  ASSUME NEW fs, NEW result, GoodRun(run), result.stage \in Stages,
         LastIndex(run, result.stage) # 0, fs = [n \in Positions |-> fs[n]]
  PROVE  Updated(run, fs, run, Replaced(fs, result), result.stage, result)
<1> DEFINE gs == Replaced(fs, result)
           at == LastIndex(run, result.stage)
<1>1. Len(run.submissions) \in Nat /\ Len(run.submissions) <= MaxSubmissions
  BY LenProperties DEF GoodRun, Placed, RunState
<1>2. MaxSubmissions \in Nat
  BY StageNames, ReviewAssumption DEF MaxSubmissions
<1>3. \A s \in Stages : /\ LastIndex(run, s) \in 0..Len(run.submissions)
                        /\ LastIndex(run, s) # 0 => run.submissions[LastIndex(run, s)] = s
  BY DEF GoodRun, Indexed
<1>4. \A s \in Stages : LastIndex(run, s) # 0 => LastIndex(run, s) \in Positions
  BY <1>1, <1>2, <1>3 DEF Positions
<1>5. \A s \in Stages : s # result.stage /\ LastIndex(run, s) # 0 => LastIndex(run, s) # at
  BY <1>3
<1>6. gs = [fs EXCEPT ![at] = result]
  BY DEF Replaced
<1>7. at \in Positions /\ at # 0
  BY <1>4
<1> HIDE DEF at, gs
<1>8. /\ gs = [n \in Positions |-> gs[n]]
      /\ \A n \in Positions : gs[n] = IF n = at THEN result ELSE fs[n]
  BY <1>6
<1>9. ASSUME NEW s \in Stages
      PROVE  /\ Latest(run, gs, s) = IF s = result.stage THEN result ELSE Latest(run, fs, s)
             /\ LastIndex(run, s) # 0 <=> s = result.stage \/ LastIndex(run, s) # 0
  <2>1. CASE s = result.stage
    BY <1>7, <1>8, <2>1 DEF Latest, at
  <2>2. CASE s # result.stage
    BY <1>4, <1>5, <1>8, <2>2 DEF Latest
  <2> QED BY <2>1, <2>2
<1> QED BY <1>8, <1>9 DEF Updated, gs

\* A result made of what is in force is sound, and those of lower rank stay so: what
\* they were made from has a lower rank still.
LEMMA SoundUpdate ==
  ASSUME NEW r, NEW fs, NEW q, NEW gs, NEW t \in Stages, NEW result, NEW d \in Nat,
         Updated(r, fs, q, gs, t, result), MadeOf(r, fs, t, result),
         SoundBelow(r, fs, d), d >= Rank[t],
         t = "draft_generation" => LastIndex(r, "revision") = 0
  PROVE  SoundBelow(q, gs, Rank[t] + 1)
<1>1. \A s \in Stages :
        /\ Latest(q, gs, s) = IF s = t THEN result ELSE Latest(r, fs, s)
        /\ LastIndex(q, s) # 0 <=> s = t \/ LastIndex(r, s) # 0
  BY DEF Updated
<1>2. \A s \in Stages : Rank[s] \in 1..10
  BY BaseRanks
<1>3. ASSUME NEW s \in Stages, Rank[s] <= Rank[t]
      PROVE  {Id(q, gs, u) : u \in InputStages(s)} = {Id(r, fs, u) : u \in InputStages(s)}
  <2>1. ASSUME NEW u \in InputStages(s)
        PROVE  Id(q, gs, u) = Id(r, fs, u)
    <3>1. u \in Stages /\ Rank[u] < Rank[s]
      BY InputRanks
    <3>2. u # t
      BY <1>2, <1>3, <3>1
    <3> QED BY <1>1, <3>1, <3>2 DEF Id
  <2> QED BY <2>1
<1>4. ASSUME Rank[t] >= 8
      PROVE  TextId(q, gs) = TextId(r, fs)
  <2>1. t \notin {"revision", "draft_generation"}
    BY <1>4, StageNames
  <2>2. TextStage(q) = TextStage(r) /\ TextStage(r) \in Stages /\ TextStage(r) # t
    BY <1>1, <2>1, StageNames DEF TextStage
  <2> QED BY <1>1, <2>2 DEF TextId, Id
<1>5. ASSUME NEW s \in Stages, InForce(q, s), Rank[s] < Rank[t] + 1
      PROVE  SoundAt(q, gs, s)
  <2>1. Rank[s] <= Rank[t]
    BY <1>2, <1>5
  <2>2. CASE s = t
    <3>1. Latest(q, gs, s) = result
      BY <1>1, <2>2
    <3>2. s \in {"prose_transformation", "semantic_verification"} =>
            TextId(q, gs) = TextId(r, fs)
      <4>1. s \in {"prose_transformation", "semantic_verification"} => Rank[t] >= 8
        BY <2>2, StageNames
      <4> QED BY <1>4, <4>1
    <3> QED BY <1>3, <2>1, <2>2, <3>1, <3>2 DEF SoundAt, MadeOf
  <2>3. CASE s # t
    <3>1. Latest(q, gs, s) = Latest(r, fs, s) /\ LastIndex(r, s) # 0
      BY <1>1, <1>5, <2>3 DEF InForce
    <3>2. ~(s = "draft_generation" /\ t = "revision")
      BY <1>1, <1>5, StageNames DEF InForce
    <3>3. ~(s = "revision" /\ t = "draft_generation")
      BY <3>1
    <3>4. Rank[s] # Rank[t]
      BY <2>3, <3>2, <3>3, StageNames
    <3>5. Rank[s] < d
      BY <1>2, <2>1, <3>4
    <3>6. InForce(r, s)
      <4>1. s = "draft_generation" => LastIndex(r, "revision") = 0
        BY <1>1, <1>5, StageNames DEF InForce
      <4> QED BY <3>1, <4>1 DEF InForce
    <3>7. SoundAt(r, fs, s)
      BY <3>5, <3>6 DEF SoundBelow
    <3>8. s \in {"prose_transformation", "semantic_verification"} =>
            TextId(q, gs) = TextId(r, fs)
      <4>1. s \in {"prose_transformation", "semantic_verification"} => Rank[t] >= 8
        BY <1>2, <2>1, StageNames
      <4> QED BY <1>4, <4>1
    <3> QED BY <1>3, <2>1, <3>1, <3>7, <3>8 DEF SoundAt
  <2> QED BY <2>2, <2>3
<1> QED BY <1>5 DEF SoundBelow

\* Results stay filed under their stages.
LEMMA FiledUpdate ==
  ASSUME NEW r, NEW fs, NEW q, NEW gs, NEW t, NEW result,
         Updated(r, fs, q, gs, t, result), Filed(r, fs), IsResult(result),
         result.stage = t
  PROVE  Filed(q, gs)
<1>1. ASSUME NEW s \in Stages, LastIndex(q, s) # 0
      PROVE  Latest(q, gs, s).stage = s /\ IsResult(Latest(q, gs, s))
  <2>1. CASE s = t
    BY <2>1 DEF Updated
  <2>2. CASE s # t
    <3>1. Latest(q, gs, s) = Latest(r, fs, s) /\ LastIndex(r, s) # 0
      BY <1>1, <2>2 DEF Updated
    <3> QED BY <3>1 DEF Filed
  <2> QED BY <2>1, <2>2
<1> QED BY <1>1 DEF Filed, Updated

\* A result of a stage that may be submitted or filed.
Made(fs, s, result) ==
  /\ IsResult(result) /\ result.stage = s /\ MadeOf(run, fs, s, result)
  /\ s = "hostile_review" => result.article = FinalText(run, fs)

\* What the broker returns.
LEMMA ReturnedMade ==
  ASSUME NEW fs, NEW s \in Stages, NEW v
  PROVE  Made(fs, s, Returned(fs, s, v))
<1> DEFINE result == Returned(fs, s, v)
           texts == CASE s = "hostile_review"        -> {ReviewText(fs)}
                      [] s = "semantic_verification" ->
                           {TextId(run, fs), Id(run, fs, "prose_transformation")}
                      [] OTHER                       -> TextInputs(run, fs, s)
<1>1. /\ IsResult(result) /\ result.stage = s
      /\ result.reads = {Id(run, fs, u) : u \in BrokerStages(s)} \cup texts
      /\ s = "hostile_review" => result.article = ReviewText(fs)
  BY DEF Returned, IsResult
<1>2. {Id(run, fs, u) : u \in InputStages(s)} \subseteq result.reads
  BY <1>1 DEF BrokerStages
<1>3. s \in {"prose_transformation", "semantic_verification"} => TextId(run, fs) \in texts
  BY DEF TextInputs
<1> QED BY <1>1, <1>2, <1>3 DEF Made, MadeOf, ReviewText

-----------------------------------------------------------------------------
(* The actions. *)

\* While the run is active, drafts are made before the first revision only.
LEMMA ActiveRun ==
  ASSUME IInv, run.status = "ACTIVE"
  PROVE  /\ run.stage \in Stages
         /\ run.stage = "draft_generation" => LastIndex(run, "revision") = 0
         /\ Due \in 1..11
<1>1. FirstRound(run) \/ LaterRound(run)
  BY DEF IInv, GoodRun, Placed
<1>2. run.stage \in Stages
  BY ActiveStage DEF IInv
<1>4. run.stage = "draft_generation" => LastIndex(run, "revision") = 0
  BY <1>1, StageNames DEF FirstRound, LaterRound
<1>5. pc \in {"fulfil", "extracted"} \/ pc \in Stages
  BY StageNames DEF IInv, Steps, Rebuilt
<1>6. Due \in 1..11
  BY <1>2, <1>5, BaseRanks DEF Due
<1> QED BY <1>2, <1>4, <1>6

\* A submission made of what is in force keeps the invariant.
LEMMA SubmitSteps ==
  ASSUME IInv, run.status = "ACTIVE", NEW result, Submit(result),
         Made(files, run.stage, result), Due >= Rank[run.stage]
  PROVE  IInv'
<1>1. /\ GoodRun(run) /\ Filed(run, files) /\ files = [n \in Positions |-> files[n]]
      /\ SoundBelow(run, files, Due) /\ Due \in 1..11 /\ run.stage \in Stages
      /\ run.stage = "draft_generation" => LastIndex(run, "revision") = 0
  BY ActiveRun DEF IInv, Filed
<1>2. /\ files' = [files EXCEPT ![NextPosition(run)] = result]
      /\ run' = Accept(run, result) /\ pc' = "fulfil"
      /\ IsResult(result) /\ result.stage = run.stage
      /\ MadeOf(run, files, run.stage, result)
      /\ run.stage = "hostile_review" => result.article = FinalText(run, files)
  BY DEF Submit, Made
<1>3. /\ GoodRun(run')
      /\ run.stage # "hostile_review" =>
           /\ run'.status = "ACTIVE" /\ run'.stage \in Stages \ {"revision"}
           /\ Rank[run'.stage] = Rank[run.stage] + 1
      /\ run.stage = "hostile_review" => run'.status # "ACTIVE" \/ run'.stage = "revision"
      /\ run'.status \in {"READY_TO_FINALISE", "APPROVED"} =>
           run.stage = "hostile_review" /\ result.verdict = "clear"
  BY <1>1, <1>2, AcceptRun
<1>4. Updated(run, files, run', files', run.stage, result)
  BY <1>1, <1>2, SubmitUpdates
<1>5. SoundBelow(run', files', Rank[run.stage] + 1)
  BY <1>1, <1>2, <1>4, SoundUpdate
<1>6. Due' = Rank[run.stage] + 1
  <2>1. CASE run.stage = "hostile_review"
    BY <1>2, <1>3, <2>1, StageNames DEF Due
  <2>2. CASE run.stage # "hostile_review"
    BY <1>2, <1>3, <2>2 DEF Due
  <2> QED BY <2>1, <2>2
<1>7. ReleaseReviewed'
  <2> SUFFICES ASSUME Released'
               PROVE  ReleasedTextReviewed(run', files')
    BY DEF ReleaseReviewed
  <2>1. run.stage = "hostile_review" /\ result.verdict = "clear"
    BY <1>3 DEF Released
  <2>2. \A s \in Stages :
          /\ Latest(run', files', s) =
               IF s = "hostile_review" THEN result ELSE Latest(run, files, s)
          /\ LastIndex(run', s) # 0 <=> s = "hostile_review" \/ LastIndex(run, s) # 0
    BY <1>4, <2>1 DEF Updated
  <2>3. /\ Latest(run', files', "hostile_review") = result
        /\ Latest(run', files', "prose_transformation") = Latest(run, files, "prose_transformation")
        /\ Latest(run', files', "semantic_verification") =
             Latest(run, files, "semantic_verification")
        /\ Latest(run', files', "revision") = Latest(run, files, "revision")
        /\ Latest(run', files', "draft_generation") = Latest(run, files, "draft_generation")
        /\ LastIndex(run', "revision") # 0 <=> LastIndex(run, "revision") # 0
    BY <2>2, StageNames
  <2>4. FinalText(run', files') = FinalText(run, files)
    BY <2>3 DEF FinalText, Verified, TextId, TextStage, Id
  <2> QED BY <1>2, <2>1, <2>3, <2>4 DEF ReleasedTextReviewed
<1>8. Filed(run', files')
  BY <1>1, <1>2, <1>4, FiledUpdate
<1>9. (pc \in Steps)' /\ pc' # "extracted" /\ pc' \notin Rebuilt \cup {"draft_generation"}
  BY <1>2 DEF Steps, Rebuilt
<1> QED BY <1>3, <1>5, <1>6, <1>7, <1>8, <1>9 DEF IInv

\* Sources that are added to a result.
Widened(x, i, more) == [x EXCEPT !.id = i, !.reads = @ \cup more]

LEMMA WidenedResult ==
  ASSUME NEW x, IsResult(x), NEW i, NEW more
  PROVE  /\ IsResult(Widened(x, i, more)) /\ Widened(x, i, more).stage = x.stage
         /\ x.reads \subseteq Widened(x, i, more).reads
<1>1. PICK a, b, c, d, e : x = [stage |-> a, id |-> b, verdict |-> c, reads |-> d,
                                article |-> e]
  BY DEF IsResult
<1>2. Widened(x, i, more) =
        [stage |-> a, id |-> i, verdict |-> c, reads |-> d \cup more, article |-> e]
  <2> DEFINE y == [x EXCEPT !.id = i]
  <2>1. y = [stage |-> a, id |-> i, verdict |-> c, reads |-> d, article |-> e]
    BY <1>1
  <2>2. Widened(x, i, more) = [y EXCEPT !.reads = d \cup more]
    BY <1>1 DEF Widened
  <2> HIDE DEF y
  <2> QED BY <2>1, <2>2
<1>3. IsResult(Widened(x, i, more))
  BY <1>2 DEF IsResult
<1> QED BY <1>1, <1>2, <1>3

\* While the sources are added, the results below the evidence stay sound.
LEMMA AddingSources ==
  ASSUME IInv, run.status = "ACTIVE", AddSources, Due >= 4,
         LastIndex(run, "source_retrieval") # 0, LastIndex(run, "semantic_rerank") # 0
  PROVE  Filed(run, files') /\ SoundBelow(run, files', 4)
<1> DEFINE old == Latest(run, files, "source_retrieval")
           more == MoreSources
           found == Replaced(files, more)
           ranked == Returned(found, "semantic_rerank", "accepted")
<1>1. /\ GoodRun(run) /\ Filed(run, files) /\ files = [n \in Positions |-> files[n]]
      /\ SoundBelow(run, files, Due) /\ Due \in 1..11
  BY ActiveRun DEF IInv, Filed
<1>2. /\ "source_retrieval" \in Stages /\ Rank["source_retrieval"] = 2
      /\ "semantic_rerank" \in Stages /\ Rank["semantic_rerank"] = 3
  BY StageNames
<1>3. {Id(run, files, u) : u \in InputStages("source_retrieval")} \subseteq old.reads
  BY <1>1, <1>2 DEF SoundBelow, InForce, SoundAt
<1>4. old.stage = "source_retrieval" /\ IsResult(old)
  BY <1>1, <1>2 DEF Filed
<1>5. more.stage = "source_retrieval" /\ IsResult(more) /\ old.reads \subseteq more.reads
  <2> DEFINE asked == IF run.stage = "revision"
                      THEN {Id(run, files, "hostile_review")} ELSE {}
  <2>1. more = Widened(old, New(files), asked)
    BY DEF MoreSources, Widened
  <2> HIDE DEF more, old, asked
  <2> QED BY <1>4, <2>1, WidenedResult
<1>6. MadeOf(run, files, "source_retrieval", more)
  BY <1>3, <1>5 DEF MadeOf
<1>7. files' = Replaced(found, ranked)
  BY DEF AddSources
<1> HIDE DEF more, old
<1>8. Updated(run, files, run, found, "source_retrieval", more)
  BY <1>1, <1>2, <1>5, ReplaceUpdates
<1>9. SoundBelow(run, found, 3) /\ Filed(run, found)
  <2>1. SoundBelow(run, found, Rank["source_retrieval"] + 1)
    BY <1>1, <1>2, <1>6, <1>8, SoundUpdate
  <2> QED BY <1>1, <1>2, <1>5, <1>8, <2>1, FiledUpdate
<1> HIDE DEF found
<1>10. ranked.stage = "semantic_rerank" /\ IsResult(ranked)
       /\ MadeOf(run, found, "semantic_rerank", ranked)
  <2>1. Made(found, "semantic_rerank", ranked)
    BY <1>2, ReturnedMade
  <2> QED BY <2>1 DEF Made
<1>11. found = [n \in Positions |-> found[n]]
  BY <1>9 DEF Filed
<1> HIDE DEF ranked
<1>12. Updated(run, found, run, files', "semantic_rerank", ranked)
  BY <1>1, <1>2, <1>7, <1>10, <1>11, ReplaceUpdates
<1>13. SoundBelow(run, files', Rank["semantic_rerank"] + 1)
  BY <1>2, <1>9, <1>10, <1>12, SoundUpdate
<1> QED BY <1>2, <1>9, <1>10, <1>12, <1>13, FiledUpdate

\* The stages before the due one were all submitted.
LEMMA Earlier ==
  ASSUME NEW r, GoodRun(r), NEW s \in Stages \ {"revision"},
         \/ r.status # "ACTIVE"
         \/ r.stage = "revision"
         \/ r.stage \in Stages /\ Rank[s] < Rank[r.stage]
  PROVE  LastIndex(r, s) # 0
<1>1. Rank[s] \in 1..10 /\ BaseStageSequence[Rank[s]] = s
  BY BaseRanks
<1>2. Rank[s] <= Len(r.submissions) => LastIndex(r, s) # 0
  BY <1>1 DEF GoodRun, Indexed
<1>3. Len(r.submissions) \in Nat
  BY LenProperties DEF GoodRun, RunState
<1>4. CASE r.status # "ACTIVE"
  <2>1. Len(r.submissions) >= 10
    BY <1>4 DEF GoodRun, Placed
  <2> QED BY <1>1, <1>2, <1>3, <2>1
<1>5. CASE r.status = "ACTIVE"
  <2>1. FirstRound(r) \/ LaterRound(r)
    BY <1>5 DEF GoodRun, Placed
  <2>2. CASE FirstRound(r)
    <3>1. r.stage # "revision" /\ Len(r.submissions) + 1 = Rank[r.stage]
      BY <1>5, <2>2, PlacedRun
    <3>2. Rank[s] < Len(r.submissions) + 1
      BY <1>5, <3>1
    <3> QED BY <1>1, <1>2, <1>3, <3>2
  <2>3. CASE LaterRound(r)
    <3>1. Len(r.submissions) >= 10
      BY <1>5, <2>3, PlacedRun
    <3> QED BY <1>1, <1>2, <1>3, <3>1
  <2> QED BY <2>1, <2>2, <2>3
<1> QED BY <1>4, <1>5

\* A step of an active run that submits nothing.
LEMMA KeptRun ==
  ASSUME IInv, run.status = "ACTIVE", run' = run, Filed(run, files'),
         SoundBelow(run, files', Due'), pc' \in Steps,
         pc' = "extracted" => run.stage = "evidence_extraction" /\ HeldSound',
         pc' \in Rebuilt \cup {"draft_generation"} => run.stage = "revision"
  PROVE  IInv'
<1>1. ReleaseReviewed'
  BY DEF ReleaseReviewed, Released
<1> QED BY <1>1 DEF IInv

LEMMA FulfilSteps ==
  ASSUME IInv, FulfilStage
  PROVE  IInv'
<1>1. PICK v \in BrokerVerdicts(run.stage) : Submit(Returned(files, run.stage, v))
  BY DEF FulfilStage
<1>2. run.status = "ACTIVE" /\ pc = "fulfil"
  BY DEF FulfilStage, Active
<1>3. run.stage \in Stages
  BY <1>2, ActiveRun
<1>4. Due >= Rank[run.stage]
  BY <1>2, <1>3, BaseRanks DEF Due
<1>5. Made(files, run.stage, Returned(files, run.stage, v))
  BY <1>3, ReturnedMade
<1> QED BY <1>1, <1>2, <1>4, <1>5, SubmitSteps

LEMMA AuditSteps ==
  ASSUME IInv, Audit
  PROVE  IInv'
<1>1. /\ run.status = "ACTIVE" /\ pc = "fulfil" /\ run.stage = "citation_support_audit"
      /\ Submit(Returned(files, run.stage, "accepted"))
  BY DEF Audit, At, Active
<1>2. run.stage \in Stages
  BY <1>1, ActiveRun
<1>3. Due >= Rank[run.stage]
  BY <1>1, <1>2, BaseRanks DEF Due
<1>4. Made(files, run.stage, Returned(files, run.stage, "accepted"))
  BY <1>2, ReturnedMade
<1> QED BY <1>1, <1>3, <1>4, SubmitSteps

LEMMA ExtractSteps ==
  ASSUME IInv, Extract
  PROVE  IInv'
<1>1. /\ run.status = "ACTIVE" /\ pc = "fulfil" /\ run.stage = "evidence_extraction"
      /\ held' = Returned(files, run.stage, "accepted") /\ pc' = "extracted"
      /\ run' = run /\ files' = files
  BY DEF Extract, At, Active
<1>2. run.stage \in Stages
  BY <1>1, ActiveRun
<1>3. Made(files, run.stage, held')
  BY <1>1, <1>2, ReturnedMade
<1>5. HeldSound'
  BY <1>1, <1>3 DEF HeldSound, Made, MadeOf
<1>6. Due' = Due
  BY <1>1 DEF Due
<1>7. Filed(run, files') /\ SoundBelow(run, files', Due')
  BY <1>1, <1>6 DEF IInv
<1> QED BY <1>1, <1>5, <1>7, KeptRun DEF Steps, Rebuilt

LEMMA HeldSteps ==
  ASSUME IInv, At("extracted", "evidence_extraction"), Submit(held)
  PROVE  IInv'
<1>1. run.status = "ACTIVE" /\ pc = "extracted" /\ run.stage = "evidence_extraction"
  BY DEF At, Active
<1>2. HeldSound
  BY <1>1 DEF IInv
<1>3. Made(files, run.stage, held)
  BY <1>1, <1>2 DEF HeldSound, Made, MadeOf
<1>4. Due >= Rank[run.stage]
  BY <1>1, StageNames DEF Due
<1> QED BY <1>1, <1>3, <1>4, SubmitSteps

LEMMA ExpandSteps ==
  ASSUME IInv, ExpandEvidence
  PROVE  IInv'
<1>1. CASE Submit(held)
  BY <1>1, HeldSteps DEF ExpandEvidence
<1>2. CASE AddSources /\ held' = NoResult /\ pc' = "fulfil" /\ UNCHANGED run
  <2>1. run.status = "ACTIVE" /\ pc = "extracted" /\ run.stage = "evidence_extraction"
    BY DEF ExpandEvidence, At, Active
  <2>2. Due = 4 /\ Due' = 4
    BY <1>2, <2>1, StageNames DEF Due
  <2>3. LastIndex(run, "source_retrieval") # 0 /\ LastIndex(run, "semantic_rerank") # 0
    BY <2>1, StageNames, Earlier DEF IInv
  <2>4. Filed(run, files') /\ SoundBelow(run, files', 4)
    BY <1>2, <2>1, <2>2, <2>3, AddingSources
  <2> QED BY <1>2, <2>1, <2>2, <2>4, KeptRun DEF Steps, Rebuilt
<1> QED BY <1>1, <1>2 DEF ExpandEvidence

LEMMA RepairSteps ==
  ASSUME IInv, RepairResearch
  PROVE  IInv'
<1>1. run.status = "ACTIVE" /\ pc = "fulfil" /\ run.stage = "revision"
  BY DEF RepairResearch, At, Active
<1>2. Due = 11
  BY <1>1 DEF Due
<1>3. CASE Submit(Returned(files, "revision", "accepted"))
  <2>1. "revision" \in Stages /\ Rank["revision"] = 7
    BY StageNames
  <2>2. Made(files, "revision", Returned(files, "revision", "accepted"))
    BY <2>1, ReturnedMade
  <2> QED BY <1>1, <1>2, <1>3, <2>1, <2>2, SubmitSteps
<1>4. CASE AddSources /\ pc' = "evidence_extraction" /\ UNCHANGED <<run, held>>
  <2>1. Due' = 4
    BY <1>1, <1>4, StageNames DEF Due
  <2>2. LastIndex(run, "source_retrieval") # 0 /\ LastIndex(run, "semantic_rerank") # 0
    BY <1>1, StageNames, Earlier DEF IInv
  <2>3. Filed(run, files') /\ SoundBelow(run, files', 4)
    BY <1>1, <1>2, <1>4, <2>2, AddingSources
  <2> QED BY <1>1, <1>4, <2>1, <2>3, KeptRun DEF Steps, Rebuilt
<1> QED BY <1>3, <1>4 DEF RepairResearch

LEMMA RebuildSteps ==
  ASSUME IInv, Rebuild
  PROVE  IInv'
<1>1. /\ run.status = "ACTIVE" /\ pc \in Rebuilt /\ pc' = NextRebuilt(pc)
      /\ files' = Replaced(files, Returned(files, pc, "accepted")) /\ run' = run
  BY DEF Rebuild, Active
<1>2. run.stage = "revision" /\ pc \in Stages \ {"revision", "draft_generation"}
  BY <1>1, StageNames DEF IInv, Rebuilt
<1> DEFINE result == Returned(files, pc, "accepted")
<1>3. IsResult(result) /\ result.stage = pc /\ MadeOf(run, files, pc, result)
  <2>1. Made(files, pc, result)
    BY <1>2, ReturnedMade
  <2> QED BY <2>1 DEF Made
<1>4. files' = Replaced(files, result)
  BY <1>1
<1> HIDE DEF result
<1>5. /\ GoodRun(run) /\ Filed(run, files) /\ files = [n \in Positions |-> files[n]]
      /\ SoundBelow(run, files, Due)
  BY DEF IInv, Filed
<1>6. LastIndex(run, pc) # 0
  BY <1>2, <1>5, Earlier
<1>7. Updated(run, files, run, files', pc, result)
  BY <1>2, <1>3, <1>4, <1>5, <1>6, ReplaceUpdates
<1>8. Due = Rank[pc] /\ Due \in Nat
  BY <1>1, <1>2, BaseRanks DEF Due, Rebuilt
<1>9. SoundBelow(run, files', Rank[pc] + 1)
  BY <1>2, <1>3, <1>5, <1>7, <1>8, SoundUpdate
<1>10. Filed(run, files')
  BY <1>3, <1>5, <1>7, FiledUpdate
<1>11. /\ pc' \in Rebuilt \cup {"draft_generation"}
       /\ Rank[pc'] = Rank[pc] + 1
  BY <1>1, StageNames DEF Rebuilt, NextRebuilt
<1>12. Due' = Rank[pc] + 1
  BY <1>1, <1>2, <1>11 DEF Due, Rebuilt
<1> QED BY <1>1, <1>2, <1>9, <1>10, <1>11, <1>12, KeptRun DEF Steps, Rebuilt

LEMMA RedraftSteps ==
  ASSUME IInv, Redraft
  PROVE  IInv'
<1> DEFINE draft == Returned(files, "draft_generation", "accepted")
           result == [draft EXCEPT !.stage = "revision"]
<1>1. run.status = "ACTIVE" /\ pc = "draft_generation" /\ run.stage = "revision"
  BY DEF Redraft, At, Active
<1>2. "draft_generation" \in Stages
  BY StageNames
<1>3. IsResult(draft) /\ MadeOf(run, files, "draft_generation", draft)
  <2>1. Made(files, "draft_generation", draft)
    BY <1>2, ReturnedMade
  <2> QED BY <2>1 DEF Made
<1> HIDE DEF draft
<1>4. IsResult(result) /\ result.stage = "revision" /\ result.reads = draft.reads
  <2>1. PICK a, b, c, d, e : draft = [stage |-> a, id |-> b, verdict |-> c, reads |-> d,
                                      article |-> e]
    BY <1>3 DEF IsResult
  <2>2. result = [stage |-> "revision", id |-> b, verdict |-> c, reads |-> d,
                  article |-> e]
    BY <2>1
  <2> QED BY <2>1, <2>2 DEF IsResult
<1>5. Made(files, "revision", result)
  BY <1>3, <1>4, InputRanks DEF Made, MadeOf
<1>6. Submit(result)
  BY DEF Redraft, draft
<1>7. Due >= Rank[run.stage]
  BY <1>1, StageNames DEF Due
<1> HIDE DEF result
<1> QED BY <1>1, <1>5, <1>6, <1>7, SubmitSteps

\* What becomes of a run that is over does not touch what was submitted.
LEMMA FinaliseSteps ==
  ASSUME IInv, Finalise
  PROVE  IInv'
<1>1. /\ run.status = "READY_TO_FINALISE" /\ run' = [run EXCEPT !.status = outcome']
      /\ outcome' \in {"REVIEW_REQUIRED", "APPROVED"}
      /\ files' = files /\ pc' = pc /\ held' = held
  BY DEF Finalise
<1>2. run \in RunState /\ Placed(run) /\ Indexed(run) /\ run.status # "ACTIVE"
  BY <1>1 DEF IInv, GoodRun
<1>3. /\ run' \in RunState /\ run'.submissions = run.submissions
      /\ run'.status # "ACTIVE"
  BY <1>1, <1>2 DEF RunState, Statuses
<1>4. \A s : LastIndex(run', s) = LastIndex(run, s)
  BY <1>3 DEF LastIndex
<1>5. \A s : Latest(run', files', s) = Latest(run, files, s)
  BY <1>1, <1>4 DEF Latest
<1>6. GoodRun(run')
  BY <1>2, <1>3, <1>4 DEF GoodRun, Placed, Indexed
<1>7. Filed(run', files')
  BY <1>1, <1>4, <1>5 DEF IInv, Filed
<1>8. Due' = Due
  BY <1>1, <1>2, <1>3 DEF Due
<1>9. TextId(run', files') = TextId(run, files)
  BY <1>4, <1>5 DEF TextId, TextStage, Id
<1>10. SoundBelow(run', files', Due')
  <2>1. \A s, u : Id(run', files', u) = Id(run, files, u) /\ (InForce(run', s) <=> InForce(run, s))
    BY <1>4, <1>5 DEF Id, InForce
  <2>2. \A s : SoundAt(run', files', s) <=> SoundAt(run, files, s)
    BY <1>5, <1>9, <2>1 DEF SoundAt
  <2> QED BY <1>8, <2>1, <2>2 DEF IInv, SoundBelow
<1>11. ReleaseReviewed'
  <2>1. ReleasedTextReviewed(run, files)
    BY <1>1 DEF IInv, ReleaseReviewed, Released
  <2>2. FinalText(run', files') = FinalText(run, files)
    BY <1>5, <1>9 DEF FinalText, Verified, Id
  <2> QED BY <1>5, <2>1, <2>2 DEF ReleaseReviewed, ReleasedTextReviewed
<1> QED BY <1>1, <1>2, <1>6, <1>7, <1>8, <1>10, <1>11 DEF IInv

-----------------------------------------------------------------------------
(* The theorems. *)

LEMMA InitIInv == Init => IInv
<1> SUFFICES ASSUME Init
             PROVE  IInv
  OBVIOUS
<1>1. /\ run = NewRun /\ files = NoFiles /\ pc = "fulfil"
      /\ run.submissions = << >> /\ run.stage = "research_planning"
      /\ run.status = "ACTIVE" /\ run.iteration = 0
  BY DEF Init, NewRun
<1>2. \A s : LastIndex(run, s) = 0
  BY <1>1 DEF LastIndex, SequenceExt!SelectLastInSeq
<1>3. run \in RunState
  BY <1>1, StageNames DEF NewRun, RunState, Statuses
<1>4. MaxSubmissions \in Nat
  BY StageNames, ReviewAssumption DEF MaxSubmissions
<1>5. FirstRound(run)
  BY <1>1, <1>2 DEF FirstRound, BaseStageSequence
<1>6. Len(run.submissions) = 0 /\ DOMAIN run.submissions = {}
  BY <1>1
<1>7. Placed(run)
  BY <1>1, <1>4, <1>5, <1>6 DEF Placed
<1>8. Indexed(run)
  BY <1>2, <1>6 DEF Indexed
<1>9. Filed(run, files)
  BY <1>1, <1>2 DEF Filed, NoFiles
<1>10. SoundBelow(run, files, Due)
  BY <1>2 DEF SoundBelow, InForce
<1>11. ReleaseReviewed
  BY <1>1 DEF ReleaseReviewed, Released
<1> QED BY <1>1, <1>3, <1>7, <1>8, <1>9, <1>10, <1>11 DEF IInv, GoodRun, Steps, Rebuilt

LEMMA NextIInv == IInv /\ [Next]_vars => IInv'
<1> SUFFICES ASSUME IInv, [Next]_vars
             PROVE  IInv'
  OBVIOUS
<1>1. CASE FulfilStage
  BY <1>1, FulfilSteps
<1>2. CASE Audit
  BY <1>2, AuditSteps
<1>3. CASE Extract
  BY <1>3, ExtractSteps
<1>4. CASE SubmitEvidence
  BY <1>4, HeldSteps DEF SubmitEvidence
<1>5. CASE ExpandEvidence
  BY <1>5, ExpandSteps
<1>6. CASE RepairResearch
  BY <1>6, RepairSteps
<1>7. CASE Rebuild
  BY <1>7, RebuildSteps
<1>8. CASE Redraft
  BY <1>8, RedraftSteps
<1>9. CASE UNCHANGED <<run, files, held, pc>>
  BY <1>9 DEF IInv, HeldSound, Due, ReleaseReviewed, Released
<1>10. CASE Finalise
  BY <1>10, FinaliseSteps
<1> QED
  BY <1>1, <1>2, <1>3, <1>4, <1>5, <1>6, <1>7, <1>8, <1>9, <1>10
  DEF Next, Fail, GiveUp, vars

LEMMA IInvariant == Spec => []IInv
BY InitIInv, NextIInv, PTL DEF Spec

LEMMA Coherence == IInv => ReleaseCoherent
<1> SUFFICES ASSUME IInv, Released, NEW s \in CurrentStages(run)
             PROVE  SoundAt(run, files, s)
  BY DEF ReleaseCoherent, Coherent, SoundAt
<1>1. run \in RunState /\ Indexed(run)
  BY DEF IInv, GoodRun
<1>2. PICK i \in DOMAIN run.submissions : s = run.submissions[i]
  BY DEF CurrentStages
<1>3. s \in Stages
  <2>1. run.submissions \in Seq(Stages)
    BY <1>1 DEF RunState
  <2> QED BY <1>2, <2>1, ElementOfSeq, LenProperties
<1>4. InForce(run, s)
  <2>1. LastIndex(run, s) # 0
    BY <1>1, <1>2 DEF Indexed
  <2>2. s = "draft_generation" => LastIndex(run, "revision") = 0
    BY DEF CurrentStages, TextStage
  <2> QED BY <2>1, <2>2 DEF InForce
<1>5. Due = 11
  BY DEF Released, Due
<1>6. Rank[s] < 11
  BY <1>3, BaseRanks
<1> QED BY <1>3, <1>4, <1>5, <1>6 DEF IInv, SoundBelow

LEMMA Joins == IInv => RowsJoined
<1> SUFFICES ASSUME IInv, Joining
             PROVE  SoundAt(run, files, "citation_support_audit")
  BY DEF RowsJoined, SoundAt, InputStages
<1>1. LastIndex(run, "citation_support_audit") # 0 /\ Due > 5
  <2>1. "citation_support_audit" \in Stages \ {"revision"}
    BY StageNames
  <2>2. CASE run.status # "ACTIVE"
    BY <2>1, <2>2, Earlier DEF IInv, Due
  <2>3. CASE run.status = "ACTIVE" /\ pc \in {"argument_construction", "draft_generation"}
    <3>1. run.stage = "revision"
      BY <2>3 DEF IInv, Rebuilt
    <3> QED BY <2>1, <2>3, <3>1, Earlier, StageNames DEF IInv, Due
  <2>4. CASE /\ run.status = "ACTIVE" /\ pc = "fulfil"
             /\ run.stage \in {"argument_construction", "draft_generation",
                               "hostile_review", "revision"}
    BY <2>1, <2>4, Earlier, StageNames DEF IInv, Due
  <2> QED BY <2>2, <2>3, <2>4 DEF Joining, Released
<1>2. InForce(run, "citation_support_audit")
  BY <1>1 DEF InForce
<1> QED BY <1>1, <1>2, StageNames DEF IInv, SoundBelow

\* However often the sources and what is built on them were replaced, what is
\* released was made from what is released with it (_rebuild_research_stages
\* leaves no stage of the chain out).
THEOREM CoherentReleased == Spec => []ReleaseCoherent
BY IInvariant, Coherence, PTL

\* The text that is released is the one that the last review was given and found
\* nothing blocking in.
THEOREM ReviewedReleased == Spec => []ReleaseReviewed
<1>1. IInv => ReleaseReviewed
  BY DEF IInv
<1> QED BY <1>1, IInvariant, PTL

\* Wherever claims and audits are joined by their index, the audit in force was
\* made of the evidence in force (_verified_candidate_rows).
THEOREM RowsStayJoined == Spec => []RowsJoined
BY IInvariant, Joins, PTL
=============================================================================
