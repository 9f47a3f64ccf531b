----------------------------- MODULE HostRunProofs -----------------------------
(***************************************************************************)
(* StageOrder for any number of drivers: whichever update of run-state.json *)
(* is lost, the one that stays is a state that the protocol reaches.       *)
(* The invariant says it of the state on disk and of every copy that a     *)
(* command holds (Good), and that a command that is about to append a      *)
(* submission holds an active run and a result of its stage.               *)
(* With one driver, whatever dies and is retried, accepted results stay,   *)
(* each was made from the inputs its order governs, and the released text  *)
(* is the one reviewed: the driver's copy is the state on disk, and its    *)
(* result answers the order that the run has out (SerialInv).              *)
(***************************************************************************)
EXTENDS HostRun, FiniteSetTheorems, SequenceTheorems, WellFoundedInduction, TLAPS

Occurs(s, stage) == {n \in DOMAIN s : s[n] = stage}

Ordered(s) ==
  \A n \in DOMAIN s :
    IF n = 1 THEN s[1] = "research_planning" ELSE Follows(s[n - 1], s[n])

Due(run) ==
  IF run.submissions = << >> THEN run.stage = "research_planning"
  ELSE Follows(run.submissions[Len(run.submissions)], run.stage)

RunState ==
  [status : Statuses, stage : Stages \cup {"none"}, iteration : Nat,
   revisions : Nat, submissions : Seq(Stages)]

Good(run) ==
  /\ run \in RunState
  /\ Ordered(run.submissions)
  /\ run.iteration = Cardinality(Occurs(run.submissions, "hostile_review"))
  /\ run.revisions = Cardinality(Occurs(run.submissions, "revision"))
  /\ run.status = "ACTIVE" => run.stage \in Stages /\ Due(run)

Outside == {"idle", "working", "submitting"}

DriverGood(c) ==
  /\ c.pc \in Outside \cup {"write", "truncate", "save"}
  /\ c.pc \notin Outside => Good(c.run)
  /\ "pc" \in DOMAIN c
  /\ c.pc # "idle" => "stage" \in DOMAIN c.result
  /\ c.pc = "write" => c.run.status = "ACTIVE" /\ c.result.stage = c.run.stage

IInv ==
  /\ disk = Torn \/ Good(disk)
  /\ drivers = [d \in Drivers |-> drivers[d]]
  /\ \A d \in Drivers : DriverGood(drivers[d])

-----------------------------------------------------------------------------
(* What appending a submission does to the order and to the counts. *)

\* An appended stage that follows the last one keeps the order.
LEMMA AppendOrdered ==
  ASSUME NEW s \in Seq(Stages), NEW stage \in Stages, Ordered(s),
         IF s = << >> THEN stage = "research_planning" ELSE Follows(s[Len(s)], stage)
  PROVE  Ordered(Append(s, stage))
<1> DEFINE t == Append(s, stage)
<1>1. t \in Seq(Stages) /\ Len(t) = Len(s) + 1 /\ DOMAIN t = 1..(Len(s) + 1)
      /\ t[Len(s) + 1] = stage /\ \A n \in 1..Len(s) : t[n] = s[n]
  BY AppendProperties
<1>2. DOMAIN s = 1..Len(s) /\ Len(s) \in Nat
  BY LenProperties
<1>3. ASSUME NEW n \in DOMAIN t
      PROVE  IF n = 1 THEN t[1] = "research_planning" ELSE Follows(t[n - 1], t[n])
  <2>1. CASE n \in 1..Len(s)
    <3>1. t[n] = s[n] /\ (n # 1 => n - 1 \in 1..Len(s) /\ t[n - 1] = s[n - 1])
      BY <1>1, <1>2, <2>1
    <3>2. IF n = 1 THEN s[1] = "research_planning" ELSE Follows(s[n - 1], s[n])
      BY <1>2, <2>1 DEF Ordered
    <3> QED BY <3>1, <3>2
  <2>2. CASE n = Len(s) + 1
    <3>1. CASE s = << >>
      <4>1. Len(s) = 0 BY <3>1, EmptySeq
      <4> QED BY <1>1, <2>2, <3>1, <4>1
    <3>2. CASE s # << >>
      <4>1. Len(s) \in 1..Len(s) BY <1>2, <3>2, EmptySeq
      <4>2. n # 1 /\ n - 1 = Len(s) /\ t[n - 1] = s[Len(s)] /\ t[n] = stage
        BY <1>1, <1>2, <2>2, <4>1
      <4> QED BY <3>2, <4>2
    <3> QED BY <3>1, <3>2
  <2> QED BY <1>1, <1>2, <1>3, <2>1, <2>2
<1> QED BY <1>3 DEF Ordered

\* An appended stage is counted once more, every other stage as before.
LEMMA AppendCounted ==
  ASSUME NEW s \in Seq(Stages), NEW stage \in Stages, NEW other
  PROVE  /\ Cardinality(Occurs(s, other)) \in Nat
         /\ Cardinality(Occurs(Append(s, stage), other)) =
              Cardinality(Occurs(s, other)) + (IF other = stage THEN 1 ELSE 0)
<1> DEFINE t == Append(s, stage)
<1>1. DOMAIN t = 1..(Len(s) + 1) /\ t[Len(s) + 1] = stage
      /\ \A n \in 1..Len(s) : t[n] = s[n]
  BY AppendProperties
<1>2. DOMAIN s = 1..Len(s) /\ Len(s) \in Nat
  BY LenProperties
<1>3. IsFiniteSet(Occurs(s, other)) /\ Len(s) + 1 \notin Occurs(s, other)
  <2>1. IsFiniteSet(1..Len(s)) BY <1>2, FS_Interval
  <2>2. Occurs(s, other) \subseteq 1..Len(s) BY <1>2 DEF Occurs
  <2> QED BY <1>2, <2>1, <2>2, FS_Subset
<1>4. Cardinality(Occurs(s, other)) \in Nat
  BY <1>3, FS_CardinalityType
<1>5. CASE other = stage
  <2>1. Occurs(t, other) = Occurs(s, other) \cup {Len(s) + 1}
    BY <1>1, <1>2, <1>5 DEF Occurs
  <2> QED BY <1>3, <1>4, <1>5, <2>1, FS_AddElement
<1>6. CASE other # stage
  <2>1. Occurs(t, other) = Occurs(s, other)
    BY <1>1, <1>2, <1>6 DEF Occurs
  <2> QED BY <1>4, <1>6, <2>1
<1> QED BY <1>5, <1>6

\* The stage that _advance puts next follows the one that was due.
LEMMA NextFollows ==
  ASSUME NEW stage \in Stages, stage \notin {"hostile_review", "revision"}
  PROVE  LET next == BaseStageSequence[1 + CHOOSE i \in DOMAIN BaseStageSequence :
                                              BaseStageSequence[i] = stage]
         IN  next \in Stages /\ Follows(stage, next)
<1> DEFINE k == CHOOSE i \in DOMAIN BaseStageSequence : BaseStageSequence[i] = stage
<1>1. DOMAIN BaseStageSequence = 1..10 /\ Len(BaseStageSequence) = 10
      /\ BaseStageSequence[10] = "hostile_review"
  BY DEF BaseStageSequence
<1>2. \E i \in DOMAIN BaseStageSequence : BaseStageSequence[i] = stage
  BY DEF Stages
<1>3. k \in DOMAIN BaseStageSequence /\ BaseStageSequence[k] = stage
  BY <1>2
<1>4. k \in 1..9
  BY <1>1, <1>3
<1> HIDE DEF k
<1>5. 1 + k \in 2..Len(BaseStageSequence) /\ (1 + k) - 1 = k
  BY <1>1, <1>4
<1>6. BaseStageSequence[1 + k] \in Stages
  BY <1>1, <1>5 DEF Stages
<1>7. Follows(stage, BaseStageSequence[1 + k])
  BY <1>3, <1>5 DEF Follows
<1> QED BY <1>6, <1>7 DEF k

\* Accepting a result of the stage that is due keeps the run good.
LEMMA AcceptGood ==
  ASSUME NEW run, NEW result, Good(run), run.status = "ACTIVE",
         result.stage = run.stage
  PROVE  Good(Accept(run, result))
<1> DEFINE s == Append(run.submissions, run.stage)
           r == [run EXCEPT !.submissions = s]
<1>1. run \in RunState /\ run.stage \in Stages /\ run.submissions \in Seq(Stages)
      /\ run.iteration \in Nat /\ run.revisions \in Nat
  BY DEF Good, RunState
<1>2. Ordered(s)
  BY <1>1, AppendOrdered DEF Good, Due
<1>3. s \in Seq(Stages) /\ s # << >> /\ s[Len(s)] = run.stage
  <2>1. s \in Seq(Stages) /\ Len(s) = Len(run.submissions) + 1
        /\ s[Len(run.submissions) + 1] = run.stage
    BY <1>1, AppendProperties
  <2>2. Len(run.submissions) \in Nat BY <1>1, LenProperties
  <2> QED BY <2>1, <2>2, EmptySeq
<1>4. /\ Cardinality(Occurs(s, "hostile_review")) =
           run.iteration + (IF run.stage = "hostile_review" THEN 1 ELSE 0)
      /\ Cardinality(Occurs(s, "revision")) =
           run.revisions + (IF run.stage = "revision" THEN 1 ELSE 0)
  <2>1. Cardinality(Occurs(s, "hostile_review")) =
          Cardinality(Occurs(run.submissions, "hostile_review"))
            + (IF "hostile_review" = run.stage THEN 1 ELSE 0)
    BY <1>1, AppendCounted
  <2>2. Cardinality(Occurs(s, "revision")) =
          Cardinality(Occurs(run.submissions, "revision"))
            + (IF "revision" = run.stage THEN 1 ELSE 0)
    BY <1>1, AppendCounted
  <2> QED BY <2>1, <2>2 DEF Good
<1>5. r \in RunState /\ r.submissions = s /\ r.iteration = run.iteration
      /\ r.revisions = run.revisions /\ r.status = "ACTIVE" /\ r.stage = run.stage
  BY <1>1, <1>3 DEF RunState
<1>6. Accept(run, result) = Advance(r, run.stage, result.verdict)
  BY DEF Accept
<1> HIDE DEF s, r
<1>7. CASE run.stage = "hostile_review"
  <2>1. Accept(run, result) = Reviewed(r, result.verdict)
    BY <1>6, <1>7 DEF Advance
  <2>2. Follows("hostile_review", "revision") /\ "revision" \in Stages
    BY DEF Follows, Stages
  <2> DEFINE q == Reviewed(r, result.verdict)
             counted == [r EXCEPT !.iteration = @ + 1]
  <2>3. counted \in RunState /\ counted.submissions = s /\ counted.stage = r.stage
        /\ counted.iteration = run.iteration + 1 /\ counted.revisions = run.revisions
    BY <1>5 DEF RunState
  <2>4. \/ q = [counted EXCEPT !.status = "READY_TO_FINALISE", !.stage = "none"]
        \/ q = [counted EXCEPT !.status = "REVIEW_REQUIRED", !.stage = "none"]
        \/ q = [counted EXCEPT !.stage = "revision"]
    BY DEF Reviewed
  <2> HIDE DEF q, counted
  <2>5. /\ q \in RunState /\ q.submissions = s
        /\ q.iteration = run.iteration + 1 /\ q.revisions = run.revisions
        /\ q.status = "ACTIVE" => q.stage = "revision"
    <3>1. "revision" \in Stages \cup {"none"} /\ "none" \in Stages \cup {"none"}
          /\ "READY_TO_FINALISE" \in Statuses /\ "REVIEW_REQUIRED" \in Statuses
      BY <2>2 DEF Statuses
    <3>2. CASE q = [counted EXCEPT !.status = "READY_TO_FINALISE", !.stage = "none"]
      BY <2>3, <3>1, <3>2 DEF RunState
    <3>3. CASE q = [counted EXCEPT !.status = "REVIEW_REQUIRED", !.stage = "none"]
      BY <2>3, <3>1, <3>3 DEF RunState
    <3>4. CASE q = [counted EXCEPT !.stage = "revision"]
      BY <2>3, <3>1, <3>4 DEF RunState
    <3> QED BY <2>4, <3>2, <3>3, <3>4
  <2> HIDE DEF Ordered, Occurs, RunState
  <2>6. Good(q)
    BY <1>1, <1>2, <1>3, <1>4, <1>7, <2>2, <2>5 DEF Good, Due
  <2> QED BY <2>1, <2>6 DEF q
<1>8. CASE run.stage = "revision"
  <2>1. Accept(run, result) =
          [r EXCEPT !.revisions = @ + 1, !.stage = "prose_transformation"]
    BY <1>6, <1>8 DEF Advance
  <2>2. Follows("revision", "prose_transformation")
    BY DEF Follows
  <2>3. "prose_transformation" \in Stages
    <3>1. 8 \in DOMAIN BaseStageSequence /\ BaseStageSequence[8] = "prose_transformation"
      BY DEF BaseStageSequence
    <3> QED BY <3>1 DEF Stages
  <2> DEFINE counted == [r EXCEPT !.revisions = @ + 1]
             q == [counted EXCEPT !.stage = "prose_transformation"]
  <2>4. counted \in RunState /\ counted.submissions = s
        /\ counted.iteration = run.iteration /\ counted.revisions = run.revisions + 1
    BY <1>1, <1>5 DEF RunState
  <2>5. Accept(run, result) = q
    BY <2>1
  <2> HIDE DEF counted
  <2>6. q \in RunState /\ q.submissions = s /\ q.stage = "prose_transformation"
        /\ q.iteration = run.iteration /\ q.revisions = run.revisions + 1
    BY <2>3, <2>4 DEF RunState
  <2> HIDE DEF q
  <2>7. Good(q)
    BY <1>1, <1>2, <1>3, <1>4, <1>8, <2>2, <2>3, <2>6 DEF Good, Due
  <2> QED BY <2>5, <2>7
<1>9. CASE run.stage \notin {"hostile_review", "revision"}
  <2> DEFINE next == BaseStageSequence[1 + CHOOSE i \in DOMAIN BaseStageSequence :
                                            BaseStageSequence[i] = run.stage]
  <2>1. Accept(run, result) = [r EXCEPT !.stage = next]
    BY <1>6, <1>9 DEF Advance
  <2>2. next \in Stages /\ Follows(run.stage, next)
    BY <1>1, <1>9, NextFollows
  <2> HIDE DEF next
  <2> QED BY <1>2, <1>3, <1>4, <1>5, <1>9, <2>1, <2>2 DEF Good, Due, RunState
<1> QED BY <1>7, <1>8, <1>9

-----------------------------------------------------------------------------
(* The invariant. *)

LEMMA InitGood == Init => IInv
<1> SUFFICES ASSUME Init PROVE IInv
  OBVIOUS
<1>1. Good(NewRun)
  <2>1. Occurs(<< >>, "hostile_review") = {} /\ Occurs(<< >>, "revision") = {}
    BY DEF Occurs
  <2>2. NewRun \in RunState
    BY DEF NewRun, RunState, Stages, Statuses, BaseStageSequence
  <2>3. Ordered(<< >>) BY DEF Ordered
  <2>4. "research_planning" \in Stages BY DEF Stages, BaseStageSequence
  <2> QED BY <2>1, <2>2, <2>3, <2>4, FS_EmptySet DEF Good, Due, NewRun
<1>2. \A d \in Drivers : DriverGood(drivers[d])
  BY DEF Init, DriverGood, Idle, Outside
<1> QED BY <1>1, <1>2 DEF Init, IInv

\* One driver changes its command, to one that is good.
LEMMA BecomeGood ==
  ASSUME NEW d \in Drivers, NEW state, IInv, DriverGood(state), Become(d, state),
         disk' = Torn \/ Good(disk')
  PROVE  IInv'
BY DEF IInv, Become

LEMMA NextGood == IInv /\ [Next]_vars => IInv'
<1> SUFFICES ASSUME IInv, [Next]_vars PROVE IInv'
  OBVIOUS
<1> USE DEF IInv
<1>1. CASE UNCHANGED vars
  BY <1>1 DEF vars
<1>2. ASSUME NEW d \in Drivers, NextWork(d) PROVE IInv'
  <2> DEFINE made == [stage   |-> disk.stage,
                      id      |-> 0,
                      verdict |-> "accepted",
                      reads   |-> WorkInputs(disk, files, disk.stage),
                      article |-> IF disk.stage = "hostile_review"
                                  THEN ReviewArticle(disk, files) ELSE 0]
  <2>1. "stage" \in DOMAIN made OBVIOUS
  <2>2. Become(d, [pc |-> "working", result |-> made])
    BY <1>2 DEF NextWork
  <2> HIDE DEF made
  <2>3. DriverGood([pc |-> "working", result |-> made])
    BY <2>1 DEF DriverGood, Outside
  <2> QED BY <1>2, <2>2, <2>3, BecomeGood DEF NextWork
<1>3. ASSUME NEW d \in Drivers, Fulfil(d) PROVE IInv'
  <2>1. PICK v : Become(d, [pc |-> "submitting",
                   result |-> [drivers[d].result EXCEPT !.id = New, !.verdict = v]])
    BY <1>3 DEF Fulfil
  <2> DEFINE made == [drivers[d].result EXCEPT !.id = New, !.verdict = v]
  <2>2. "stage" \in DOMAIN made
    BY <1>3 DEF Fulfil, In, DriverGood
  <2>3. Become(d, [pc |-> "submitting", result |-> made])
    BY <2>1
  <2> HIDE DEF made
  <2>4. DriverGood([pc |-> "submitting", result |-> made])
    BY <2>2 DEF DriverGood, Outside
  <2> QED BY <1>3, <2>3, <2>4, BecomeGood DEF Fulfil
<1>4. ASSUME NEW d \in Drivers, Submit(d) PROVE IInv'
  <2>1. disk # Torn BY <1>4 DEF Submit, Torn
  <2> DEFINE made == [drivers[d].result EXCEPT !.stage = disk.stage]
  <2>2. "stage" \in DOMAIN drivers[d].result
    BY <1>4 DEF Submit, In, DriverGood
  <2>3. "stage" \in DOMAIN made /\ made.stage = disk.stage
    BY <2>2
  <2>4. Become(d, [pc |-> "write", run |-> disk, result |-> made])
    BY <1>4 DEF Submit
  <2> HIDE DEF made
  <2>5. DriverGood([pc |-> "write", run |-> disk, result |-> made])
    BY <1>4, <2>1, <2>3 DEF Submit, DriverGood, Outside
  <2> QED BY <1>4, <2>4, <2>5, BecomeGood DEF Submit
<1>5. ASSUME NEW d \in Drivers, WriteSubmission(d) PROVE IInv'
  <2> DEFINE c == drivers[d]
  <2>1. Good(c.run) /\ c.run.status = "ACTIVE" /\ c.result.stage = c.run.stage
    BY <1>5 DEF WriteSubmission, In, DriverGood, Outside
  <2>2. Good(Accept(c.run, c.result))
    BY <2>1, AcceptGood
  <2> DEFINE made == [pc |-> "truncate", result |-> c.result,
                      run |-> Accept(c.run, c.result)]
  <2>3. "stage" \in DOMAIN c.result
    BY <1>5 DEF WriteSubmission, In, DriverGood
  <2>4. DriverGood(made)
    BY <2>2, <2>3 DEF DriverGood, Outside
  <2>5. Become(d, made) /\ disk' = disk
    BY <1>5 DEF WriteSubmission
  <2> HIDE DEF made
  <2> QED BY <2>4, <2>5, BecomeGood
<1>6. ASSUME NEW d \in Drivers, Truncate(d) PROVE IInv'
  <2>1. Good(drivers[d].run)
    BY <1>6 DEF Truncate, In, DriverGood, Outside
  <2> DEFINE c == [drivers[d] EXCEPT !.pc = "save"]
  <2>2. drivers[d].pc = "truncate" /\ "stage" \in DOMAIN drivers[d].result
    BY <1>6 DEF Truncate, In, DriverGood
  <2>3. "pc" \in DOMAIN drivers[d]
    BY DEF DriverGood
  <2>4. /\ c.pc = "save" /\ c.run = drivers[d].run /\ c.result = drivers[d].result
        /\ "pc" \in DOMAIN c
    BY <2>3
  <2>5. Become(d, c) /\ disk' = Torn
    BY <1>6 DEF Truncate, Become
  <2> HIDE DEF c
  <2>6. DriverGood(c)
    BY <2>1, <2>2, <2>4 DEF DriverGood, Outside
  <2> QED BY <2>5, <2>6, BecomeGood
<1>7. ASSUME NEW d \in Drivers, Save(d) PROVE IInv'
  <2>1. Good(drivers[d].run)
    BY <1>7 DEF Save, In, DriverGood, Outside
  <2> QED BY <1>7, <2>1, BecomeGood DEF Save, DriverGood, Idle, Outside
<1>8. ASSUME NEW d \in Drivers, Finalise(d) PROVE IInv'
  <2>1. PICK outcome \in {"APPROVED", "REVIEW_REQUIRED"} :
          Become(d, [pc |-> "truncate", result |-> NoResult,
                     run |-> [disk EXCEPT !.status = outcome]])
    BY <1>8 DEF Finalise
  <2>2. Good(disk)
    BY <1>8 DEF Finalise, Torn
  <2>3. Good([disk EXCEPT !.status = outcome])
    BY <2>2 DEF Good, RunState, Statuses
  <2> DEFINE made == [pc |-> "truncate", result |-> NoResult,
                      run |-> [disk EXCEPT !.status = outcome]]
  <2>4. "stage" \in DOMAIN NoResult BY DEF NoResult
  <2>5. DriverGood(made)
    BY <2>3, <2>4 DEF DriverGood, Outside
  <2> HIDE DEF made
  <2> QED BY <1>8, <2>1, <2>5, BecomeGood DEF Finalise, made
<1>9. ASSUME NEW d \in Drivers, Reject(d) PROVE IInv'
  BY <1>9, BecomeGood DEF Reject, DriverGood, Idle, Outside
<1>10. ASSUME NEW d \in Drivers, Crash(d) PROVE IInv'
  <2>1. CASE Become(d, Idle)
    <3>1. DriverGood(Idle) BY DEF DriverGood, Idle, Outside
    <3> QED BY <1>10, <2>1, <3>1, BecomeGood DEF Crash
  <2>2. CASE /\ drivers[d].pc # "idle"
             /\ Become(d, [pc |-> "submitting", result |-> drivers[d].result])
    <3>1. DriverGood([pc |-> "submitting", result |-> drivers[d].result])
      BY <2>2 DEF DriverGood, Outside
    <3> QED BY <1>10, <2>2, <3>1, BecomeGood DEF Crash
  <2>3. drivers[d].pc # "idle"
    BY <1>10, HostAssumption DEF Crash
  <2> QED BY <1>10, <2>1, <2>2, <2>3 DEF Crash
<1> QED
  BY <1>1, <1>2, <1>3, <1>4, <1>5, <1>6, <1>7, <1>8, <1>9, <1>10 DEF Next, Command

LEMMA GoodOrdered == IInv => StageOrder
<1> SUFFICES ASSUME IInv, disk # Torn PROVE StageOrder
  BY DEF StageOrder
<1>1. Good(disk) /\ Accepted = DOMAIN disk.submissions /\ disk.submissions \in Seq(Stages)
  BY DEF IInv, Accepted, Good, RunState
<1>2. Accepted # {} => disk.submissions # << >>
  BY <1>1
<1> QED BY <1>1, <1>2 DEF StageOrder, Good, Due, Ordered, Count, Occurs

\* Whatever the number of drivers, and whichever of their updates of the state is
\* lost, torn or made twice: the stages recorded in run-state.json follow the
\* protocol and its counters count them.
THEOREM StagesInOrder == Spec => []StageOrder
<1>1. Spec => []IInv
  BY InitGood, NextGood, PTL DEF Spec
<1> QED BY <1>1, GoodOrdered, PTL

-----------------------------------------------------------------------------
(* One driver.  The state it loaded is the state on disk, unless it is       *)
(* writing that state, and the result it holds answers the order that the    *)
(* run has out, however often it dies and submits the result again.          *)

Upto(run, n) == [run EXCEPT !.submissions = SubSeq(@, 1, n)]

\* Every accepted result was made from what was in force before it.
Exact(run, fs) ==
  \A n \in DOMAIN run.submissions :
    /\ fs[n].stage = run.submissions[n]
    /\ fs[n].reads = WorkInputs(Upto(run, n - 1), fs, run.submissions[n])

\* The last review was clear, and of the released text or of none (ReviewedOrUnread).
ReviewedRun(run, fs) ==
  LET review == Latest(run, fs, "hostile_review")
  IN  /\ review.verdict = "clear"
      /\ review.article =
           IF /\ Verified(run, fs)
              /\ Latest(run, fs, "prose_transformation").verdict # "candidate"
           THEN 0 ELSE FinalText(run, fs)

\* Submissions that the round in force may still take, with the one at stage.
Left(stage) ==
  IF stage = "revision" THEN 4
  ELSE 11 - CHOOSE i \in DOMAIN BaseStageSequence : BaseStageSequence[i] = stage

Roomy(run) ==
  run.status = "ACTIVE" =>
    /\ run.iteration \in 0..(MaxReviewIterations - 1)
    /\ Len(run.submissions) + Left(run.stage)
         + 4 * (MaxReviewIterations - 1 - run.iteration) = MaxSubmissions

RunInv(run, fs) ==
  /\ Good(run) /\ Roomy(run)
  /\ Exact(run, fs)
  /\ run.status \in {"READY_TO_FINALISE", "APPROVED"} => ReviewedRun(run, fs)

\* The result answers the order that the run has out.
MadeFor(run, fs, result) ==
  /\ run.status = "ACTIVE" /\ result.stage = run.stage
  /\ result.reads = WorkInputs(run, fs, run.stage)
  /\ run.stage = "hostile_review" => result.article = ReviewArticle(run, fs)

Fields == {"stage", "id", "verdict", "reads", "article"}

DriverSerial(c, run, fs) ==
  /\ c.pc # "idle" => Fields \subseteq DOMAIN c.result
  /\ c.pc = "working" => c.result.id = 0
  /\ c.pc \in {"working", "submitting"} /\ run # Torn => MadeFor(run, fs, c.result)
  /\ c.pc = "write" => run # Torn /\ c.run = run /\ MadeFor(run, fs, c.result)
  /\ c.pc = "truncate" =>
       /\ run # Torn /\ RunInv(c.run, fs)
       /\ c.result.id # 0 => MadeFor(run, fs, c.result)
  /\ c.pc = "save" => run = Torn /\ RunInv(c.run, fs)

SerialInv ==
  /\ IInv
  /\ files = [n \in Positions |-> files[n]]
  /\ disk # Torn => RunInv(disk, files)
  /\ \A d \in Drivers : DriverSerial(drivers[d], disk, files)

-----------------------------------------------------------------------------
(* What is in force. *)

\* A set of positions has a greatest one.
LEMMA Greatest ==
  ASSUME NEW n \in Nat, NEW S \in SUBSET (1..n), S # {}
  PROVE  \E m \in S : \A k \in S : m >= k
<1> DEFINE T == {n - k : k \in S}
           R == OpToRel(<, Nat)
<1>1. T \subseteq Nat /\ T # {}
  <2>1. PICK k \in S : TRUE
    OBVIOUS
  <2>2. n - k \in T
    OBVIOUS
  <2>3. \A i \in S : n - i \in Nat
    OBVIOUS
  <2> QED BY <2>2, <2>3
<1>2. PICK x \in T : \A y \in T : ~(<<y, x>> \in R)
  <2>1. IsWellFoundedOn(R, Nat)
    BY NatLessThanWellFounded DEF IsWellFoundedOn, OpToRel
  <2> HIDE DEF T, R
  <2> QED BY <1>1, <2>1, WFMin DEF IsWellFoundedOn
<1>3. \A y \in T : ~(y < x)
  BY <1>1, <1>2 DEF OpToRel
<1>4. PICK m \in S : x = n - m
  OBVIOUS
<1>5. ASSUME NEW k \in S PROVE m >= k
  <2>1. n - k \in T OBVIOUS
  <2>2. ~(n - k < n - m) BY <1>3, <1>4, <2>1
  <2> HIDE DEF T
  <2> QED BY <2>2
<1> QED BY <1>5

\* LastIndex finds the last submission of a stage, or 0.
LEMMA LastIndexIs ==
  ASSUME NEW r, NEW s, r.submissions \in Seq(Stages)
  PROVE  LET k == LastIndex(r, s)
         IN  /\ k \in 0..Len(r.submissions)
             /\ k # 0 => r.submissions[k] = s
             /\ \A i \in 1..Len(r.submissions) : r.submissions[i] = s => i <= k
<1> DEFINE n == Len(r.submissions)
           I == {i \in 1..n : r.submissions[i] = s}
           top == CHOOSE i \in I : \A j \in I : i >= j
<1>1. LastIndex(r, s) = IF I # {} THEN top ELSE 0
  BY DEF LastIndex, SequenceExt!SelectLastInSeq, SequenceExt!Max
<1>2. n \in Nat
  BY LenProperties
<1>3. CASE I # {}
  <2>1. \E m \in I : \A k \in I : m >= k
    <3>1. I \in SUBSET (1..n) OBVIOUS
    <3> HIDE DEF I
    <3> QED BY <1>2, <1>3, <3>1, Greatest
  <2>2. top \in I /\ \A j \in I : top >= j
    <3> HIDE DEF I
    <3> QED BY <2>1
  <2> HIDE DEF top
  <2> QED BY <1>1, <1>2, <1>3, <2>2
<1>4. CASE I = {}
  BY <1>1, <1>2, <1>4
<1> QED BY <1>3, <1>4

\* What is in force depends on the submissions only, not on the rest of the state.
LEMMA SameIndex ==
  ASSUME NEW r, NEW q, NEW s, q.submissions = r.submissions
  PROVE  LastIndex(q, s) = LastIndex(r, s)
BY DEF LastIndex

\* An appended stage is the last of its kind; the others stay.
LEMMA IndexAppend ==
  ASSUME NEW r, NEW q, NEW x \in Stages, NEW s, r.submissions \in Seq(Stages),
         q.submissions = Append(r.submissions, x)
  PROVE  LastIndex(q, s) = IF s = x THEN Len(r.submissions) + 1 ELSE LastIndex(r, s)
<1> DEFINE n == Len(r.submissions)
<1>1. /\ q.submissions \in Seq(Stages)
      /\ Len(q.submissions) = n + 1 /\ q.submissions[n + 1] = x /\ n \in Nat
      /\ \A i \in 1..n : q.submissions[i] = r.submissions[i]
  BY AppendProperties, LenProperties
<1>2. PICK k : /\ k = LastIndex(r, s) /\ k \in 0..n
               /\ k # 0 => r.submissions[k] = s
               /\ \A i \in 1..n : r.submissions[i] = s => i <= k
  BY LastIndexIs
<1>3. PICK m : /\ m = LastIndex(q, s) /\ m \in 0..(n + 1)
               /\ m # 0 => q.submissions[m] = s
               /\ \A i \in 1..(n + 1) : q.submissions[i] = s => i <= m
  <2>1. /\ LastIndex(q, s) \in 0..Len(q.submissions)
        /\ LastIndex(q, s) # 0 => q.submissions[LastIndex(q, s)] = s
        /\ \A i \in 1..Len(q.submissions) : q.submissions[i] = s => i <= LastIndex(q, s)
    BY <1>1, LastIndexIs
  <2> QED BY <1>1, <2>1
<1> HIDE DEF n
<1>4. CASE s = x
  BY <1>1, <1>3, <1>4 DEF n
<1>5. CASE s # x
  <2>1. m # n + 1
    BY <1>1, <1>3, <1>5
  <2>2. m <= k
    BY <1>1, <1>2, <1>3, <2>1
  <2>3. k <= m
    BY <1>1, <1>2, <1>3
  <2> QED BY <1>1, <1>2, <1>3, <1>5, <2>2, <2>3
<1> QED BY <1>4, <1>5

LEMMA IndexOther ==
  ASSUME NEW r, NEW q, NEW x \in Stages, NEW s, s # x, r.submissions \in Seq(Stages),
         q.submissions = Append(r.submissions, x)
  PROVE  LastIndex(q, s) = LastIndex(r, s)
BY IndexAppend

\* The inputs of a work order are results of stages.
LEMMA InputsAreStages ==
  /\ \A s : InputStages(s) \subseteq Stages
  /\ {"revision", "draft_generation", "hostile_review", "prose_transformation",
      "semantic_verification"} \subseteq Stages
<1>1. Stages = {"research_planning", "source_retrieval", "semantic_rerank",
                "evidence_extraction", "citation_support_audit",
                "argument_construction", "draft_generation", "prose_transformation",
                "semantic_verification", "hostile_review", "revision"}
  <2>1. DOMAIN BaseStageSequence = 1..10
    BY DEF BaseStageSequence
  <2>2. Stages = {BaseStageSequence[1], BaseStageSequence[2], BaseStageSequence[3],
                  BaseStageSequence[4], BaseStageSequence[5], BaseStageSequence[6],
                  BaseStageSequence[7], BaseStageSequence[8], BaseStageSequence[9],
                  BaseStageSequence[10], "revision"}
    BY <2>1 DEF Stages
  <2> QED BY <2>2 DEF BaseStageSequence
<1> QED BY <1>1 DEF InputStages

\* Orders, the review's article and the released text are made of what is in force.
InForceAlike(r, fs, q, gs) ==
  \A s \in Stages :
    /\ Latest(q, gs, s) = Latest(r, fs, s)
    /\ LastIndex(q, s) # 0 <=> LastIndex(r, s) # 0

LEMMA SameInForce ==
  ASSUME NEW r, NEW fs, NEW q, NEW gs, InForceAlike(r, fs, q, gs)
  PROVE  /\ \A s : WorkInputs(q, gs, s) = WorkInputs(r, fs, s)
         /\ ReviewArticle(q, gs) = ReviewArticle(r, fs)
         /\ FinalText(q, gs) = FinalText(r, fs)
         /\ ReviewedRun(q, gs) = ReviewedRun(r, fs)
         /\ Latest(q, gs, "hostile_review") = Latest(r, fs, "hostile_review")
<1>0. /\ "revision" \in Stages /\ "draft_generation" \in Stages
      /\ "hostile_review" \in Stages /\ "prose_transformation" \in Stages
      /\ "semantic_verification" \in Stages
  BY InputsAreStages
<1>1. /\ \A s \in Stages : Id(q, gs, s) = Id(r, fs, s)
      /\ Latest(q, gs, "prose_transformation") = Latest(r, fs, "prose_transformation")
      /\ Latest(q, gs, "hostile_review") = Latest(r, fs, "hostile_review")
  BY <1>0 DEF InForceAlike, Id
<1>2. TextStage(q) = TextStage(r) /\ TextStage(r) \in Stages
  BY <1>0 DEF InForceAlike, TextStage
<1>3. TextId(q, gs) = TextId(r, fs)
  BY <1>1, <1>2 DEF TextId
<1>4. Verified(q, gs) = Verified(r, fs)
  BY <1>0 DEF InForceAlike, Verified
<1>5. ReviewArticle(q, gs) = ReviewArticle(r, fs) /\ FinalText(q, gs) = FinalText(r, fs)
  BY <1>0, <1>1, <1>3, <1>4 DEF ReviewArticle, FinalText
<1>7. ReviewedRun(q, gs) = ReviewedRun(r, fs)
  BY <1>1, <1>4, <1>5 DEF ReviewedRun
<1>6. ASSUME NEW s
      PROVE  WorkInputs(q, gs, s) = WorkInputs(r, fs, s)
  <2>1. {Id(q, gs, u) : u \in InputStages(s)} = {Id(r, fs, u) : u \in InputStages(s)}
    BY <1>1, InputsAreStages
  <2>2. TextInputs(q, gs, s) = TextInputs(r, fs, s)
    BY <1>0, <1>1, <1>3, <1>5 DEF TextInputs
  <2> QED BY <2>1, <2>2 DEF WorkInputs
<1> QED BY <1>1, <1>5, <1>6, <1>7

\* Files beyond the submissions are not in force.
LEMMA LaterFiles ==
  ASSUME NEW r, NEW q, NEW fs, NEW gs, r.submissions \in Seq(Stages),
         q.submissions = r.submissions,
         \A i \in 1..Len(r.submissions) : gs[i] = fs[i]
  PROVE  InForceAlike(r, fs, q, gs)
<1> SUFFICES ASSUME NEW s \in Stages
             PROVE  /\ Latest(q, gs, s) = Latest(r, fs, s)
                    /\ LastIndex(q, s) # 0 <=> LastIndex(r, s) # 0
  BY DEF InForceAlike
<1>1. LastIndex(q, s) = LastIndex(r, s)
  BY SameIndex
<1>2. LastIndex(r, s) \in 0..Len(r.submissions) /\ Len(r.submissions) \in Nat
  BY LastIndexIs, LenProperties
<1> QED BY <1>1, <1>2 DEF Latest

-----------------------------------------------------------------------------
(* What accepting a result does. *)

NextOf(stage) ==
  IF stage = "revision" THEN "prose_transformation"
  ELSE BaseStageSequence[1 + CHOOSE i \in DOMAIN BaseStageSequence :
                               BaseStageSequence[i] = stage]

LEMMA AcceptForms ==
  ASSUME NEW run, NEW result, Good(run), run.status = "ACTIVE",
         result.stage = run.stage
  PROVE  LET q == Accept(run, result)
         IN  /\ q.submissions = Append(run.submissions, run.stage)
             /\ run.stage = "hostile_review" =>
                  \/ q.status = "READY_TO_FINALISE" /\ result.verdict = "clear"
                  \/ q.status = "REVIEW_REQUIRED"
                  \/ /\ q.status = "ACTIVE" /\ q.stage = "revision"
                     /\ q.iteration = run.iteration + 1
                     /\ ~(run.iteration + 1 >= MaxReviewIterations)
             /\ run.stage # "hostile_review" =>
                  /\ q.status = "ACTIVE" /\ q.iteration = run.iteration
                  /\ q.stage = NextOf(run.stage)
<1> DEFINE r == [run EXCEPT !.submissions = Append(run.submissions, run.stage)]
           q == Accept(run, result)
<1>1. run \in RunState
  BY DEF Good
<1>2. PICK p : p = r
  OBVIOUS
<1>3. /\ p = [status |-> "ACTIVE", stage |-> run.stage, iteration |-> run.iteration,
              revisions |-> run.revisions,
              submissions |-> Append(run.submissions, run.stage)]
  BY <1>1, <1>2 DEF RunState
<1>4. q = Advance(p, run.stage, result.verdict)
  BY <1>2 DEF Accept
<1>5. CASE run.stage = "hostile_review"
  <2> DEFINE counted == [p EXCEPT !.iteration = @ + 1]
  <2>1. counted = [status |-> "ACTIVE", stage |-> run.stage,
                   iteration |-> run.iteration + 1, revisions |-> run.revisions,
                   submissions |-> Append(run.submissions, run.stage)]
    <3>1. PICK k : k = run.iteration + 1
      OBVIOUS
    <3>2. counted = [p EXCEPT !.iteration = k]
      BY <1>3, <3>1
    <3> HIDE DEF counted
    <3> QED BY <1>3, <3>1, <3>2
  <2>2. q = IF result.verdict = "clear"
            THEN [counted EXCEPT !.status = "READY_TO_FINALISE", !.stage = "none"]
            ELSE IF counted.iteration >= MaxReviewIterations
            THEN [counted EXCEPT !.status = "REVIEW_REQUIRED", !.stage = "none"]
            ELSE [counted EXCEPT !.stage = "revision"]
    BY <1>4, <1>5 DEF Advance, Reviewed
  <2> HIDE DEF counted, q
  <2> QED BY <1>5, <2>1, <2>2 DEF q
<1>6. CASE run.stage = "revision"
  <2>1. q = [p EXCEPT !.revisions = @ + 1, !.stage = "prose_transformation"]
    BY <1>4, <1>6 DEF Advance
  <2> HIDE DEF q
  <2> QED BY <1>3, <1>6, <2>1 DEF q, NextOf
<1>7. CASE run.stage \notin {"hostile_review", "revision"}
  <2>1. q = [p EXCEPT !.stage = NextOf(run.stage)]
    BY <1>4, <1>7 DEF Advance, NextOf
  <2> HIDE DEF q
  <2> QED BY <1>3, <1>7, <2>1 DEF q
<1> QED BY <1>5, <1>6, <1>7

\* The rounds of the stages: one submission less is left after each.
LEMMA LeftNext ==
  /\ Left("hostile_review") = 1 /\ Left("revision") = 4 /\ Left("research_planning") = 10
  /\ Len(BaseStageSequence) = 10
  /\ \A s \in Stages :
       /\ Left(s) \in 1..10
       /\ s # "hostile_review" => Left(NextOf(s)) = Left(s) - 1
<1> DEFINE Place(s) == CHOOSE i \in DOMAIN BaseStageSequence : BaseStageSequence[i] = s
<1>1. DOMAIN BaseStageSequence = 1..10 /\ Len(BaseStageSequence) = 10
  BY DEF BaseStageSequence
<1>2. /\ BaseStageSequence[1] = "research_planning"
      /\ BaseStageSequence[2] = "source_retrieval"
      /\ BaseStageSequence[3] = "semantic_rerank"
      /\ BaseStageSequence[4] = "evidence_extraction"
      /\ BaseStageSequence[5] = "citation_support_audit"
      /\ BaseStageSequence[6] = "argument_construction"
      /\ BaseStageSequence[7] = "draft_generation"
      /\ BaseStageSequence[8] = "prose_transformation"
      /\ BaseStageSequence[9] = "semantic_verification"
      /\ BaseStageSequence[10] = "hostile_review"
  BY DEF BaseStageSequence
<1>3. \A i, j \in 1..10 : BaseStageSequence[i] = BaseStageSequence[j] => i = j
  BY <1>2
<1>4. \A i \in 1..10 : Place(BaseStageSequence[i]) = i /\ BaseStageSequence[i] # "revision"
  <2> SUFFICES ASSUME NEW i \in 1..10
               PROVE  Place(BaseStageSequence[i]) = i /\ BaseStageSequence[i] # "revision"
    OBVIOUS
  <2>1. Place(BaseStageSequence[i]) \in 1..10
        /\ BaseStageSequence[Place(BaseStageSequence[i])] = BaseStageSequence[i]
    BY <1>1
  <2> HIDE DEF Place
  <2> QED BY <1>2, <1>3, <2>1
<1>5. \A s \in Stages : s = "revision" \/ \E i \in 1..10 : s = BaseStageSequence[i]
  BY <1>1 DEF Stages
<1>6. /\ Left("revision") = 4
      /\ \A i \in 1..10 : Left(BaseStageSequence[i]) = 11 - i
  BY <1>4 DEF Left
<1>7. /\ NextOf("revision") = BaseStageSequence[8]
      /\ \A i \in 1..10 : NextOf(BaseStageSequence[i]) = BaseStageSequence[1 + i]
  <2>1. NextOf("revision") = BaseStageSequence[8]
    BY <1>2 DEF NextOf
  <2>2. ASSUME NEW i \in 1..10
        PROVE  NextOf(BaseStageSequence[i]) = BaseStageSequence[1 + i]
    <3>1. NextOf(BaseStageSequence[i]) = BaseStageSequence[1 + Place(BaseStageSequence[i])]
      BY <1>4 DEF NextOf
    <3> HIDE DEF Place
    <3> QED BY <1>4, <3>1
  <2> QED BY <2>1, <2>2
<1> HIDE DEF Place
<1>8. ASSUME NEW s \in Stages
      PROVE  /\ Left(s) \in 1..10
             /\ s # "hostile_review" => Left(NextOf(s)) = Left(s) - 1
  <2>1. CASE s = "revision"
    BY <1>6, <1>7, <2>1
  <2>2. ASSUME NEW i \in 1..10, s = BaseStageSequence[i]
        PROVE  /\ Left(s) \in 1..10
               /\ s # "hostile_review" => Left(NextOf(s)) = Left(s) - 1
    <3>1. Left(s) = 11 - i
      BY <1>6, <2>2
    <3>2. s # "hostile_review" => i \in 1..9 /\ 1 + i \in 1..10
      BY <1>2, <2>2
    <3>3. s # "hostile_review" => Left(NextOf(s)) = 11 - (1 + i)
      BY <1>6, <1>7, <2>2, <3>2
    <3> QED BY <3>1, <3>3
  <2> QED BY <1>5, <2>1, <2>2
<1> QED BY <1>1, <1>2, <1>6, <1>8

\* A round of four fits exactly where the review of the last one left off.
LEMMA Rounds ==
  ASSUME NEW m \in Nat \ {0}, NEW i \in 0..(m - 1), NEW n \in Nat, NEW left \in 1..10,
         NEW max \in Nat, n + left + 4 * (m - 1 - i) = max
  PROVE  /\ n + 1 \in 1..max
         /\ (n + 1) + (left - 1) + 4 * (m - 1 - i) = max
         /\ ~(i + 1 >= m) /\ left = 1 =>
              i + 1 \in 0..(m - 1) /\ (n + 1) + 4 + 4 * (m - 1 - (i + 1)) = max
OBVIOUS

\* An active run has a file left for its next submission, and has so again after it.
LEMMA AcceptRoomy ==
  ASSUME NEW run, NEW result, Good(run), Roomy(run), run.status = "ACTIVE",
         result.stage = run.stage
  PROVE  NextPosition(run) \in Positions /\ Roomy(Accept(run, result))
<1> DEFINE q == Accept(run, result)
           n == Len(run.submissions)
<1>1. /\ run.stage \in Stages /\ run.submissions \in Seq(Stages) /\ n \in Nat
  BY LenProperties DEF Good, RunState
<1>2. q.submissions = Append(run.submissions, run.stage) /\ Len(q.submissions) = n + 1
  BY <1>1, AcceptForms, AppendProperties
<1>3. /\ MaxReviewIterations \in Nat \ {0}
      /\ MaxSubmissions \in Nat /\ Left(run.stage) \in 1..10
      /\ run.iteration \in 0..(MaxReviewIterations - 1)
      /\ n + Left(run.stage) + 4 * (MaxReviewIterations - 1 - run.iteration)
           = MaxSubmissions
  <2>1. MaxSubmissions \in Nat
    BY ReviewAssumption, LeftNext DEF MaxSubmissions
  <2> QED BY <1>1, <2>1, ReviewAssumption, LeftNext DEF Roomy
<1> DEFINE left == Left(run.stage)
<1>4. PICK i, m, max : /\ i = run.iteration /\ m = MaxReviewIterations
                       /\ max = MaxSubmissions
  OBVIOUS
<1>5. /\ m \in Nat \ {0} /\ max \in Nat /\ left \in 1..10 /\ i \in 0..(m - 1)
      /\ n \in Nat /\ n + left + 4 * (m - 1 - i) = max
  BY <1>1, <1>3, <1>4
<1>6. /\ n + 1 \in 1..max
      /\ (n + 1) + (left - 1) + 4 * (m - 1 - i) = max
      /\ ~(i + 1 >= m) /\ left = 1 =>
              i + 1 \in 0..(m - 1) /\ (n + 1) + 4 + 4 * (m - 1 - (i + 1)) = max
  <2> HIDE DEF n, left
  <2> QED BY <1>5, Rounds
<1>7. NextPosition(run) \in Positions
  BY <1>4, <1>6 DEF NextPosition, Positions
<1>8. CASE run.stage = "hostile_review"
  <2>1. \/ q.status # "ACTIVE"
        \/ /\ q.stage = "revision" /\ q.iteration = run.iteration + 1
           /\ ~(run.iteration + 1 >= MaxReviewIterations)
    BY <1>8, AcceptForms
  <2> HIDE DEF q, n
  <2>2. ASSUME q.stage = "revision", q.iteration = run.iteration + 1,
               ~(run.iteration + 1 >= MaxReviewIterations)
        PROVE  Roomy(q)
    <3>1. Left(run.stage) = 1 /\ Left(q.stage) = 4
      BY <1>8, <2>2, LeftNext
    <3>2. /\ run.iteration + 1 \in 0..(MaxReviewIterations - 1)
          /\ (n + 1) + 4 + 4 * (MaxReviewIterations - 1 - (run.iteration + 1))
               = MaxSubmissions
      BY <1>4, <1>6, <2>2, <3>1
    <3> QED BY <1>2, <2>2, <3>1, <3>2 DEF Roomy
  <2>3. Roomy(q)
    BY <2>1, <2>2 DEF Roomy
  <2> QED BY <1>7, <2>3 DEF q
<1>9. CASE run.stage # "hostile_review"
  <2>1. q.iteration = run.iteration /\ q.stage = NextOf(run.stage)
    BY <1>9, AcceptForms
  <2>2. Left(q.stage) = Left(run.stage) - 1
    BY <1>1, <1>9, <2>1, LeftNext
  <2> HIDE DEF q, n
  <2>3. (n + 1) + (Left(run.stage) - 1)
          + 4 * (MaxReviewIterations - 1 - run.iteration) = MaxSubmissions
    BY <1>4, <1>6
  <2>4. Roomy(q)
    BY <1>2, <1>3, <2>1, <2>2, <2>3 DEF Roomy
  <2> QED BY <1>7, <2>4 DEF q
<1> QED BY <1>8, <1>9

\* What was in force before a submission stays so when submissions and files
\* are added after it.
LEMMA PrefixInForce ==
  ASSUME NEW run \in RunState, NEW q \in RunState, NEW fs, NEW gs,
         NEW n \in Nat, n <= Len(run.submissions), n <= Len(q.submissions),
         \A i \in 1..n : q.submissions[i] = run.submissions[i] /\ gs[i] = fs[i]
  PROVE  InForceAlike(Upto(run, n), fs, Upto(q, n), gs)
<1> DEFINE a == SubSeq(run.submissions, 1, n)
           b == SubSeq(q.submissions, 1, n)
<1>1. /\ run.submissions \in Seq(Stages) /\ q.submissions \in Seq(Stages)
      /\ Len(run.submissions) \in Nat /\ Len(q.submissions) \in Nat
  BY LenProperties DEF RunState
<1>2. /\ a \in Seq(Stages) /\ Len(a) = n /\ \A i \in 1..n : a[i] = run.submissions[i]
      /\ b \in Seq(Stages) /\ Len(b) = n /\ \A i \in 1..n : b[i] = q.submissions[i]
  <2>1. \A i \in 1..n : i \in 1..Len(run.submissions) /\ i \in 1..Len(q.submissions)
    BY <1>1
  <2>2. \A i \in 1..n : run.submissions[i] \in Stages /\ q.submissions[i] \in Stages
    BY <1>1, <2>1, ElementOfSeq
  <2> QED BY <1>1, <2>1, <2>2, SubSeqProperties
<1> HIDE DEF a, b
<1>3. a = b
  BY <1>2, SeqEqual
<1>4. Upto(run, n).submissions = a /\ Upto(q, n).submissions = b
  BY DEF Upto, RunState, a, b
<1> QED BY <1>2, <1>3, <1>4, LaterFiles

\* All of the submissions are the submissions.
LEMMA UptoAll ==
  ASSUME NEW run \in RunState, NEW fs
  PROVE  InForceAlike(run, fs, Upto(run, Len(run.submissions)), fs)
<1>1. run.submissions \in Seq(Stages)
  BY DEF RunState
<1>2. Upto(run, Len(run.submissions)).submissions = run.submissions
  <2>1. SubSeq(run.submissions, 1, Len(run.submissions)) = run.submissions
    BY <1>1
  <2> QED BY <2>1 DEF Upto, RunState
<1> QED BY <1>1, <1>2, LaterFiles

\* A file that is not of an accepted submission is of no account.
LEMMA FilesKeep ==
  ASSUME NEW run, NEW fs, NEW gs, RunInv(run, fs),
         \A i \in 1..Len(run.submissions) : gs[i] = fs[i]
  PROVE  RunInv(run, gs)
<1> DEFINE n == Len(run.submissions)
<1>1. run \in RunState /\ run.submissions \in Seq(Stages) /\ n \in Nat
      /\ DOMAIN run.submissions = 1..n
  BY LenProperties DEF RunInv, Good, RunState
<1> HIDE DEF n
<1>2. ASSUME NEW k \in 1..n
      PROVE  /\ gs[k].stage = run.submissions[k]
             /\ gs[k].reads = WorkInputs(Upto(run, k - 1), gs, run.submissions[k])
  <2>1. k - 1 \in Nat /\ k - 1 <= n /\ \A i \in 1..(k - 1) : i \in 1..n
    BY <1>1
  <2>2. InForceAlike(Upto(run, k - 1), fs, Upto(run, k - 1), gs)
    BY <1>1, <2>1, PrefixInForce DEF n
  <2>3. /\ fs[k].stage = run.submissions[k]
        /\ fs[k].reads = WorkInputs(Upto(run, k - 1), fs, run.submissions[k])
    BY <1>1 DEF RunInv, Exact
  <2> QED BY <2>2, <2>3, SameInForce DEF n
<1>3. Exact(run, gs)
  BY <1>1, <1>2 DEF Exact
<1>4. ReviewedRun(run, fs) = ReviewedRun(run, gs)
  <2>1. InForceAlike(run, fs, run, gs)
    BY <1>1, LaterFiles DEF n
  <2> QED BY <2>1, SameInForce
<1> QED BY <1>3, <1>4 DEF RunInv

\* The run after a result was accepted, with its file.
LEMMA AcceptKeeps ==
  ASSUME NEW run, NEW result, NEW fs, NEW gs, RunInv(run, fs),
         MadeFor(run, fs, result),
         gs[NextPosition(run)] = result,
         \A i \in 1..Len(run.submissions) : gs[i] = fs[i]
  PROVE  RunInv(Accept(run, result), gs)
<1> DEFINE q == Accept(run, result)
           n == Len(run.submissions)
           s == run.submissions
<1>1. /\ Good(run) /\ Roomy(run) /\ run.status = "ACTIVE" /\ result.stage = run.stage
      /\ run \in RunState /\ s \in Seq(Stages) /\ n \in Nat /\ DOMAIN s = 1..n
      /\ run.stage \in Stages
  BY LenProperties DEF RunInv, MadeFor, Good, RunState
<1>2. Good(q) /\ Roomy(q) /\ q \in RunState
  <2>1. Good(q) /\ Roomy(q)
    BY <1>1, AcceptGood, AcceptRoomy
  <2> QED BY <2>1 DEF Good
<1>3. /\ q.submissions = Append(s, run.stage) /\ Len(q.submissions) = n + 1
      /\ DOMAIN q.submissions = 1..(n + 1)
      /\ q.submissions[n + 1] = run.stage
      /\ \A i \in 1..n : q.submissions[i] = s[i]
  <2>1. q.submissions = Append(s, run.stage)
    BY <1>1, AcceptForms
  <2> HIDE DEF q, s
  <2> QED BY <1>1, <2>1, AppendProperties DEF s
<1>4. gs[n + 1] = result
  BY DEF NextPosition
<1>5. \A u : u # "hostile_review" => Latest(q, gs, u) = Latest(run, fs, u) \/ u = run.stage
  <2> SUFFICES ASSUME NEW u, u # run.stage PROVE Latest(q, gs, u) = Latest(run, fs, u)
    OBVIOUS
  <2>1. LastIndex(q, u) = LastIndex(run, u)
    <3>1. q.submissions = Append(run.submissions, run.stage)
      BY <1>3
    <3>2. run.submissions \in Seq(Stages) /\ run.stage \in Stages
      BY <1>1
    <3> HIDE DEF q, n, s
    <3> QED BY <3>1, <3>2, IndexOther
  <2>2. LastIndex(run, u) \in 0..n
    BY <1>1, LastIndexIs
  <2> QED BY <2>1, <2>2 DEF Latest
<1> HIDE DEF q, n
<1>6. ASSUME NEW k \in 1..(n + 1)
      PROVE  /\ gs[k].stage = q.submissions[k]
             /\ gs[k].reads = WorkInputs(Upto(q, k - 1), gs, q.submissions[k])
  <2>1. k - 1 \in Nat /\ k - 1 <= n /\ k - 1 <= n + 1 /\ \A i \in 1..(k - 1) : i \in 1..n
    BY <1>1
  <2>2. InForceAlike(Upto(run, k - 1), fs, Upto(q, k - 1), gs)
    BY <1>1, <1>2, <1>3, <2>1, PrefixInForce DEF n
  <2>3. \A x : WorkInputs(Upto(q, k - 1), gs, x) = WorkInputs(Upto(run, k - 1), fs, x)
    BY <2>2, SameInForce
  <2>4. CASE k \in 1..n
    <3>1. /\ fs[k].stage = s[k]
          /\ fs[k].reads = WorkInputs(Upto(run, k - 1), fs, s[k])
      BY <1>1, <2>4 DEF RunInv, Exact
    <3> QED BY <1>3, <2>3, <2>4, <3>1 DEF n
  <2>5. CASE k = n + 1
    <3>1. k - 1 = n
      BY <1>1, <2>5
    <3>2. \A x : WorkInputs(Upto(run, n), fs, x) = WorkInputs(run, fs, x)
      <4>1. InForceAlike(run, fs, Upto(run, n), fs)
        BY <1>1, UptoAll DEF n
      <4> QED BY <4>1, SameInForce
    <3>3. result.reads = WorkInputs(run, fs, run.stage)
      BY DEF MadeFor
    <3> QED BY <1>1, <1>3, <1>4, <2>3, <2>5, <3>1, <3>2, <3>3
  <2> QED BY <1>1, <2>4, <2>5
<1>7. Exact(q, gs)
  BY <1>3, <1>6 DEF Exact
<1>8. ASSUME q.status \in {"READY_TO_FINALISE", "APPROVED"}
      PROVE  ReviewedRun(q, gs)
  <2>1. run.stage = "hostile_review" /\ result.verdict = "clear"
    BY <1>1, <1>8, AcceptForms DEF q
  <2>2. Latest(q, gs, "hostile_review") = result
    <3>1. LastIndex(q, "hostile_review") = n + 1
      BY <1>1, <1>3, <2>1, IndexAppend DEF n
    <3> QED BY <1>1, <1>4, <3>1 DEF Latest
  <2>3. \A u : u # "hostile_review" => Latest(q, gs, u) = Latest(run, fs, u)
    BY <1>5, <2>1
  <2>4. LastIndex(q, "revision") = LastIndex(run, "revision")
    <3>1. q.submissions = Append(run.submissions, run.stage)
      BY <1>3
    <3>2. run.submissions \in Seq(Stages) /\ run.stage \in Stages
      BY <1>1
    <3> HIDE DEF s
    <3> QED BY <2>1, <3>1, <3>2, IndexOther
  <2>5. /\ FinalText(q, gs) = FinalText(run, fs)
        /\ Verified(q, gs) = Verified(run, fs)
        /\ Latest(q, gs, "prose_transformation") = Latest(run, fs, "prose_transformation")
    BY <2>3, <2>4 DEF FinalText, Verified, Id, TextId, TextStage
  <2>6. result.article = ReviewArticle(run, fs)
    BY <2>1 DEF MadeFor
  <2> QED BY <2>1, <2>2, <2>5, <2>6 DEF ReviewedRun, ReviewArticle, FinalText
<1> QED BY <1>2, <1>7, <1>8 DEF RunInv, q

\* What governance decides is the status only.
LEMMA OutcomeKeeps ==
  ASSUME NEW run, NEW fs, NEW outcome \in {"APPROVED", "REVIEW_REQUIRED"},
         RunInv(run, fs), run.status = "READY_TO_FINALISE"
  PROVE  RunInv([run EXCEPT !.status = outcome], fs)
<1> DEFINE q == [run EXCEPT !.status = outcome]
<1>1. run \in RunState
  BY DEF RunInv, Good
<1>2. /\ q.status = outcome /\ q.stage = run.stage /\ q.iteration = run.iteration
      /\ q.revisions = run.revisions /\ q.submissions = run.submissions
      /\ q \in RunState
  BY <1>1 DEF RunState, Statuses
<1> HIDE DEF q
<1>3. Good(q) /\ Roomy(q)
  BY <1>2 DEF RunInv, Good, Roomy
<1>4. /\ run.submissions \in Seq(Stages) /\ Len(run.submissions) \in Nat
      /\ DOMAIN run.submissions = 1..Len(run.submissions)
  BY <1>1, LenProperties DEF RunState
<1>5. ASSUME NEW k \in DOMAIN run.submissions
      PROVE  /\ fs[k].stage = q.submissions[k]
             /\ fs[k].reads = WorkInputs(Upto(q, k - 1), fs, q.submissions[k])
  <2>1. k - 1 \in Nat /\ k - 1 <= Len(run.submissions)
    BY <1>4
  <2>2. InForceAlike(Upto(run, k - 1), fs, Upto(q, k - 1), fs)
    BY <1>1, <1>2, <2>1, PrefixInForce
  <2>3. \A x : WorkInputs(Upto(q, k - 1), fs, x) = WorkInputs(Upto(run, k - 1), fs, x)
    BY <2>2, SameInForce
  <2> QED BY <1>2, <2>3 DEF RunInv, Exact
<1>6. Exact(q, fs)
  BY <1>2, <1>5 DEF Exact
<1>7. InForceAlike(run, fs, q, fs)
  BY <1>2, <1>4, LaterFiles
<1>8. ReviewedRun(run, fs) = ReviewedRun(q, fs)
  BY <1>7, SameInForce
<1> QED BY <1>3, <1>6, <1>8 DEF RunInv, q

-----------------------------------------------------------------------------
(* The steps of one driver. *)

\* Its step leaves the driver with a command, and no other driver is there.
LEMMA BecomeSerial ==
  ASSUME \A c, d \in Drivers : c = d,
         NEW d \in Drivers, NEW state, IInv, IInv', Become(d, state),
         files' = [n \in Positions |-> files'[n]],
         disk' # Torn => RunInv(disk', files'),
         DriverSerial(state, disk', files')
  PROVE  SerialInv'
<1>1. \A c \in Drivers : drivers'[c] = state
  BY DEF IInv, Become
<1> QED BY <1>1 DEF SerialInv

LEMMA InitSerial == Init => SerialInv
<1> SUFFICES ASSUME Init PROVE SerialInv
  OBVIOUS
<1>1. Good(NewRun)
  BY InitGood DEF IInv, Init, Torn, NewRun
<1>2. Roomy(NewRun)
  <2>1. /\ NewRun.stage = "research_planning" /\ NewRun.iteration = 0
        /\ NewRun.submissions = << >> /\ Len(<< >>) = 0
    BY DEF NewRun
  <2>2. PICK m : m = MaxReviewIterations
    OBVIOUS
  <2>3. 0 \in 0..(m - 1) /\ 0 + 10 + 4 * (m - 1 - 0) = 10 + 4 * (m - 1)
    BY <2>2, ReviewAssumption
  <2> QED BY <2>1, <2>2, <2>3, LeftNext DEF Roomy, MaxSubmissions
<1>3. RunInv(NewRun, files)
  <2>1. DOMAIN NewRun.submissions = {} /\ NewRun.status = "ACTIVE"
    BY DEF NewRun
  <2> QED BY <1>1, <1>2, <2>1 DEF RunInv, Exact
<1>4. \A d \in Drivers : DriverSerial(drivers[d], disk, files)
  BY DEF Init, DriverSerial, Idle
<1> QED BY <1>3, <1>4, InitGood DEF Init, SerialInv, NoFiles

LEMMA NextSerial ==
  ASSUME \A c, d \in Drivers : c = d
  PROVE  SerialInv /\ [Next]_vars => SerialInv'
<1> SUFFICES ASSUME SerialInv, [Next]_vars PROVE SerialInv'
  OBVIOUS
<1>0. /\ IInv /\ IInv' /\ files = [n \in Positions |-> files[n]]
      /\ disk # Torn => RunInv(disk, files)
      /\ \A d \in Drivers : DriverSerial(drivers[d], disk, files)
  BY NextGood DEF SerialInv
<1>1. CASE UNCHANGED vars
  BY <1>0, <1>1 DEF vars, SerialInv
<1>2. ASSUME NEW d \in Drivers, NextWork(d) PROVE SerialInv'
  <2>1. PICK made : made = [stage   |-> disk.stage,
                            id      |-> 0,
                            verdict |-> "accepted",
                            reads   |-> WorkInputs(disk, files, disk.stage),
                            article |-> IF disk.stage = "hostile_review"
                                        THEN ReviewArticle(disk, files) ELSE 0]
    OBVIOUS
  <2>2. Become(d, [pc |-> "working", result |-> made])
    BY <1>2, <2>1 DEF NextWork
  <2>3. disk # Torn /\ disk.status = "ACTIVE" /\ disk' = disk /\ files' = files
    BY <1>2 DEF NextWork, Torn
  <2>4. MadeFor(disk, files, made)
    BY <2>1, <2>3 DEF MadeFor
  <2>5. DriverSerial([pc |-> "working", result |-> made], disk, files)
    BY <2>1, <2>4 DEF DriverSerial, Fields
  <2> QED BY <1>0, <2>2, <2>3, <2>5, BecomeSerial
<1>3. ASSUME NEW d \in Drivers, Fulfil(d) PROVE SerialInv'
  <2>1. PICK c : c = drivers[d].result
    OBVIOUS
  <2>2. PICK v : Become(d, [pc |-> "submitting",
                            result |-> [c EXCEPT !.id = New, !.verdict = v]])
    BY <1>3, <2>1 DEF Fulfil
  <2>3. /\ Fields \subseteq DOMAIN c
        /\ disk # Torn => MadeFor(disk, files, c)
        /\ disk' = disk /\ files' = files
    BY <1>0, <1>3, <2>1 DEF Fulfil, In, DriverSerial
  <2>4. PICK made : made = [c EXCEPT !.id = New, !.verdict = v]
    OBVIOUS
  <2>5. /\ made.stage = c.stage /\ made.reads = c.reads /\ made.article = c.article
        /\ made.verdict = v /\ Fields \subseteq DOMAIN made
    BY <2>3, <2>4 DEF Fields
  <2>6. disk # Torn => MadeFor(disk, files, made)
    BY <2>2, <2>3, <2>5 DEF MadeFor
  <2>7. DriverSerial([pc |-> "submitting", result |-> made], disk, files)
    BY <2>5, <2>6 DEF DriverSerial
  <2> QED BY <1>0, <2>2, <2>3, <2>4, <2>7, BecomeSerial
<1>4. ASSUME NEW d \in Drivers, Submit(d) PROVE SerialInv'
  <2>1. PICK c : c = drivers[d].result
    OBVIOUS
  <2>2. disk # Torn /\ disk' = disk /\ files' = files
    BY <1>4 DEF Submit, Torn
  <2>3. /\ Fields \subseteq DOMAIN c /\ MadeFor(disk, files, c)
    BY <1>0, <1>4, <2>1, <2>2 DEF Submit, In, DriverSerial
  <2>4. PICK made : made = [c EXCEPT !.stage = disk.stage]
    OBVIOUS
  <2>5. /\ made.stage = c.stage /\ made.reads = c.reads /\ made.article = c.article
        /\ made.verdict = c.verdict /\ Fields \subseteq DOMAIN made
    BY <2>3, <2>4 DEF Fields, MadeFor
  <2>6. MadeFor(disk, files, made)
    BY <2>3, <2>5 DEF MadeFor
  <2>7. Become(d, [pc |-> "write", run |-> disk, result |-> made])
    BY <1>4, <2>1, <2>4 DEF Submit
  <2>8. DriverSerial([pc |-> "write", run |-> disk, result |-> made], disk, files)
    BY <2>2, <2>5, <2>6 DEF DriverSerial
  <2> QED BY <1>0, <2>2, <2>7, <2>8, BecomeSerial
<1>5. ASSUME NEW d \in Drivers, WriteSubmission(d) PROVE SerialInv'
  <2>1. PICK c : c = drivers[d].result
    OBVIOUS
  <2>2. /\ disk # Torn /\ drivers[d].run = disk /\ RunInv(disk, files)
        /\ Fields \subseteq DOMAIN c /\ MadeFor(disk, files, c)
    BY <1>0, <1>5, <2>1 DEF WriteSubmission, In, DriverSerial
  <2>3. PICK k : k = NextPosition(disk)
    OBVIOUS
  <2>4. k \in Positions
    BY <2>2, <2>3, AcceptRoomy DEF RunInv, MadeFor
  <2>5. files' = [files EXCEPT ![k] = c] /\ disk' = disk
    BY <1>5, <2>1, <2>2, <2>3 DEF WriteSubmission
  <2>6. /\ files' = [n \in Positions |-> files'[n]]
        /\ files'[k] = c
        /\ \A i : i # k => files'[i] = files[i]
    BY <1>0, <2>4, <2>5
  <2>7. /\ disk.submissions \in Seq(Stages)
        /\ \A i \in 1..Len(disk.submissions) : files'[i] = files[i]
    <3>1. disk.submissions \in Seq(Stages) /\ Len(disk.submissions) \in Nat
      BY <2>2, LenProperties DEF RunInv, Good, RunState
    <3> QED BY <2>3, <2>6, <3>1 DEF NextPosition
  <2>8. RunInv(disk, files')
    BY <2>2, <2>7, FilesKeep
  <2>9. RunInv(Accept(disk, c), files')
    BY <2>2, <2>3, <2>6, <2>7, AcceptKeeps
  <2>10. MadeFor(disk, files', c)
    <3>1. InForceAlike(disk, files, disk, files')
      BY <2>7, LaterFiles
    <3> QED BY <2>2, <3>1, SameInForce DEF MadeFor
  <2>11. PICK q : q = Accept(disk, c)
    OBVIOUS
  <2>12. Become(d, [pc |-> "truncate", result |-> c, run |-> q])
    BY <1>5, <2>1, <2>2, <2>11 DEF WriteSubmission
  <2>13. DriverSerial([pc |-> "truncate", result |-> c, run |-> q], disk, files')
    BY <2>2, <2>9, <2>10, <2>11 DEF DriverSerial
  <2> QED BY <1>0, <2>5, <2>6, <2>8, <2>12, <2>13, BecomeSerial
<1>6. ASSUME NEW d \in Drivers, Truncate(d) PROVE SerialInv'
  <2>1. PICK c : c = drivers[d]
    OBVIOUS
  <2>2. /\ c.pc = "truncate" /\ "pc" \in DOMAIN c /\ RunInv(c.run, files)
        /\ Fields \subseteq DOMAIN c.result
    BY <1>0, <1>6, <2>1 DEF Truncate, In, DriverSerial, IInv, DriverGood
  <2>3. PICK e : e = [c EXCEPT !.pc = "save"]
    OBVIOUS
  <2>4. e.pc = "save" /\ e.run = c.run /\ e.result = c.result
    BY <2>2, <2>3
  <2>5. disk' = Torn /\ files' = files /\ Become(d, e)
    BY <1>6, <2>1, <2>3 DEF Truncate, Become
  <2>6. DriverSerial(e, Torn, files)
    BY <2>2, <2>4 DEF DriverSerial
  <2> QED BY <1>0, <2>5, <2>6, BecomeSerial
<1>7. ASSUME NEW d \in Drivers, Save(d) PROVE SerialInv'
  <2>1. RunInv(drivers[d].run, files) /\ disk' = drivers[d].run /\ files' = files
    BY <1>0, <1>7 DEF Save, In, DriverSerial
  <2>2. Become(d, Idle)
    BY <1>7 DEF Save
  <2>3. DriverSerial(Idle, disk', files')
    BY DEF DriverSerial, Idle
  <2> QED BY <1>0, <2>1, <2>2, <2>3, BecomeSerial
<1>8. ASSUME NEW d \in Drivers, Finalise(d) PROVE SerialInv'
  <2>1. PICK outcome \in {"APPROVED", "REVIEW_REQUIRED"} :
          Become(d, [pc |-> "truncate", result |-> NoResult,
                     run |-> [disk EXCEPT !.status = outcome]])
    BY <1>8 DEF Finalise
  <2>2. disk # Torn /\ disk.status = "READY_TO_FINALISE" /\ disk' = disk /\ files' = files
    BY <1>8 DEF Finalise, Torn
  <2>3. PICK q : q = [disk EXCEPT !.status = outcome]
    OBVIOUS
  <2>4. RunInv(q, files)
    BY <1>0, <2>2, <2>3, OutcomeKeeps
  <2>5. Fields \subseteq DOMAIN NoResult /\ NoResult.id = 0
    BY DEF Fields, NoResult
  <2>6. DriverSerial([pc |-> "truncate", result |-> NoResult, run |-> q], disk, files)
    BY <2>2, <2>4, <2>5 DEF DriverSerial
  <2> QED BY <1>0, <2>1, <2>2, <2>3, <2>6, BecomeSerial
<1>9. ASSUME NEW d \in Drivers, Reject(d) PROVE SerialInv'
  <2>1. DriverSerial(Idle, disk', files')
    BY DEF DriverSerial, Idle
  <2> QED BY <1>0, <1>9, <2>1, BecomeSerial DEF Reject
<1>10. ASSUME NEW d \in Drivers, Crash(d) PROVE SerialInv'
  <2>1. disk' = disk /\ files' = files
    BY <1>10 DEF Crash
  <2>2. CASE Become(d, Idle)
    <3>1. DriverSerial(Idle, disk', files')
      BY DEF DriverSerial, Idle
    <3> QED BY <1>0, <2>1, <2>2, <3>1, BecomeSerial
  <2>3. ASSUME drivers[d].result.id # 0,
               Become(d, [pc |-> "submitting", result |-> drivers[d].result])
        PROVE  SerialInv'
    <3>1. PICK c : c = drivers[d].result
      OBVIOUS
    <3>2. drivers[d].pc \in {"submitting", "write", "truncate", "save"}
      BY <1>0, <1>10, <2>3, HostAssumption DEF Crash, DriverSerial
    <3>3. /\ Fields \subseteq DOMAIN c
          /\ disk # Torn => MadeFor(disk, files, c)
      BY <1>0, <2>3, <3>1, <3>2 DEF DriverSerial
    <3>4. DriverSerial([pc |-> "submitting", result |-> c], disk, files)
      BY <3>3 DEF DriverSerial
    <3> QED BY <1>0, <2>1, <2>3, <3>1, <3>4, BecomeSerial
  <2> QED BY <1>10, <2>2, <2>3 DEF Crash
<1> QED
  BY <1>1, <1>2, <1>3, <1>4, <1>5, <1>6, <1>7, <1>8, <1>9, <1>10 DEF Next, Command

\* With one driver, each accepted submission was made from exactly the inputs that
\* its work order governs, as they stand in the run, whatever died and was retried
\* on the way.  (Two drivers may submit at once: no lock keeps them apart.)
THEOREM InputsAsOrdered ==
  ASSUME \A c, d \in Drivers : c = d
  PROVE  Spec => []InputsExact
<1>1. Spec => []SerialInv
  BY InitSerial, NextSerial, PTL DEF Spec
<1>2. SerialInv => InputsExact
  BY DEF SerialInv, RunInv, Exact, InputsExact, Accepted, Upto
<1> QED BY <1>1, <1>2, PTL

\* With one driver, a run is ready for release only when its last review was clear and
\* was given the very text that is released or, for text that came without the key
\* "candidate", no text: never one replaced since, whatever died and was retried.
THEOREM ReviewedTextReleased ==
  ASSUME \A c, d \in Drivers : c = d
  PROVE  Spec => []ReviewedOrUnread
<1>1. Spec => []SerialInv
  BY InitSerial, NextSerial, PTL DEF Spec
<1>2. SerialInv => ReviewedOrUnread
  <2>1. Torn.status \notin {"READY_TO_FINALISE", "APPROVED"}
    BY DEF Torn
  <2> QED BY <2>1 DEF SerialInv, RunInv, ReviewedOrUnread, Ready, ReviewedRun,
                      OrderedWithoutText
<1> QED BY <1>1, <1>2, PTL

\* With one driver, what has been accepted stays as it was accepted.  (A second
\* driver may overwrite the file of a submission that was accepted meanwhile.)
THEOREM AcceptedKept ==
  ASSUME \A c, d \in Drivers : c = d
  PROVE  Spec => AcceptedStays
<1> DEFINE Stays == \A n \in Accepted : files'[n] = files[n]
<1>1. Spec => []SerialInv
  BY InitSerial, NextSerial, PTL DEF Spec
<1>2. SerialInv /\ [Next]_vars => [Stays]_vars
  <2> SUFFICES ASSUME SerialInv, [Next]_vars, NEW n \in Accepted
               PROVE  files'[n] = files[n]
    OBVIOUS
  <2>1. CASE UNCHANGED files
    BY <2>1
  <2>2. ASSUME NEW d \in Drivers, WriteSubmission(d)
        PROVE  files'[n] = files[n]
    <3>1. disk # Torn /\ drivers[d].run = disk /\ RunInv(disk, files)
      BY <2>2 DEF SerialInv, WriteSubmission, In, DriverSerial
    <3>2. n \in 1..Len(disk.submissions) /\ Len(disk.submissions) \in Nat
      BY <3>1, LenProperties DEF Accepted, RunInv, Good, RunState
    <3>3. n # NextPosition(disk)
      BY <3>2 DEF NextPosition
    <3>4. files' = [files EXCEPT ![NextPosition(disk)] = drivers[d].result]
      BY <2>2, <3>1 DEF WriteSubmission
    <3> QED BY <3>3, <3>4 DEF SerialInv
  <2> QED
    BY <2>1, <2>2 DEF Next, Command, vars, NextWork, Fulfil, Submit, Reject, Truncate,
       Save, Finalise, Crash
<1> QED BY <1>1, <1>2, PTL DEF Spec, AcceptedStays
=============================================================================
