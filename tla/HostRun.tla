-------------------------------- MODULE HostRun --------------------------------
(***************************************************************************)
(* A run that subscription hosts drive through the command line (cli.py    *)
(* over work_orders.py): next-work, submit and finalise are processes of   *)
(* their own that load run-state.json, act on their copy and write it back.*)
(* A driver may die at any point and may then submit the result it saved   *)
(* once more.  Files are written in place, so a death may tear them.       *)
(***************************************************************************)
EXTENDS WorkOrderRun

CONSTANTS
  Drivers,     \* host driver loops working on the run directory
  CrashPoints, \* the points of a command at which a driver may die
  MaxCrashes   \* bound: deaths of drivers

ASSUME HostAssumption ==
  /\ CrashPoints \subseteq {"working", "submitting", "write", "truncate", "save"}
  /\ MaxCrashes \in Nat

VARIABLES
  disk,     \* run-state.json, or Torn
  files,    \* submissions/
  drivers,  \* the command each driver is in
  crashes   \* deaths so far

vars == <<disk, files, drivers, crashes>>

Torn == [status |-> "TORN"]

Idle == [pc |-> "idle"]

\* An order or a result waits outside any command; a command that writes holds
\* the state it loaded, with its changes.
Waiting == [pc : {"working", "submitting"}, result : Result]

Writing == [pc : {"write", "truncate", "save"}, result : Result, run : Run]

In(d, pc) == drivers[d].pc = pc

Become(d, state) == drivers' = [drivers EXCEPT ![d] = state]

-----------------------------------------------------------------------------
AtHand == {drivers[d].result : d \in {d \in Drivers : ~In(d, "idle")}}

New == FreshId({files[n] : n \in Positions} \cup AtHand)

\* next-work: the order of the stage in force, with its inputs.
NextWork(d) ==
  /\ In(d, "idle")
  /\ disk.status = "ACTIVE"
  /\ Become(d, [pc |-> "working",
                result |-> [stage   |-> disk.stage,
                            id      |-> 0,
                            verdict |-> "accepted",
                            reads   |-> WorkInputs(disk, files, disk.stage),
                            article |-> IF disk.stage = "hostile_review"
                                        THEN ReviewArticle(disk, files) ELSE 0]])
  /\ UNCHANGED <<disk, files, crashes>>

\* The host does the work.  It returns transformed text under either key.
Fulfil(d) ==
  /\ In(d, "working")
  /\ \E v \in Verdicts(drivers[d].result.stage) :
       Become(d, [pc |-> "submitting",
                  result |-> [drivers[d].result EXCEPT !.id = New, !.verdict = v]])
  /\ UNCHANGED <<disk, files, crashes>>

\* A result may name the contract it answers and need not: a draft and a revision
\* have the same form, results of other stages differ in their keys.
Answers(result, stage) ==
  \/ result.stage = stage
  \/ {result.stage, stage} = {"draft_generation", "revision"}

\* Mutant: a submission whose file exists already is refused.
SubmitOnce(d) ==
  /\ In(d, "submitting")
  /\ disk.status = "ACTIVE"
  /\ Answers(drivers[d].result, disk.stage)
  /\ files[NextPosition(disk)] = NoResult
  /\ Become(d, [pc |-> "write", run |-> disk,
                result |-> [drivers[d].result EXCEPT !.stage = disk.stage]])
  /\ UNCHANGED <<disk, files, crashes>>

\* submit loads the state and validates the result against the stage in force,
\* whatever work order it was made for.
Submit(d) ==
  /\ In(d, "submitting")
  /\ disk.status = "ACTIVE"
  /\ Answers(drivers[d].result, disk.stage)
  /\ Become(d, [pc |-> "write", run |-> disk,
                result |-> [drivers[d].result EXCEPT !.stage = disk.stage]])
  /\ UNCHANGED <<disk, files, crashes>>

\* Otherwise, or when a check of its content fails, the command ends with an
\* error; so does a command that finds the state torn.
Reject(d) ==
  /\ In(d, "submitting")
  /\ Become(d, Idle)
  /\ UNCHANGED <<disk, files, crashes>>

WriteSubmission(d) ==
  LET c == drivers[d]
  IN  /\ In(d, "write")
      /\ files' = [files EXCEPT ![NextPosition(c.run)] = c.result]
      /\ Become(d, [pc |-> "truncate", result |-> c.result,
                    run |-> Accept(c.run, c.result)])
      /\ UNCHANGED <<disk, crashes>>

\* _write_json truncates the file before it writes it.
Truncate(d) ==
  /\ In(d, "truncate")
  /\ disk' = Torn
  /\ drivers' = [drivers EXCEPT ![d].pc = "save"]
  /\ UNCHANGED <<files, crashes>>

Save(d) ==
  /\ In(d, "save")
  /\ disk' = drivers[d].run
  /\ Become(d, Idle)
  /\ UNCHANGED <<files, crashes>>

\* finalise: governance decides on the accepted work; its outcome becomes the
\* run's status.
Finalise(d) ==
  /\ In(d, "idle")
  /\ disk.status = "READY_TO_FINALISE"
  /\ \E outcome \in {"APPROVED", "REVIEW_REQUIRED"} :
       Become(d, [pc |-> "truncate", result |-> NoResult,
                  run |-> [disk EXCEPT !.status = outcome]])
  /\ UNCHANGED <<disk, files, crashes>>

\* A driver that dies with a result at hand may submit it again.
Crash(d) ==
  /\ drivers[d].pc \in CrashPoints
  /\ crashes < MaxCrashes
  /\ crashes' = crashes + 1
  /\ \/ Become(d, Idle)
     \/ /\ drivers[d].result.id # 0
        /\ Become(d, [pc |-> "submitting", result |-> drivers[d].result])
  /\ UNCHANGED <<disk, files>>

Command(d) ==
  \/ NextWork(d) \/ Fulfil(d) \/ Submit(d) \/ WriteSubmission(d)
  \/ Truncate(d) \/ Save(d) \/ Finalise(d)

Init ==
  /\ disk = NewRun
  /\ files = NoFiles
  /\ drivers = [d \in Drivers |-> Idle]
  /\ crashes = 0

Next == \E d \in Drivers : Command(d) \/ Reject(d) \/ Crash(d)

Spec == Init /\ [][Next]_vars

\* Drivers go on until the run ends, and a host returns an acceptable result
\* sooner or later, however often its results are rejected.
Fairness ==
  \A d \in Drivers : WF_vars(Command(d)) /\ SF_vars(Submit(d))

FairSpec == Spec /\ Fairness

-----------------------------------------------------------------------------
(* Properties *)

TypeOK ==
  /\ disk \in Run \cup {Torn}
  /\ disk # Torn => Len(disk.submissions) <= MaxSubmissions
  /\ files \in [Positions -> Result]
  /\ drivers \in [Drivers -> {Idle} \cup Waiting \cup Writing]
  /\ crashes \in 0..MaxCrashes

Accepted == IF disk = Torn THEN {} ELSE DOMAIN disk.submissions

\* Ready for release: the last review was clear.
Ready == disk.status \in {"READY_TO_FINALISE", "APPROVED"}

\* Text that came under "final_text" is verified and released, but the order of its
\* review looks for "candidate" and carries no text.
OrderedWithoutText ==
  /\ Verified(disk, files)
  /\ Latest(disk, files, "prose_transformation").verdict # "candidate"

\* The text a run releases is never one that its last review was given and that was
\* replaced since, nor the text before a transformation: the last review was clear
\* and was given the released text, or, under "final_text", no text at all.
ReviewedOrUnread ==
  Ready =>
    LET review == Latest(disk, files, "hostile_review")
    IN  /\ review.verdict = "clear"
        /\ review.article = IF OrderedWithoutText THEN 0 ELSE FinalText(disk, files)

\* Each accepted submission was made from exactly the inputs that its work order
\* governs, as they stand in the run, whatever died and was retried on the way.
InputsExact ==
  \A n \in Accepted :
    LET before == [disk EXCEPT !.submissions = SubSeq(@, 1, n - 1)]
    IN  /\ files[n].stage = disk.submissions[n]
        /\ files[n].reads = WorkInputs(before, files, disk.submissions[n])

\* What has been accepted stays as it was accepted.
AcceptedStays ==
  [][\A n \in Accepted : files'[n] = files[n]]_vars

\* Lost updates and retries leave a state that one driver could have reached: the
\* stages follow the protocol and the counters count them.
Follows(s, t) ==
  \/ s = "hostile_review" /\ t = "revision"
  \/ s = "revision" /\ t = "prose_transformation"
  \/ \E i \in 2..Len(BaseStageSequence) :
       s = BaseStageSequence[i - 1] /\ t = BaseStageSequence[i]

Count(stage) == Cardinality({n \in Accepted : disk.submissions[n] = stage})

StageOrder ==
  disk # Torn =>
    /\ \A n \in Accepted :
         IF n = 1 THEN disk.submissions[1] = "research_planning"
         ELSE Follows(disk.submissions[n - 1], disk.submissions[n])
    /\ disk.iteration = Count("hostile_review")
    /\ disk.revisions = Count("revision")
    /\ disk.status = "ACTIVE" /\ Accepted # {} =>
         Follows(disk.submissions[Len(disk.submissions)], disk.stage)

\* A run comes to an end: its review loop is bounded, and a death of the driver
\* outside the write of the state costs at most the work in progress.
RunEnds == <>(disk.status \in {"APPROVED", "REVIEW_REQUIRED"})
=============================================================================
