------------------------------ MODULE Finalization ------------------------------
(***************************************************************************)
(* finalize_work_order_run (finalizer.py) as the command line runs it: the *)
(* artefacts of a run are written into the output directory one by one,    *)
(* the five governed stores are appended to, run-control and the manifest  *)
(* are written last and the outcome becomes the run's status.  A call may  *)
(* die anywhere; the run is then still READY_TO_FINALISE and the command   *)
(* is given again for the same directory, unless the death tore the run's  *)
(* own state.  Calls on one directory follow each other.                   *)
(*                                                                         *)
(* EvaluationSubject.load (evaluation.py) reads that directory file by     *)
(* file, in a process of its own, at any time.                             *)
(***************************************************************************)
EXTENDS Naturals, Sequences

CONSTANTS
  CrashPoints,  \* the points of a call at which it may die
  MaxAttempts   \* bound: calls of finalise for one run

ASSUME FinalizationAssumption == MaxAttempts \in Nat /\ "idle" \notin CrashPoints

Statuses == {"APPROVED", "REVIEW_REQUIRED"}

\* What a file says: which call wrote it and, in some, the release status.
Content == [attempt : Nat, status : Statuses \cup {"none"}]

Absent == [attempt |-> 0, status |-> "none"]

\* A file whose writer died.
Torn == [attempt |-> 0, status |-> "torn"]

\* A run-state.json that nothing can load any more.
TornRun == [status |-> "torn"]

INSTANCE GovernedStore WITH Payload <- Content

VARIABLES
  run,       \* run-state.json: its status and epg_v2_export; or TornRun
  verdict,   \* what governance finds in this run, whenever it looks
  output,    \* the artefacts of the output directory
  stores,    \* governed-stores/
  control,   \* run-control.json
  manifest,  \* run-manifest.json
  call,      \* the call in progress
  attempts,  \* calls so far
  evaluation \* the evaluation in progress, or the subject it has loaded

vars == <<run, verdict, output, stores, control, manifest, call, attempts, evaluation>>

-----------------------------------------------------------------------------
(* The files. *)

\* source-register and article.md stand for the artefacts around them that are
\* written once and bound to no store.
FirstPass == <<"source-register", "evidence-matrix", "argument-graph", "article",
               "provenance", "provenance-v2">>

SecondPass == <<"decision-ledger", "rpm", "scholarly-state">>

\* What is written anew when a late check changes the status.
Refreshed == <<"provenance", "decision-ledger", "scholarly-state", "provenance-v2">>

LastPass == <<"confidence-report">>

Named(files) == {files[i] : i \in DOMAIN files}

Files == Named(FirstPass) \cup Named(SecondPass) \cup Named(LastPass)
           \cup {"integrity-chain"}

BearStatus == Named(Refreshed) \cup {"confidence-report", "integrity-chain"}

\* rpm.json has neither the work id nor the status.
Stamp(file, attempt, status) ==
  IF file = "rpm" THEN [attempt |-> 0, status |-> "none"]
  ELSE [attempt |-> attempt,
        status |-> IF file \in BearStatus THEN status ELSE "none"]

\* RUN_STORE_ARTIFACTS
RunStores == <<"epg", "sdl", "rpm", "evidence_matrix", "argument_graph">>

StoreNames == Named(RunStores)

Artefact(store) ==
  CASE store = "epg"             -> "provenance"
    [] store = "sdl"             -> "decision-ledger"
    [] store = "rpm"             -> "rpm"
    [] store = "evidence_matrix" -> "evidence-matrix"
    [] store = "argument_graph"  -> "argument-graph"

NoCall == [pc |-> "idle"]

At(pc) == call.pc = pc

Go(pc) == call' = [call EXCEPT !.pc = pc]

Fail == call' = NoCall

-----------------------------------------------------------------------------
(* Governance and the artefacts. *)

\* verdict: the blockers found before the status is first decided, whether the
\* EPG v2 is valid and whether the files satisfy their schemas.
Verdicts == [clear : BOOLEAN, epg : BOOLEAN, schemas : BOOLEAN]

Approves(found) == IF found THEN "APPROVED" ELSE "REVIEW_REQUIRED"

Start ==
  /\ At("idle")
  /\ run.status = "READY_TO_FINALISE"
  /\ attempts < MaxAttempts
  /\ attempts' = attempts + 1
  /\ call' = [pc |-> "first", todo |-> FirstPass, attempt |-> attempts + 1,
              status |-> Approves(verdict.clear), epg |-> run.epg, index |-> 1,
              lines |-> << >>, heads |-> << >>]
  /\ UNCHANGED <<run, verdict, output, stores, control, manifest, evaluation>>

\* Each pass writes its files in order and goes on to its own next step.
Writing == {"first", "second", "refresh", "report"}

Write ==
  /\ call.pc \in Writing
  /\ call.todo # << >>
  /\ LET file == call.todo[1]
     IN  output' = [output EXCEPT ![file] = Stamp(file, call.attempt, call.status)]
  /\ call' = [call EXCEPT !.todo = Tail(@)]
  /\ UNCHANGED <<run, verdict, stores, control, manifest, attempts, evaluation>>

Written(pc) == At(pc) /\ call.todo = << >>

\* bind_epg_v2 saves the state this call has loaded, with the document bound.
\* An invalid document is not bound, and is a blocker.
Bind(from, to, todo) ==
  /\ Written(from)
  /\ LET document == [attempt |-> call.attempt, status |-> call.status]
         epg == IF verdict.epg THEN document ELSE call.epg
     IN  /\ run' = IF verdict.epg
                   THEN [status |-> "READY_TO_FINALISE", epg |-> epg] ELSE run
         /\ call' = [call EXCEPT !.pc = to, !.todo = todo, !.epg = epg]
  /\ UNCHANGED <<verdict, output, stores, control, manifest, attempts, evaluation>>

BindProvenance == Bind("first", "second", SecondPass)

\* Mutant: the files keep the status that was decided first.
DecideWithoutRefresh ==
  /\ Written("second")
  /\ LET status == Approves(verdict.clear /\ verdict.epg /\ verdict.schemas)
     IN  call' = [call EXCEPT !.pc = "report", !.todo = LastPass, !.status = status]
  /\ UNCHANGED <<run, verdict, output, stores, control, manifest, attempts, evaluation>>

\* The schemas are checked and the status decided again; when it differs, what
\* says it is written again.
Decide ==
  /\ Written("second")
  /\ LET status == Approves(verdict.clear /\ verdict.epg /\ verdict.schemas)
     IN  call' = IF status = call.status
                 THEN [call EXCEPT !.pc = "report", !.todo = LastPass]
                 ELSE [call EXCEPT !.pc = "refresh", !.todo = Refreshed,
                                   !.status = status]
  /\ UNCHANGED <<run, verdict, output, stores, control, manifest, attempts, evaluation>>

BindAgain == Bind("refresh", "report", LastPass)

-----------------------------------------------------------------------------
(* persist_run_stores *)

Store == RunStores[call.index]

BeginStores ==
  /\ Written("report")
  /\ Go("read")
  /\ UNCHANGED <<run, verdict, output, stores, control, manifest, attempts, evaluation>>

\* Mutant: an empty file counts as a new store.
ExtensibleOrEmpty(file) ==
  file \in {Missing, << >>} \/ (Verifies(file) /\ OneActive(file))

\* A store that exists must verify and have one active record.
Extensible(file) == file = Missing \/ (Verifies(file) /\ OneActive(file))

FreshId(file) ==
  CHOOSE i \in 1..(Len(Found(file)) + 1) :
    \A j \in DOMAIN Found(file) : Found(file)[j].id # i

ReadStore ==
  /\ At("read")
  /\ Extensible(stores[Store])
  /\ call' = [call EXCEPT !.pc = "append", !.lines = Found(stores[Store])]
  /\ UNCHANGED <<run, verdict, output, stores, control, manifest, attempts, evaluation>>

StoreError ==
  /\ At("read")
  /\ ~Extensible(stores[Store])
  /\ Fail
  /\ UNCHANGED <<run, verdict, output, stores, control, manifest, attempts, evaluation>>

\* Mutant: a later snapshot is appended beside the earlier one.
AppendedBeside(lines, artefact) ==
  NextRecord(lines, FreshId(lines), {}, artefact)

\* The record that goes into the file: an append in a new store, a supersession
\* of the active record otherwise.
Appended(lines, artefact) ==
  NextRecord(lines, FreshId(lines), Active(lines), artefact)

\* The store is verified again once the record is in it.
AppendRecord ==
  /\ At("append")
  /\ LET record == Appended(call.lines, output[Artefact(Store)])
         last == call.index = Len(RunStores)
     IN  /\ stores' = [stores EXCEPT ![Store] = AddLine(Found(@), record)]
         /\ call' = IF ~Verifies(stores'[Store]) THEN NoCall
                    ELSE [call EXCEPT !.pc = IF last THEN "verify" ELSE "read",
                                      !.index = IF last THEN @ ELSE @ + 1,
                                      !.heads = Append(@, record.id)]
  /\ UNCHANGED <<run, verdict, output, control, manifest, attempts, evaluation>>

StoresBound == \A s \in StoreNames : Bound(stores[s], output[Artefact(s)])

\* verify_run_stores ends the persistence.
VerifyStores ==
  /\ At("verify")
  /\ IF StoresBound THEN Go("chain") ELSE Fail
  /\ UNCHANGED <<run, verdict, output, stores, control, manifest, attempts, evaluation>>

-----------------------------------------------------------------------------
(* The end of the call. *)

WriteChain ==
  /\ At("chain")
  /\ output' = [output EXCEPT !["integrity-chain"] =
                  Stamp("integrity-chain", call.attempt, call.status)]
  /\ Go("control")
  /\ UNCHANGED <<run, verdict, stores, control, manifest, attempts, evaluation>>

WriteControl ==
  /\ At("control")
  /\ control' = [attempt |-> call.attempt, status |-> call.status,
                 heads |-> call.heads]
  /\ Go("manifest")
  /\ UNCHANGED <<run, verdict, output, stores, manifest, attempts, evaluation>>

\* The manifest has the digest of every file but itself.
Directory == [output |-> output, stores |-> stores, control |-> control]

WriteManifest ==
  /\ At("manifest")
  /\ manifest' = [attempt |-> call.attempt, status |-> call.status,
                  files |-> Directory]
  /\ Go("save")
  /\ UNCHANGED <<run, verdict, output, stores, control, attempts, evaluation>>

\* The outcome, lowered when the manifest does not verify, becomes the run's
\* status; the command then ends.
Save ==
  /\ At("save")
  /\ run' = [status |-> IF manifest.files = Directory THEN call.status
                        ELSE "REVIEW_REQUIRED",
             epg |-> call.epg]
  /\ Fail
  /\ UNCHANGED <<verdict, output, stores, control, manifest, attempts, evaluation>>

-----------------------------------------------------------------------------
\* The call is about to write the run's state: to bind a valid document, or to end.
SavingState ==
  \/ verdict.epg /\ (Written("first") \/ Written("refresh"))
  \/ At("save")

\* A death leaves the file being written torn: an artefact, the run's state,
\* run-control, the manifest, or the last line of a store (none of it, part of it,
\* all but its end or all of it).
Crash ==
  /\ call.pc \in CrashPoints
  /\ call.attempt < MaxAttempts
  /\ Fail
  /\ run' \in {run} \cup {TornRun : x \in {x \in {1} : SavingState}}
  /\ output' \in
       {output} \cup
       {[output EXCEPT ![f] = Torn] : f \in {f \in Files :
          \/ call.pc \in Writing /\ call.todo # << >> /\ call.todo[1] = f
          \/ At("chain") /\ f = "integrity-chain"}}
  /\ stores' \in
       {stores} \cup
       {[stores EXCEPT ![s] = lines] :
          s \in {s \in StoreNames : At("append") /\ s = Store},
          lines \in LET record == Appended(call.lines, output[Artefact(Store)])
                    IN  {call.lines} \cup {AddLine(call.lines, line) :
                           line \in {TornLine, Unended(record), record}}}
  /\ control' \in {control} \cup {Torn : x \in {x \in {1} : At("control")}}
  /\ manifest' \in {manifest} \cup {Torn : x \in {x \in {1} : At("manifest")}}
  /\ UNCHANGED <<verdict, attempts, evaluation>>

-----------------------------------------------------------------------------
(* EvaluationSubject.load.  A file is read in one step; two files are not. *)

\* The directory is the one that this manifest describes: every file and every
\* store's active record are of one call and say one status.
OneRelease(release) ==
  /\ \A f \in Files : output[f] = Stamp(f, release.attempt, release.status)
  /\ StoresBound
  /\ \A i \in DOMAIN RunStores :
       control.heads[i] = ActiveRecord(stores[RunStores[i]]).id
  /\ control.attempt = release.attempt /\ control.status = release.status
  /\ manifest = release
  /\ release.files = Directory

NoEvaluation == [pc |-> "idle"]

\* The entries of the manifest, in its order.
Digested ==
  <<<<"output", "article">>, <<"output", "argument-graph">>,
    <<"output", "confidence-report">>, <<"output", "decision-ledger">>,
    <<"output", "evidence-matrix">>, <<"stores", "argument_graph">>,
    <<"stores", "epg">>, <<"stores", "evidence_matrix">>, <<"stores", "rpm">>,
    <<"stores", "sdl">>, <<"output", "integrity-chain">>,
    <<"output", "provenance-v2">>, <<"output", "provenance">>, <<"output", "rpm">>,
    <<"control", "run-control">>, <<"output", "scholarly-state">>,
    <<"output", "source-register">>>>

Entry(directory, name) ==
  IF name[1] = "control" THEN directory.control ELSE directory[name[1]][name[2]]

\* What is read again, or digested, once the checks have passed; the digest of the
\* manifest, the identity of what was evaluated, comes last.
ReadLate == <<"integrity-chain", "source-register", "evidence-matrix",
              "argument-graph", "provenance", "article", "provenance-v2">>

EvaluationAt(pc) == evaluation.pc = pc

Evaluating(pc) == EvaluationAt(pc) /\ evaluation.todo # << >>

Evaluated(pc) == EvaluationAt(pc) /\ evaluation.todo = << >>

NotFinalising == UNCHANGED <<run, verdict, output, stores, control, manifest, call, attempts>>

LoadManifest ==
  /\ evaluation.pc \in {"idle", "loaded"}
  /\ manifest \notin {Absent, Torn}
  /\ evaluation' = [pc |-> "control", manifest |-> manifest]
  /\ NotFinalising

\* "whole" is not in the code: it tells what the directory was at this moment.
LoadControl ==
  /\ EvaluationAt("control")
  /\ control \notin {Absent, Torn}
  /\ evaluation' = [pc |-> "digests", todo |-> Digested, control |-> control,
                    manifest |-> evaluation.manifest, record |-> Absent, late |-> << >>,
                    identity |-> Absent, whole |-> OneRelease(evaluation.manifest)]
  /\ NotFinalising

\* Mutant: an artefact of the manifest need only be there.
MatchesByName(name) ==
  name[1] # "output" => Entry(Directory, name) = Entry(evaluation.manifest.files, name)

\* verify_manifest, for one file.
Matches(name) == Entry(Directory, name) = Entry(evaluation.manifest.files, name)

CheckDigest ==
  /\ Evaluating("digests")
  /\ Matches(evaluation.todo[1])
  /\ evaluation' = [evaluation EXCEPT !.todo = Tail(@)]
  /\ NotFinalising

CheckSchemas ==
  /\ Evaluated("digests")
  /\ verdict.schemas
  /\ evaluation' = [evaluation EXCEPT !.pc = "store", !.todo = RunStores]
  /\ NotFinalising

\* verify_run_stores reads a store and then the artefact it is bound to.
CheckStore ==
  /\ Evaluating("store")
  /\ LET store == evaluation.todo[1]
     IN  /\ Verifies(stores[store]) /\ OneActive(stores[store])
         /\ \A i \in DOMAIN RunStores : RunStores[i] = store =>
              evaluation.control.heads[i] = ActiveRecord(stores[store]).id
         /\ evaluation' = [evaluation EXCEPT !.pc = "artefact",
                             !.record = ActiveRecord(stores[store])]
  /\ NotFinalising

CheckArtefact ==
  /\ EvaluationAt("artefact")
  /\ evaluation.record.payload = output[Artefact(evaluation.todo[1])]
  /\ evaluation' = [evaluation EXCEPT !.pc = "store", !.todo = Tail(@)]
  /\ NotFinalising

\* The statuses that were read at the beginning.
CheckStatus ==
  /\ Evaluated("store")
  /\ evaluation.control.status = "APPROVED" /\ evaluation.manifest.status = "APPROVED"
  /\ evaluation' = [evaluation EXCEPT !.pc = "late", !.todo = ReadLate]
  /\ NotFinalising

\* The first entries of an integrity chain are an integrity chain, also when its
\* writer has not written the others.
Readings(file) ==
  {output[file]} \cup {Torn : x \in {x \in {1} : file = "integrity-chain" /\ At("chain")}}

LoadArtefact ==
  /\ Evaluating("late")
  /\ LET file == evaluation.todo[1]
     IN  \E content \in Readings(file) :
           /\ content # Torn \/ file = "integrity-chain"
           /\ evaluation' = [evaluation EXCEPT !.todo = Tail(@),
                 !.late = Append(@, [file |-> file, content |-> content])]
  /\ NotFinalising

\* A check has failed, a file could not be read, or the process has died.
EndEvaluation ==
  /\ evaluation.pc \notin {"idle", "loaded"}
  /\ evaluation' = NoEvaluation
  /\ NotFinalising

Loaded ==
  /\ Evaluated("late")
  /\ evaluation' = [evaluation EXCEPT !.pc = "loaded", !.identity = manifest]
  /\ NotFinalising

Evaluate ==
  \/ LoadManifest \/ LoadControl \/ CheckDigest \/ CheckSchemas \/ CheckStore
  \/ CheckArtefact \/ CheckStatus \/ LoadArtefact \/ Loaded \/ EndEvaluation

-----------------------------------------------------------------------------
Step ==
  \/ Start \/ Write \/ BindProvenance \/ Decide \/ BindAgain
  \/ BeginStores \/ ReadStore \/ StoreError \/ AppendRecord \/ VerifyStores
  \/ WriteChain \/ WriteControl \/ WriteManifest \/ Save

Init ==
  /\ run = [status |-> "READY_TO_FINALISE", epg |-> Absent]
  /\ verdict \in Verdicts
  /\ output = [f \in Files |-> Absent]
  /\ stores = [s \in StoreNames |-> Missing]
  /\ control = Absent
  /\ manifest = Absent
  /\ call = NoCall
  /\ attempts = 0
  /\ evaluation = NoEvaluation

Next == Step \/ Crash \/ Evaluate

Spec == Init /\ [][Next]_vars

\* The command goes on, and is given again after a death.
FairSpec == Spec /\ WF_vars(Step)

-----------------------------------------------------------------------------
(* Properties *)

Of(content, attempt, status) == content = [attempt |-> attempt, status |-> status]

Closed == run.status \in Statuses

\* When the run's status has been set, the output directory is one release with
\* that very status, and so is the provenance bound to the run, whatever died before
\* and was done again.
ClosedIsOneRelease ==
  Closed =>
    /\ OneRelease(manifest) /\ manifest.status = run.status
    /\ verdict.epg => Of(run.epg, manifest.attempt, run.status)

\* A call of finalise has begun to overwrite what the evaluation has checked.
Overtaken == output["source-register"].attempt # evaluation.manifest.attempt

\* An evaluation that has passed its checks began on one complete release that
\* governance approved, although it compared the files one by one while finalise may
\* have been writing them.  What it reads after the checks is of that release too,
\* as long as no later call has begun to write.
EvaluatedWasApproved ==
  evaluation.pc \in {"late", "loaded"} =>
    /\ evaluation.whole
    /\ verdict = [clear |-> TRUE, epg |-> TRUE, schemas |-> TRUE]
    /\ \A i \in DOMAIN evaluation.late :
         \/ Overtaken
         \/ evaluation.late[i].content =
              Stamp(evaluation.late[i].file, evaluation.manifest.attempt, "APPROVED")
    /\ evaluation.pc = "loaded" => Overtaken \/ evaluation.identity = evaluation.manifest

Untrusted == {s \in StoreNames : stores[s] # Missing /\ ~Verifies(stores[s])}

\* No store that cannot be verified is ever written to: what a death tore stays
\* for a human to see and no run closes over it.
TornStoreStays ==
  [][\A s \in Untrusted :
       stores'[s] = stores[s] /\ (run'.status = run.status \/ ~Closed')]_vars

\* However often a call dies, the next one starts from what it left and the run is
\* closed in the end, unless a death tore a store or the run's own state.
Finalised == <>(Closed \/ Untrusted # {} \/ run = TornRun)
=============================================================================
