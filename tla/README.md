# SWOS in TLA+

Specifications of SWOS (`swos_runtime/`, `swos_prose/`, `tools/`), the TLC runs that
check them on small instances, and TLAPS proofs that hold for every instance. Line
numbers refer to this repository's source; `PROJECT.json` maps each definition to
the lines it stands for, lists every component with its status, and every hazard
with the properties that would catch it going wrong.

## 1. What SWOS is made of

SWOS turns a request into a reviewed article. Models do the intellectual work, one
bounded capability call at a time; SWOS decides what comes next, keeps the evidence
and releases or refuses the result.

| Component | State | Operations | Hard behaviour | What makes it correct |
|---|---|---|---|---|
| Programme store (`programme_store.py`) | SQLite tables: events (hash chain), projections, bindings, programmes, assessments | append, register, transition, close, rebuild | a write lock shared by processes, several transactions per call, rebuild during use | append-only chain; rows equal its replay |
| Memory service (`research_memory.py`) | assessments and approvals, in and outside the store | assess, commit | assessment, approval and commit are apart in time and process | only approved work enters, once, at the state it was judged at |
| RPM exchange (`rpm_exchange.py`, `tools/rpm.py`) | inspections, receipts, the receiving store | export, inspect, commit import | an import is item by item; deaths, repetition, two operators | what entered is a beginning of what was approved; a receipt means all of it |
| Stage machine (`work_orders.py`) | run-state.json, submissions/, next-work.json | work order, submit, replace | state and submission files written one after the other, in place | stages in order, inputs exact, no text is released that was replaced after its review |
| Command line (`cli.py`) | a loaded copy of the state | next-work, submit, finalise | each command a process; death between writes | a retry neither skips nor repeats work |
| Orchestrator (`orchestrator.py`, `broker.py`) | one run in a temporary directory | run, expand research, rebuild, redraft | accepted results are replaced under results made from them | released work is coherent and reviewed |
| Finalizer (`finalizer.py`) | the output directory, manifest, run-control | finalise | about twenty writes in order, deaths, a second call over the first one's files; judgements of results accepted earlier under other rules | nothing counts as released that was not approved as it stands |
| Governed stores (`stores.py`) | five append-only files with hash chains | append, persist, verify | five files one after the other, torn lines | chains intact, one entry per call |
| Prose pipeline (`swos_prose/`) | a text in hand, its deltas, its verdict, call counters | edit, polish, verify, repair | providers may raise or answer anything; a bounded repair loop | an unverified change is never released |
| Image analysis and media | assets and rights over time, observations, assessments and approvals of a capability | ingest, derive, export, analyse, support; assess, commit, roll back | rights and evidence lapse while an answer is awaited | rights never grow by derivation; support was observed |
| Legacy orchestrator | local variables, two files | run | repairs that are rolled back | what is published is one work |
| Citation classifier, source diversity, provenance graph, discipline critique, release candidate | none across calls | pure computations | ties, thresholds, unknown values, repeated names | see §2.6 |
| Retrieval and models, schema validation, evaluation harness, skills and documents | none | network, libraries, fixtures, prose | – | not modelled (§5) |

The command line and the orchestrator both drive the stage machine; the orchestrator
calls the broker for each capability, the prose pipeline among them; both end in the
finalizer, which reads the run and the governed stores. The memory service works on
the programme store; the exchange works on two of them.

## 2. The modules

```
ProgrammeStore ─┬─ ResearchMemory ─── MCResearchMemory, ResearchMemoryProofs
                │        └ INSTANCE ApprovedLedger (refinement)
                └─ RPMExchange ────── MCRPMExchange, RPMExchangeProofs
WorkOrderRun ───┬─ HostRun ────────── HostRunProofs
                └─ AutonomousRun ──── MCAutonomousRun, AutonomousRunProofs
SourceDiversity ─── MCSourceDiversity ┘
GovernedStore ───── Finalization ──── MCFinalization, FinalizationProofs
EPGDocument, DisciplineCritique, ReleaseCandidate ── MC… ┘
CitationSupport ─── EvidenceGate ──── MCEvidenceGate, EvidenceProofs
PropositionReport ─ ProseEdit ─────── MCProseEdit, ProseEditProofs
RepairWindow ────── MCRepairWindow ───┘
Clock ──────────┬─ ImageAnalysis ─┬── MCImageCapability, EvidenceProofs
                └─ Promotion ─────┘
LegacyRun ───────── LegacyRunProofs
```

`Spec` of a module is without fairness unless said in §3; MC modules only hold values
of constants, scenarios, symmetry and the facts of §2.6.

### 2.1 ProgrammeStore, ResearchMemory, RPMExchange

`ProgrammeStore` has the tables as variables and one action per transaction;
`_apply_projection_locked` is the operator `ApplyProjection`. The chain is a sequence,
a hash is a position: the head that a caller compares is the length.
`rebuild_projection` holds the write lock over a whole replay, so it is three kinds of
step (`BeginRebuild`, `ReplayEvent`, `CommitRebuild`/`RollBackRebuild`) and every
other transaction needs `LockFree`.

`ResearchMemory` splits each call of the service at its transaction boundaries; a
client's record holds what the call has read so far.

| Code | Actions |
|---|---|
| `assess_operation` (739-848) | `StartAssess`, `CheckProgramme`, `CheckBinding`, `ReadHead`, `SaveAssessment` |
| `_validate_approval`, start of `commit_operation` (850-926) | `StartCommit` |
| the head comparison (927-929) | `CheckHead` |
| `append_event`, `register_binding`, `transition_binding`, `close_programme` (940-972) | `Apply` or `ApplyFails` |
| `consume_assessment` (973-981) | `Consume` |
| `_begin` gives up on the lock | `LockTimeout` |
| a reviewer, the clock, the death of a client | `Decide`, `Tick`, `Crash` (external) |

`ApprovedLedger` is the abstract promise (an operation is recorded at most once and
only after it was approved); `ImplementsLedger` says that the service implements it
under the mapping that forgets tables, heads and clients. One store holds one
programme; the caller's `as_of` is the clock; the disposition "escalated" behaves like
"denied"; the candidate's own checks are one Boolean (`admissible`).

`RPMExchange` uses the receiving store's chain and rows. `Originate` lets the
exporting programme go on; `Inspect` is `inspect_import` over whatever a bundle made
at some time can contain (every validation, then the assessment); `Approve` the
reviewer; `StartCommit`, `ImportNext`, `FinishCommit` the loop of `commit_import`, one
transaction per event, with its test for an event that is there already; `FailCommit`
an item the store refuses; `Exit` the process's death, after which anyone may commit
again; `Record` the receiving programme's own work meanwhile.

### 2.2 WorkOrderRun, HostRun, AutonomousRun

`WorkOrderRun` holds the stage machine as operators: `Advance` (`_advance`), `Accept`
(`submit`), `WorkInputs` (`_work_inputs`), `Latest`, `FinalText`. A result is an id,
the verdict the code branches on and the ids of what it was made from, so that "made
from", "current" and "reviewed" can be told apart without any text. Ids that nothing
mentions any more are used again, which keeps the state space finite without a bound.

`HostRun` is the subscription path. A driver asks for the work order (`NextWork`), the
host does it (`Fulfil`), and `submit` is `Submit` (load and validate),
`WriteSubmission` (the file), `Truncate` and `Save` (the two halves of writing
run-state.json in place). `Reject` ends a submission that validation refuses or that
finds an unreadable state; `Crash` ends the driver, which may submit a saved result
again. A result need not name its contract, so a late draft is acceptable as a
revision (`Answers`).

`AutonomousRun` is `AutonomousSWOS.run`: one step per broker call, with the loop that
expands the research while evidence is thin (551-583), the repair of the research that
a review asks for (624-652), the replacements they make and the measurement of
diversity after the audit stage (585-597). `Fail` stands for a
`CapabilityBrokerError`, `WorkOrderError`, `ValueError` or `TypeError` at any call;
other exceptions leave `run()` without an outcome and are left out.

### 2.3 GovernedStore, Finalization, EvidenceGate

`GovernedStore` is one file of `stores.py`: lines, appended, each chained to the one
before; `Verifies` is what `verify` recomputes. A record whose writer died before its
newline reads well, and the next record becomes part of its line. `Finalization` is
`finalize_work_order_run` as the command line calls it. A call's `todo` lists the files
of each pass in the order the code writes them; its steps are the first and second
pass of artefacts, the provenance graph bound (or not) in between, the files refreshed
once blockers are known, the confidence report, each of the five stores appended and
verified, then chain, run-control, manifest, and the run's status. `Crash` ends a
call at any point of `CrashPoints`, leaving the file in hand torn: an artefact, the last
line of a store, run-control, the manifest, or run-state.json itself (`TornRun`), which
`bind_epg_v2` and the end of the command write; then nothing can load the run again.
Otherwise the command is given again for the same directory, where the new call
overwrites the files and appends to the stores.

`EvaluationSubject.load` is a process of its own beside it (`Evaluate`). It reads the
manifest, run-control, then one file after the other: each digest (`CheckDigest`), each
store and the artefact it is bound to (`CheckStore`, `CheckArtefact`), and, when the
checks are over, the contents once more (`LoadArtefact`). Any step of a call may come
between two of its reads.

`EvidenceGate` follows what a release rests on: what is accepted at each stage
(`Retrieve`, `Extract`, `AuditSupport`, `Argue`, `Draft`, `Transform`, `Review`, each
with the guards of its `_validate` function) and the judgement of all of it at the end
(`Finalise`), which other code makes with other rules; `PassesPlanes` are the
evaluation planes over the released subject. The reviews are a sequence, of which a
submission may be empty: only the last one's findings are open, any one's result is a
document. `CitationSupport` has the classifier of the audit: one weight per label stands
for a probability.

### 2.4 PropositionReport, ProseEdit

`PropositionReport` reads the report of a semantic verifier as `propositions.py` and
`coverage.py` do: against itself, and against what the core's narrow parsers read in
the propositions' own texts. It yields blockers (`Breaks`), gaps and doubts.
`ProseEdit` is one edit: `KeepSource`, `Rewrite`, `GivenCandidate` (the entries),
`CheckBoundary`, `CheckLocally`, `NoVerifier`, `Assess`, `VerifierRaises`, `Repair`,
`RepairFails`, `RepairEnds`, `Deliver`. Providers are external: a text may come back
changed, blank or as the source, an assessment may be any of `Replies`, and each may
raise. The counters are those that the code reports and those that were made.

### 2.5 Clock, ImageAnalysis, Promotion, LegacyRun

`ImageAnalysis` has asset records that never change, with rights for each action that
are allowed, denied or unknown, perhaps until a time. `Ingest` and `Derive` make records
(`Inherited`: a derivative's right is at most its parent's unless a grant with evidence
says otherwise; its date is that of any grant that names one); `Export` judges at the
clock; `AnalyseOffline`, `Send` and `Answer` are the two providers, the live one
answering later; a provider names its observations afresh in each answer and the offline
one has a status of its own; `Judge` is the cross-modal judgement of a claim.
`Promotion` is `assess`, an approval, `commit`, `rollback` of a capability, with nothing
stored: late or repeated commits are possible.

`LegacyRun` is `legacy_openai_orchestrator.AutonomousSWOS.run` with all its loops:
ranking, evidence, expansion, gate, argument, draft, review, the repair of the
research (which is kept or rolled back), revision, the files of the end.

### 2.6 Pure modules

Each is a module of operators and an MC module that evaluates ASSUMEs over all inputs
of bounded size; the runs that extend it evaluate them.

| Module (run) | Models | Facts |
|---|---|---|
| `SourceDiversity` (`autonomous_run`) | families, exposure, every dimension's measure in exact fractions, the verdict | mirrors and editions of a work do not count twice; a pass needs the families it asks for; an unknown publisher may turn a failure into a pass (`UnknownMayHelp`); the order of sources may decide (`OrderMayDecide`) |
| `EPGDocument` (`finalisation`) | `_build_epg_v2`, `validate_prov`, `validate_constraints` | a run's graph is valid exactly if its observation and interpretation ids are distinct and its discipline is an absolute name; a valid graph reads back; which relations each rule refuses |
| `DisciplineCritique` (`finalisation`) | criteria against plan, evidence and draft; aggregation; the staged critique | unlicensed causal claims fail; evidence or an anchor helps and never hurts; the aggregate keeps every failure; an entry that denies a criterion without a status passes (`DenialPasses`) |
| `ReleaseCandidate` (`finalisation`) | proof, reproduction, record, build under changing inputs, verification | what verifies is allowed and of one commit and one approved run; a candidate cut off is refused; provenance inputs are looked at later than the checkout (`LaterInputsUnchecked`) |
| `RepairWindow` (`prose_edit`) | which delta may be repaired and where, on tokens | a single edit explains its window; a confined repair keeps the rest; except where markers overlap (`OverlapPasses`) |

## 3. The runs

| Run | Instance | Shows |
|---|---|---|
| `memory_rebuild` | 1 client, 2 projects, 2 items, rebuilds of one project begun at any time; `lifetimes`: 12 operations, 4 assessments; `deadlines`: clock 0..2, life time 1, a pinned head, deaths, 3 assessments | types; a complete replay gives the live rows of every item that no other project has named; a row changes by its own project's events or such a rebuild; events authorised in their window; calls return |
| `memory_races` | 2 clients, 1 project; `races`: 3 assessments of a registration, a write and a closure, approvals, denials, deaths; `overtaking`: 4 assessments, every order of the checks and transactions of a retirement, a closure and writes assessed at one head | one event per operation, no consumption without event, at most one event of each client past the head, closure or retirement it had checked; the ledger is implemented |
| `rpm_exchange` | 2 processes, 1 project, 2 inspections, 2 events of origin, local events between them | what has arrived is a beginning of the approved bundle, once; a receipt means all of it |
| `host_serial` | 1 driver, 3 reviews, 2 deaths | what is ready was given to the last, clear review, or came under `final_text` for which the review is given nothing; inputs exact; stage order and counters; accepted work stays; the run ends |
| `autonomous_run` | 3 reviews, 2 expansions | releases are coherent and reviewed; audits joined to their evidence; an outcome is reached |
| `finalisation` | 3 calls on one directory, deaths at any point of the first two, an evaluation reading at any time | closed is one release; an evaluation that passes its checks began on one approved release; a torn store is never written to again; the run is closed in the end, unless a store or the run's own state was torn |
| `evidence_gate` | 2 sources, 2 claims, with and without classifier | approval rests on audited evidence and passes the planes, also with empty reviews |
| `prose_edit` | every entry, 2 repairs, verifiers that contradict themselves or raise | released text is verified and mapped, verdicts are of the text in hand, calls counted, the edit ends |
| `image_capability` | 3 assets of rights, 2 of analysis with 2 observations, clock 1..2; 2 assessments | exports licensed along the derivation, until the source's date or one a grant named; support observed; what is enabled has current evidence |
| `legacy_run` | 2 expansions, 4 reviews, 4 kinds of finding | a release is one work and is justified |
| `memory_stale_head` (violation) | 2 clients, `overtaking` with 3 assessments | both compare the head before either appends, so that the second event extends a head its assessment never saw (research_memory.py:927) |
| `image_rights` (violation) | as `image_capability` | a grant without evidence moves the date of a right that lapses, and the derivative is exported after its source could not be (media.py:388) |

### Bounds, and why they are enough

- Memory: an assessment is used by one successful commit, so 3 assessments are a
  registration and two operations that race (the same write assessed twice, or a
  write and a closure), and 4 give an item a history (write, correct, contradict or
  delete) to replay, or a second project a write of the same item. Two clients are
  enough for every pairwise interleaving of transactions. Life time 1 and clock 0..2
  put each step before, at and after both deadlines. `MCResearchMemory` states what
  each scenario restricts: time passes only in `deadlines`, elsewhere an allowed
  assessment is reviewed before anything else (the delay commutes with every other step
  but the clock's); processes die in `deadlines` and `races`; in `overtaking` an
  assessment runs alone, since it changes no table that a commit reads before its own
  assessment is approved. The rebuilds have one client: those of the commits' races
  are covered by the theorems, which restrict nothing.
- Exchange: two events are the fewest of which a proper beginning can be missing, two
  inspections the fewest that can overlap, two processes the fewest that race.
- Runs: `MaxReviewIterations` = 3, `MaxExpansions` = 2 and `MaxRepairs` = 2 are the
  code's own constants; the legacy run has the numbers of its code too. Two deaths of
  a host driver cover a death during the retry of a death. `host_serial` leaves out
  the death between truncation and write of run-state.json ("save"), after which the
  run is lost. Its host returns transformed text under either key. It has one driver:
  that lost updates of several keep the order of the stages is shown by the theorem
  `StagesInOrder` alone.
- `finalisation`: three calls are one that dies, one that dies over the first one's
  files, and one that ends. Every write of a file is a point of death, those of
  run-state.json included; `verdict` is one for all calls of a run. Artefacts carry the
  call that wrote them and the status they state, which is what the checks compare.
- `evidence_gate`: a marker, a claim and a source of each side of every check; 2 sources
  and 2 claims let a claim of one source be audited beside one of another; three reviews
  are the code's bound.
- `image_capability`: three assets are a derivative of a derivative, the clock's two
  instants lie before and after every expiry. A behaviour is of one of three parts
  (rights; analysis; promotion), which share nothing but the clock. With `MaxViews` = 1
  two observed assets are already more views than a claim may rest on.
- `prose_edit`: `SomeReplies` has a verifier's judgement with no report, reports with
  each kind of contradiction, and the good ones; `SomeFindings` each severity and
  repairability.

Two runs use the symmetry of their clients; neither has a liveness property. Deadlock
is checked for `prose_edit`. Elsewhere the systems stop by design: a run at its
outcome, the memory, exchange and media instances when a bound is used up.

### Fairness, and why the code justifies it

- `memory_rebuild`: each client's next step is weakly fair, since a process that is
  not killed goes on, and a wait for the lock ends in `LockTimeout`; a client retries a
  commit it may start. Nothing is assumed of rebuilds, of calls to assess, of reviewers
  or of the clock.
- `HostRun`: the driver loops "while status == ACTIVE" (the protocol document), so its
  commands are weakly fair. Strong fairness of `Submit` says that a host whose results
  keep being rejected returns an acceptable one at some time; without it no run of the
  protocol need end. It assumes that there is one: after a retrieval without a verified
  source every extraction is refused (work_orders.py:451-454) and the run stays open.
- `AutonomousRun`, `ProseEdit`: each is a loop in one process; `WF(Next)` says that a
  call of a provider returns or raises.
- `Finalization`: `WF(Step)` says that a call goes on and that the command is given
  again after a death; the number of deaths is bounded by the number of calls.
  Nothing is assumed of the evaluation.

## 4. The proofs

Every theorem is of a module's whole `Spec` (`MediaSpec` and `PromotionSpec` for the two
parts of the image run), for every value of the constants under the assumptions named
in the module (`NoneAssumption`, `OperationsAssumption`, `BoundsAssumption`,
`ReviewAssumption`, `HostAssumption`, `ExchangeAssumption`, `FinalizationAssumption`,
`EvidenceAssumption`, `ProseAssumption`, `ClockAssumption`, `MediaAssumption`,
`PromotionAssumption`, `LegacyAssumption`): kinds of constants, and that the marks for
"nothing" are no values. TLC evaluates each for its instance. What a theorem assumes
beyond them is in the table.

| Module | Theorem | States | Assumes |
|---|---|---|---|
| `ResearchMemoryProofs` | `TypeCorrect` | `TypeOK` | |
| | `ChainReplayable` | `ChainProjectable`: a rebuild cannot raise | |
| | `AlwaysAuthorised` | `EventsAuthorised` | |
| | `AlwaysAppliedOnce` | `AppliedOnce` | |
| | `AlwaysRecorded` | `ConsumedIsRecorded` | |
| | `LedgerImplemented` | `ImplementsLedger`: the refinement of `ApprovedLedger` | |
| | `RebuildReplaysLive` | `RebuildMatchesLive` | |
| | `OwnRows` | `RowsFollowOwnEvents` | |
| | `HeadShared` | `HeadSharedOncePerClient` | |
| | `ClosureOvertaken` | `ClosureOvertakenOncePerClient` | |
| | `RetirementOvertaken` | `RetirementOvertakenOncePerClient` | |
| `RPMExchangeProofs` | `PrefixImported` | `ImportIsPrefix` | |
| | `ReceiptsComplete` | `ReceiptIsComplete` | |
| `HostRunProofs` | `StagesInOrder` | `StageOrder` | |
| | `InputsAsOrdered` | `InputsExact` | one driver |
| | `ReviewedTextReleased` | `ReviewedOrUnread` | one driver |
| | `AcceptedKept` | `AcceptedStays` | one driver |
| `AutonomousRunProofs` | `CoherentReleased` | `ReleaseCoherent` | |
| | `ReviewedReleased` | `ReleaseReviewed` | |
| | `RowsStayJoined` | `RowsJoined` | |
| `FinalizationProofs` | `ClosedWhole` | `ClosedIsOneRelease` | |
| | `EvaluatedApproved` | `EvaluatedWasApproved` | |
| | `TornStays` | `TornStoreStays` | |
| `EvidenceProofs` | `GroundedApproved` | `ApprovedIsGrounded` | |
| | `ApprovedPasses` | `ApprovedPassesPlanes` | |
| | `ObservedSupport` | `SupportedIsObserved` | |
| | `LicensedExports` | `ExportIsLicensed` | |
| | `EvidencedEnabled` | `EnabledIsEvidenced` | `MinImprovement > 0` |
| `ProseEditProofs` | `VerifiedReleased` | `ReleasedIsVerified` | |
| | `MappedReleased` | `ReleasedIsMapped` | |
| | `VerdictMatches` | `VerdictIsOfCandidate` | |
| | `FlagsAgree` | `SafeUnlessFallback` | |
| | `CallsCounted` | `CallsAccounted` | |
| `LegacyRunProofs` | `OneWorkReleased` | `ReleaseIsOneWork` | |
| | `JustifiedReleased` | `ReleaseIsJustified` | |

Two drivers overwrite each other's files, so the theorems about files have one driver;
`StagesInOrder` has any number. `MinImprovement > 0` is the model's: the model leaves
open where between the least and the greatest difference the bootstrap's lower bound
lies, so that only the policy's least improvement makes the sum positive;
`research-grade-promotion.policy.json` asks for 0.08, and the agents' schema admits no
other value. The memory's theorems have any number of clients, projects and rebuilds:
their properties say what the service keeps although the head comparison and the
readings of binding and programme are not in the transaction that appends, and although
a rebuild replays other projects' events too.

The inductive invariants, and why they are needed:

- Memory: `TypeOK` is not inductive: the rows stay typed only if each event that enters
  the chain can be projected, and a rebuild projects old events again; `TypeInv` adds
  `ChainProjectable`. The safety properties are not inductive one by one: that an event
  is authorised follows from what `StartCommit` found several steps earlier, and that
  the assessment consumed last has its event from where the call stands. `SafetyInv`
  joins them with `CommitsSound`, which says what each open call may rely on. Nearly
  every step lets the tables grow only and moves calls along (`Grows`,
  `CallsProceed`), which by `QuietStep` preserves everything; `Apply` and `Consume`
  remain, and there `CommitsSound` supplies the facts that the new event or mark needs.
- The ledger: an approval adds its operation to the approved ones, the transaction of a
  sound commit records one, every other step stutters. That the step is one of the
  ledger needs `SafetyInv` in the state before it.
- Rebuilds: `ReplayInv` says that some function gives the rows after each event of the
  whole chain; those of a rebuild in progress are its value at the event read next, the
  live rows of a project agree with its last value at every item that no other project
  has named, since an event changes a row from that row alone (`ApplyLocal`). The
  function is a witness that each append extends, so the fold over the chain needs no
  induction of its own. `OwnRows` follows from it: at its end a rebuild gives back what
  was there, save for the items of others.
- Overtaking: the commits that have passed a check which nobody passes any more are a
  set of clients. `HeadRoom` says that, for each head, this set and the events built on
  it are together at most the clients; `ClosureRoom` and `RetirementRoom` that those
  pending at a closure and the events after it are fewer than the clients. An append
  takes its client out of the set, and no other step puts one in once the head has
  moved, the programme is closed or the project retired.
- Exchange: an imported event's operation id names its inspection and its place, and no
  id is in the chain twice; hence a process about to append place n finds the places
  before it in the chain, whoever put them there.
- Host: each update of run-state.json is made from a copy that may be old. `Good` is
  what the protocol says of one state; it holds of the file and of every copy a command
  holds, so that it does not matter which update is lost. With one driver, `SerialInv`
  adds that the copy is the state on disk unless it is being written, that the result in
  hand answers the order which the run has out (`MadeFor`), also after a death and
  however old the result is, that each accepted result was made of what was in force
  before it (`Exact`), and which text the last review was given (`ReviewedRun`). `Roomy`
  counts what the rounds may still take: an active run has a file left for its next
  submission.
- Autonomous run: stages have ranks in the order of their inputs. At each step of the
  program there is a rank (`Due`) below which every result was made of the results in
  force; a submission or replacement at that rank raises it by one, an expansion or the
  repair of the research throws it back to the evidence. At the release it is 11, above
  every stage.
- Finalisation: `CallInv` says what a call has written when it is at a step,
  `ManifestInv` that a manifest is truthful about one call only; as soon as a later call
  has written its first file the directory differs from what the manifest describes,
  until that call writes its own. For the evaluation, `Loading` says that it either
  began on a whole release or is still to read the digest of the source register, the
  first file a call overwrites, and will find it changed.
- Evidence gate: the final judgement is of the submissions as they are then; the
  invariant adds what only earlier stages know: an identifier names one source, and a
  broker's audits are what its classifier made of the candidates.
- Prose: first, of a report alone, that one without blockers, gaps and doubts maps each
  proposition both ways; then what a PASS says of the reply it rests on; then where the
  verdict in hand comes from at each step.
- Images: records never change and observations only gain what they support. For the
  exports, each record that has a right was ingested with it, derived with evidence, or
  derived from an earlier record that has it (`RightsInv`); `HeldLicensed` follows the
  derivations back by the least place at which the recursive `Licensed` could fail.
- Promotion: `PromotionInv` keeps what an eligible assessment showed when it was made;
  `TotalGainIsInt` says, by induction on the number of cases, that the sum of
  differences over a finite set of cases is a number, which the comparison with the
  policy needs.
- Legacy: at each step the article in hand was made from the work in the variables or,
  while the research is being repaired, from the one held for a rollback.

Only model-checked: liveness (`CallsReturn`, both `RunEnds`, `Finalised`, `EditEnds`),
which is out of the prover's reach, and the facts of §2.6, evaluated over bounded
inputs. Every safety invariant and action property that a passing run checks is stated
by a theorem. The prover cannot use induction theorems that take an operator; the
inductions above are made from the least member of a set of numbers (`WFMin`) or by a
witness that the invariant carries.

## 5. Not modelled, and where code and documents differ

Not modelled: retrieval, reranking and model calls (network and scores over text),
schema validation (a library), the evaluation harness and benchmarks (they run the
system on fixtures), skills and documents. Within modelled components: training and
calibration of the classifier, statistics over real numbers, what checks look for in
the words of a text, RDF serialisations, archive formats, selector geometry,
compilation of ontology packs; each appears as an input where its result decides.
`ResearchMemory` leaves out `query` and `propose_expiry` (reads), receipts, and
tampering with the database file. Two finalisers at once on one directory, and two
drivers' accepted files, are not covered by a property: nothing in the code locks the
directory and nothing promises it (`StageOrder` holds all the same).

The following was met while modelling; interfaces.md and data-model.md are those of
`specs/008-swos-v2-research-grade/`. Where a run or a fact is named in parentheses it
shows the difference. The others were read in the code, and no run repeats them; where
one would break a property of §3, the property says by its statement what it leaves out.

- Citation classifier: `not_supported` is not a level that the stage machine accepts
  (work_orders.py:473, :42-49), so that a run whose classifier answers it ends without
  recording any judgement of the audit (interfaces.md:168-170; finalizer.py:1186). A tie
  goes to `directly_supports`; `ontology_digest` of the calibration is never compared;
  on a rule's rejection interfaces.md:175 has no level, the broker keeps the label.
- Memory: another client's event may come between the head comparison and the append
  (research_memory.py:927, `memory_stale_head`). `assess_operation` asks only that a
  target's row exists, so an operation on a deleted item can make it active again (:813;
  data-model.md:123-135). `rebuild_projection` replays the events of every project of a
  programme into one (programme_store.py:761), hence `NamedElsewhere` in
  `RebuildMatchesLive` and `RowsFollowOwnEvents`. After a death between append and
  consumption no retry can store the approval (:973).
- Exchange: a closed receiver still takes imports (rpm_exchange.py:562;
  interfaces.md:81-83); an import is not atomic (data-model.md:118); importing a write
  again revives an item deleted locally (interfaces.md:86); a correction loses its
  successor.
- Host: a host may answer with `candidate` or `final_text` (work_orders.py:543), and
  either is verified and released (:765, finalizer.py:1281), but the order of the review
  looks for `candidate` only (:313): text under `final_text` is released though its
  review was given none. `ReviewedOrUnread` says that this is the only way; no document
  fixes the key. A state file torn at "save" loses the run (:62), in `submit` as in
  `finalise`. `rpm_write` without an approval approves itself as "memory_owner" (:938,
  962-969).
- Orchestrator: the diversity report that decides at release may have measured sources
  that were replaced later (orchestrator.py:642).
- Review: an empty list of reviews is accepted (work_orders.py:553), leaves nothing
  open, and counts as reviewed if any earlier submission had a result
  (finalizer.py:553-607): a blocking review, a revision and an empty review are
  approved. No document says which text the result must be of; `ApprovedPassesPlanes`
  does not ask it.
- Finalizer: a node without a statement is left out of the released graph but its edges
  are not; a repeated observation id or a relative discipline name makes the provenance
  graph invalid and blocks the release, though no stage refuses either
  (`GraphsValidExactly`).
- Prose: deltas of severity info alone pass although the verifier says not equivalent
  (pipeline.py:328 and its docstring :113); propositions that are split escape the
  comparison of frames; where prefix and suffix overlap a shorter text counts as
  confined (`OverlapPasses`).
- Evaluation: its contents are read again after its digests were compared
  (evaluation.py:221-247), so that a subject may mix the files of two calls when one
  begins in between (`Overtaken` in `EvaluatedWasApproved`).
- Images: a grant without evidence extends a parent's right that is about to lapse
  (interfaces.md:318-319, `image_rights`); the live path reports "complete" for a
  truncated request; evidence that expires between assessment and commit still enables,
  and a commit after a rollback enables again.
- Legacy: nothing imports the module; its gate compares a key `method` (928) that the
  current rerank record (llm.py:227-235) lacks, so that with that provider no article
  is drafted; a run that raises after the gate leaves files that say "APPROVED".
- Source diversity, discipline critique, release candidate: `UnknownMayHelp`,
  `OrderMayDecide`, `DenialPasses`, `LaterInputsUnchecked`; an entry that the plan
  makes itself overrides the helper's judgement (discipline_critique.py:252-266).

Worth doing next: the composition of a run's release with the evidence gate and the
finalisation, with a theorem across them; a proof that `AutonomousRun` and a lone
`HostRun` implement one abstract run; the facts of `CitationSupport` and
`SourceDiversity` as lemmas for inputs of any size; `query` with receipts.
