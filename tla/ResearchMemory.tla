---------------------------- MODULE ResearchMemory ----------------------------
(***************************************************************************)
(* ResearchMemoryService (research_memory.py): assess_operation and        *)
(* commit_operation over the store of one programme, called by several     *)
(* client processes.  Each call is a sequence of store transactions, and   *)
(* other clients may run between any two of them; a client may give up or  *)
(* die before any of them.                                                 *)
(***************************************************************************)
EXTENDS ProgrammeStore, FiniteSets

CONSTANTS
  Clients,         \* processes that call the service
  Operations,      \* RPMOperation values that callers may submit
  Decisions,       \* HumanApproval dispositions that reviewers give
  Maintained,      \* projects whose projection an operator may rebuild
  TTL,             \* assessment_ttl, in clock ticks
  MaxAssessments,  \* bound: no call to assess starts once there are so many
  MaxTime          \* bound: clock ticks

BindingOperations == {"register_project", "retire_project", "close_programme"}

OperationTypes == BindingOperations \cup (EventTypes \ {"status_change"})

\* admissible stands for the candidate's own checks (grounding, EPG, SDL,
\* rights, classification), expectedHead for the optional pinned head.
\* unbind_project is retire_project under another reason text.
Operation ==
  [id           : OperationIds,
   type         : OperationTypes,
   project      : Projects,
   target       : Items \cup {None},
   candidate    : Items \cup {None},
   expiry       : Nat,
   disposition  : Dispositions \cup {None},
   admissible   : BOOLEAN,
   expectedHead : Nat \cup {None}]

ASSUME OperationsAssumption ==
  /\ Operations \subseteq Operation
  /\ \A o1, o2 \in Operations : o1.id = o2.id => o1 = o2
  /\ \A o \in Operations :
       o.type \in {"write", "correct", "supersede"} => o.candidate # None

ASSUME BoundsAssumption ==
  /\ IsFiniteSet(Clients)
  /\ TTL \in Nat
  /\ MaxAssessments \in Nat
  /\ MaxTime \in Nat
  /\ Maintained \subseteq Projects
  /\ Decisions \subseteq {"approved", "denied"}

VARIABLES
  assessments, \* table assessments, in creation order
  approvals,   \* HumanApproval documents that exist outside the store
  clients,     \* the call each client is in
  now          \* the clock

vars == <<store, assessments, approvals, clients, now>>

Assessment ==
  [operation  : Operations,
   status     : {"allow", "deny"},
   targetHead : Nat,
   assessedAt : Nat,
   consumed   : BOOLEAN]

Approval ==
  [assessment : Nat, disposition : {"approved", "denied"}, approvedAt : Nat]

-----------------------------------------------------------------------------
(* Calls in progress.                                                      *)
(* assess: programme -> binding -> readHead -> save                        *)
(* commit: checkHead -> programme -> binding -> apply -> consume           *)

Idle == [pc |-> "idle"]

Assessing ==
  [pc : {"programme", "binding", "readHead", "save"}, call : {"assess"},
   operation : Operations, head : Nat, at : Nat]

Committing ==
  [pc : {"checkHead", "programme", "binding", "apply", "consume"},
   call : {"commit"}, operation : Operations, head : Nat, at : Nat,
   assessment : Nat, approval : Approval]

In(c, pc) == clients[c].pc = pc

Calling(c, call, pc) == In(c, pc) /\ clients[c].call = call

Goto(c, pc) == clients' = [clients EXCEPT ![c].pc = pc]

Return(c) == clients' = [clients EXCEPT ![c] = Idle]

\* The caller proceeds when the check holds; otherwise the call raises.
Check(c, holds, pc) == IF holds THEN Goto(c, pc) ELSE Return(c)

Tables == <<store, assessments, approvals, now>>

-----------------------------------------------------------------------------
(* _binding: two reads, the programme's status and then the binding. *)

\* Mutant: a closed programme admits every operation.
ProgrammeAdmitsAll(o) == TRUE

ProgrammeAdmits(o) == programmeStatus = "active" \/ o.type = "close_programme"

\* Mutant: a retired binding still admits every operation.
BindingAdmitsRetired(o) ==
  bindings[o.project] # "unregistered" \/ o.type = "register_project"

BindingAdmits(o) ==
  \/ bindings[o.project] = "active"
  \/ bindings[o.project] = "unregistered" /\ o.type = "register_project"
  \/ bindings[o.project] = "retired" /\ o.type = "close_programme"

CheckProgramme(c) ==
  /\ In(c, "programme")
  /\ Check(c, ProgrammeAdmits(clients[c].operation), "binding")
  /\ UNCHANGED Tables

\* The read is the same in both calls; commit_operation then also refuses a
\* candidate that expired before the commit time.
CarriesCandidate(o) == o.type \in {"write", "correct", "supersede"}

CandidateExpired(o, at) == CarriesCandidate(o) /\ o.expiry <= at

CheckBinding(c) ==
  LET o == clients[c].operation
  IN  /\ In(c, "binding")
      /\ \/ /\ clients[c].call = "assess"
            /\ Check(c, BindingAdmits(o), "readHead")
         \/ /\ clients[c].call = "commit"
            /\ Check(c, BindingAdmits(o) /\ ~CandidateExpired(o, clients[c].at),
                     "apply")
  /\ UNCHANGED Tables

-----------------------------------------------------------------------------
(* assess_operation *)

StartAssess(c, o) ==
  /\ In(c, "idle")
  /\ Len(assessments) < MaxAssessments
  /\ clients' = [clients EXCEPT
       ![c] = [pc |-> "programme", call |-> "assess", operation |-> o,
               head |-> 0, at |-> now]]
  /\ UNCHANGED Tables

ReadHead(c) ==
  /\ In(c, "readHead")
  /\ clients' = [clients EXCEPT ![c].pc = "save", ![c].head = ChainHead]
  /\ UNCHANGED Tables

TargetPresent(o) ==
  \/ o.target = None
  \/ o.type \in {"register_project", "close_programme"}
  \/ projections[o.project][o.target].status # "absent"

Allowed(o, head, at) ==
  /\ CarriesCandidate(o) => o.admissible /\ ~CandidateExpired(o, at)
  /\ o.expectedHead \in {None, head}
  /\ TargetPresent(o)

\* The target is read, then the assessment is inserted under a fresh id.  No
\* other client can read the new row before the insert, so nothing tells the
\* two apart from one step.
SaveAssessment(c) ==
  LET o == clients[c].operation
  IN  /\ In(c, "save")
      /\ LockFree
      /\ assessments' = Append(assessments,
           [operation  |-> o,
            status     |-> IF Allowed(o, clients[c].head, clients[c].at)
                           THEN "allow" ELSE "deny",
            targetHead |-> clients[c].head,
            assessedAt |-> clients[c].at,
            consumed   |-> FALSE])
      /\ Return(c)
      /\ UNCHANGED <<store, approvals, now>>

\* A reviewer decides about an assessment; one decision each is enough.
Decide(a, disposition) ==
  /\ \A h \in approvals : h.assessment # a
  /\ approvals' = approvals \cup
       {[assessment |-> a, disposition |-> disposition, approvedAt |-> now]}
  /\ UNCHANGED <<store, assessments, clients, now>>

-----------------------------------------------------------------------------
(* commit_operation *)

\* _validate_approval: the approval's digests bind it to one assessment.
ValidApproval(a, h, at) ==
  /\ h.disposition = "approved"
  /\ h.assessment = a
  /\ assessments[a].assessedAt <= h.approvedAt
  /\ h.approvedAt <= at

\* Mutant: the assessment's life time is not checked.
CurrentForever(a, at) ==
  ~assessments[a].consumed /\ assessments[a].status = "allow"

Current(a, at) ==
  /\ ~assessments[a].consumed
  /\ at <= assessments[a].assessedAt + TTL
  /\ assessments[a].status = "allow"

\* get_assessment and the checks on what it returned.  A call that fails them
\* raises and changes nothing.
StartCommit(c, a, h) ==
  /\ In(c, "idle")
  /\ Current(a, now)
  /\ ValidApproval(a, h, now)
  /\ clients' = [clients EXCEPT
       ![c] = [pc |-> "checkHead", call |-> "commit",
               operation |-> assessments[a].operation,
               head |-> assessments[a].targetHead, at |-> now,
               assessment |-> a, approval |-> h]]
  /\ UNCHANGED Tables

\* Mutant: the head is not compared.
SkipHead(c) ==
  /\ In(c, "checkHead")
  /\ Goto(c, "programme")
  /\ UNCHANGED Tables

\* Mutant: the assessment is consumed before the operation is applied.
ConsumeFirst(c) ==
  /\ In(c, "checkHead")
  /\ LockFree
  /\ Check(c, ChainHead = clients[c].head, "programme")
  /\ assessments' = [assessments EXCEPT ![clients[c].assessment].consumed = TRUE]
  /\ UNCHANGED <<store, approvals, now>>

CheckHead(c) ==
  /\ In(c, "checkHead")
  /\ Check(c, ChainHead = clients[c].head, "programme")
  /\ UNCHANGED Tables

\* _event_payload and _status_for_operation.
StatusAfter(type) ==
  CASE type = "correct"              -> "corrected"
    [] type = "supersede"            -> "superseded"
    [] type = "contradiction_opened" -> "contradicted"
    [] type = "expire"               -> "expired"
    [] type = "delete"               -> "deleted"
    [] type = "retire_project"       -> "retired"
    [] type = "close_programme"      -> "closed"
    [] OTHER                         -> "active"

ItemOf(o) ==
  IF o.type \in BindingOperations THEN None
  ELSE IF o.target # None THEN o.target ELSE o.candidate

EventOf(call) ==
  LET o == call.operation
  IN  [operation   |-> o.id,
       type        |-> IF o.type \in BindingOperations
                       THEN "status_change" ELSE o.type,
       project     |-> o.project,
       item        |-> ItemOf(o),
       candidate   |-> o.candidate,
       expiry      |-> o.expiry,
       disposition |-> o.disposition,
       status      |-> StatusAfter(o.type),
       assessment  |-> call.assessment,
       committedAt |-> call.at]

Transact(o, e) ==
  \/ o.type = "register_project" /\ RegisterBinding(e)
  \/ o.type = "retire_project" /\ TransitionBinding(e)
  \/ o.type = "close_programme" /\ CloseProgramme(e)
  \/ o.type \notin BindingOperations /\ (AppendEvent(e) \/ ReturnRecorded(e))

Apply(c) ==
  /\ In(c, "apply")
  /\ Transact(clients[c].operation, EventOf(clients[c]))
  /\ Goto(c, "consume")
  /\ UNCHANGED <<assessments, approvals, now>>

\* The transaction raises and rolls back: a second registration, a second event
\* of one binding operation, an invalid disposition.
ApplyFails(c) ==
  LET o == clients[c].operation
  IN  /\ In(c, "apply")
      /\ LockFree
      /\ \/ o.type \in BindingOperations /\ Recorded(o.id)
         \/ o.type = "register_project" /\ bindings[o.project] # "unregistered"
         \/ o.type \notin BindingOperations /\ ~Recorded(o.id)
              /\ ~Projectable(EventOf(clients[c]))
      /\ Return(c)
      /\ UNCHANGED Tables

Consume(c) ==
  /\ In(c, "consume")
  /\ LockFree
  /\ assessments' = [assessments EXCEPT ![clients[c].assessment].consumed = TRUE]
  /\ Return(c)
  /\ UNCHANGED <<store, approvals, now>>

-----------------------------------------------------------------------------
\* Mutant: the wait for the write lock has no limit; the call goes on waiting.
WaitForLock(c) ==
  /\ clients[c].pc \in {"save", "apply", "consume"}
  /\ ~LockFree
  /\ UNCHANGED vars

\* The call waits at most lock_timeout_seconds for the write lock, then raises.
LockTimeout(c) ==
  /\ clients[c].pc \in {"save", "apply", "consume"}
  /\ ~LockFree
  /\ Return(c)
  /\ UNCHANGED Tables

\* The process dies; the tables keep what its earlier transactions committed.
Crash(c) ==
  /\ ~In(c, "idle")
  /\ Return(c)
  /\ UNCHANGED Tables

Rebuild ==
  /\ \/ \E p \in Maintained : BeginRebuild(p)
     \/ ReplayEvent
     \/ CommitRebuild
     \/ RollBackRebuild
  /\ UNCHANGED <<assessments, approvals, clients, now>>

Tick ==
  /\ now < MaxTime
  /\ now' = now + 1
  /\ UNCHANGED <<store, assessments, approvals, clients>>

Step(c) ==
  \/ CheckProgramme(c) \/ CheckBinding(c)
  \/ ReadHead(c) \/ SaveAssessment(c)
  \/ CheckHead(c) \/ Apply(c) \/ ApplyFails(c) \/ Consume(c)
  \/ LockTimeout(c)

Start(c) ==
  \/ \E o \in Operations : StartAssess(c, o)
  \/ \E a \in DOMAIN assessments, h \in approvals : StartCommit(c, a, h)

Review ==
  \E a \in DOMAIN assessments, d \in Decisions : Decide(a, d)

Init ==
  /\ StoreInit
  /\ assessments = << >>
  /\ approvals = {}
  /\ clients = [c \in Clients |-> Idle]
  /\ now = 0

Next ==
  \/ \E c \in Clients : Start(c) \/ Step(c) \/ Crash(c)
  \/ Review
  \/ Rebuild
  \/ Tick

Spec == Init /\ [][Next]_vars

\* A process that lives runs its call to the end, waiting a bounded time for the
\* write lock, and callers retry a commit that is still permitted.
Fairness ==
  \A c \in Clients :
    /\ WF_vars(Step(c))
    /\ WF_vars(\E a \in DOMAIN assessments, h \in approvals : StartCommit(c, a, h))

FairSpec == Spec /\ Fairness

-----------------------------------------------------------------------------
(* Properties *)

TypeOK ==
  /\ StoreTypeOK
  /\ assessments \in Seq(Assessment)
  /\ approvals \subseteq Approval
  /\ clients \in [Clients -> {Idle} \cup Assessing \cup Committing]
  /\ now \in Nat

\* A retried or duplicated commit of one operation, by any number of clients and
\* across crashes, leaves one event in the chain (append_event's lookup by
\* operation id and the UNIQUE column behind it).
AppliedOnce ==
  \A i, j \in DOMAIN events :
    events[i].operation = events[j].operation => i = j

\* Every event of the chain rests on an assessment that allowed this very
\* operation and on an approval of that assessment given after it was made and
\* before the commit time, which lies within the assessment's life time.
Authorised(e) ==
  /\ e.assessment \in DOMAIN assessments
  /\ LET a == assessments[e.assessment]
     IN  /\ a.status = "allow"
         /\ a.operation.id = e.operation
         /\ a.operation.project = e.project
         /\ e.committedAt <= a.assessedAt + TTL
         /\ \E h \in approvals :
              /\ h.assessment = e.assessment
              /\ h.disposition = "approved"
              /\ a.assessedAt <= h.approvedAt
              /\ h.approvedAt <= e.committedAt

EventsAuthorised == \A i \in DOMAIN events : Authorised(events[i])

\* An assessment is marked consumed only once its operation is in the chain: a
\* crash between the two transactions of a commit loses the mark, never the event.
ConsumedIsRecorded ==
  \A a \in DOMAIN assessments :
    assessments[a].consumed => Recorded(assessments[a].operation.id)

\* The service implements the ledger of ApprovedLedger: whatever clients, crashes
\* and retries do, operations enter the chain once and approved.
ApprovedOperations ==
  {assessments[h.assessment].operation.id :
     h \in {h \in approvals :
              /\ h.disposition = "approved"
              /\ assessments[h.assessment].status = "allow"}}

Promise == INSTANCE ApprovedLedger WITH
             approved <- ApprovedOperations,
             ledger   <- [i \in DOMAIN events |-> events[i].operation]

ImplementsLedger == Promise!LedgerSpec

AssessmentOf(i) == assessments[events[i].assessment]

OperationAt(i) == AssessmentOf(i).operation

\* What commit_operation's head check is for: each event extends the very head its
\* assessment saw, so that no other event comes between judgement and commit.
AppendedAtAssessedHead ==
  \A i \in DOMAIN events : AssessmentOf(i).targetHead = i - 1

\* The head is compared before the transaction that appends, so clients that compare
\* at the same time may all build on one head.  But after the first of them nobody
\* passes the comparison any more: no head has more successors than there are
\* clients, and none is built on before it exists.
BuiltOn(head) == {j \in DOMAIN events : AssessmentOf(j).targetHead = head}

HeadSharedOncePerClient ==
  \A i \in DOMAIN events :
    LET head == AssessmentOf(i).targetHead
    IN  head < i /\ Cardinality(BuiltOn(head)) <= Cardinality(Clients)

\* _binding reads the programme's status before the transaction, so a commit that has
\* read "active" may still enter after the closure.  Each client but the one that
\* closed has at most one such commit; all later ones are refused.
AfterClosure(i) ==
  {j \in DOMAIN events : i < j /\ OperationAt(j).type # "close_programme"}

ClosureOvertakenOncePerClient ==
  \A i \in DOMAIN events : OperationAt(i).type = "close_programme" =>
    Cardinality(AfterClosure(i)) < Cardinality(Clients)

\* The same of the binding that _binding reads: after a project's retirement each
\* client but the one that retired it adds at most one event of the project, whatever
\* mixture of writes and second retirements races with it.
AfterRetirement(i) ==
  {j \in DOMAIN events :
     /\ i < j
     /\ OperationAt(j).project = OperationAt(i).project
     /\ OperationAt(j).type # "close_programme"}

RetirementOvertakenOncePerClient ==
  \A i \in DOMAIN events : OperationAt(i).type = "retire_project" =>
    Cardinality(AfterRetirement(i)) < Cardinality(Clients)

\* Items that an event of another project of the programme names too.
NamedElsewhere(p) ==
  {x \in Items : \E i \in DOMAIN events :
     events[i].project # p /\ x \in {events[i].item, events[i].candidate}}

\* A row changes only by the commit of an event of its own project that names the
\* item as target or successor: no client's commit touches another project's rows,
\* reads, assessments, checks and crashes touch none, and a rebuild changes no row of
\* its project but those of items that another project has named too.
RowsFollowOwnEvents ==
  [][\A p \in Projects, x \in Items :
       projections'[p][x] # projections[p][x] =>
         \/ /\ Len(events') = Len(events) + 1
            /\ LET e == events'[Len(events')]
               IN  e.project = p /\ x \in {e.item, e.candidate}
         \/ rebuild.project = p /\ x \in NamedElsewhere(p)]_vars

\* rebuild_projection replays the events of every project of the programme into the
\* rows of one.  When it has replayed the whole chain, its row of each item that no
\* other project has named is the live one, however the projects' events interleave.
RebuildMatchesLive ==
  ~LockFree /\ rebuild.next > ChainHead =>
    \A x \in Items \ NamedElsewhere(rebuild.project) :
      rebuild.rows[x] = projections[rebuild.project][x]

\* Every call returns, whatever the other clients do: each outcome of the store's
\* transaction is handled and the wait for the lock is bounded.
CallsReturn == \A c \in Clients : ~In(c, "idle") ~> In(c, "idle")
=============================================================================
