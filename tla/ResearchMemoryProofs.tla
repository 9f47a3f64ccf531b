------------------------- MODULE ResearchMemoryProofs -------------------------
(***************************************************************************)
(* Proofs about ResearchMemory for every set of clients, projects, items   *)
(* and operations: type correctness; the inductive invariant behind        *)
(* EventsAuthorised, AppliedOnce and ConsumedIsRecorded; the refinement of *)
(* ApprovedLedger; whose events change a row; that a replay of the chain   *)
(* gives the live rows; and how many commits may pass a check that another *)
(* client's event has made stale.                                          *)
(***************************************************************************)
EXTENDS ResearchMemory, SequenceTheorems, FiniteSetTheorems, TLAPS

\* A projection stays a function from items to rows, whatever event is applied
\* (_apply_projection_locked).
LEMMA ApplyProjectionType ==
  ASSUME NEW rows \in [Items -> Row], NEW e \in Event, NEW n \in Nat,
         Projectable(e)
  PROVE  ApplyProjection(rows, e, n) \in [Items -> Row]
<1> DEFINE target == rows[e.item]
           closed == [target EXCEPT !.status = IF e.type = "correct"
                                               THEN "corrected" ELSE "superseded",
                                    !.successor = e.candidate,
                                    !.last = n]
<1>1. AbsentRow \in Row
  BY DEF AbsentRow, Row, ProjectionStatuses
<1>2. \A x \in Items \cup {None} : CandidateRow(e, n, x) \in Row
  BY <1>1 DEF CandidateRow, AbsentRow, Row, Event, ProjectionStatuses
<1>3. CASE e.item = None
  BY <1>3 DEF ApplyProjection
<1>4. CASE e.item # None /\ e.type = "write" /\ e.candidate # None
  BY <1>4, <1>2 DEF ApplyProjection, Event
<1>5. CASE e.item # None /\ e.type \in {"correct", "supersede"} /\ e.candidate # None
  <2>1. e.item \in Items /\ e.candidate \in Items
    BY <1>5 DEF Event
  <2>2. closed \in Row
    <3> DEFINE status == IF e.type = "correct" THEN "corrected" ELSE "superseded"
    <3>1. target \in Row /\ status \in ProjectionStatuses
      BY <2>1 DEF ProjectionStatuses
    <3> HIDE DEF status, target
    <3>2. [target EXCEPT !.status = status, !.successor = e.candidate, !.last = n] \in Row
      BY <2>1, <3>1 DEF Row
    <3> QED BY <3>2 DEF status
  <2>3. [rows EXCEPT ![e.item] = closed] \in [Items -> Row]
    BY <2>1, <2>2
  <2>4. Succeed(rows, e, n) =
          [(IF target.status = "absent" THEN rows
            ELSE [rows EXCEPT ![e.item] = closed])
             EXCEPT ![e.candidate] = CandidateRow(e, n, e.item)]
    BY <2>1 DEF Succeed
  <2>5. Succeed(rows, e, n) \in [Items -> Row]
    BY <2>1, <2>3, <2>4, <1>2
  <2> QED BY <1>5, <2>5 DEF ApplyProjection
<1>6. CASE /\ e.item # None
           /\ ~(e.type = "write" /\ e.candidate # None)
           /\ ~(e.type \in {"correct", "supersede"} /\ e.candidate # None)
  <2>1. e.item \in Items /\ e.status \in ProjectionStatuses
    BY <1>6 DEF Event, Projectable
  <2>2. e.disposition \in Dispositions \cup {None}
    BY DEF Event
  <2>3. target \in Row
    BY <2>1
  <2>4. Touch(target, e, n) \in Row
    <3> HIDE DEF target
    <3> DEFINE contradictions == IF e.type = "contradiction_opened"
                                 THEN target.contradictions + 1
                                 ELSE target.contradictions
               resolution == IF e.disposition = None
                             THEN target.resolution ELSE e.disposition
    <3>1. contradictions \in Nat /\ resolution \in Dispositions \cup {None}
      BY <2>2, <2>3 DEF Row
    <3>2. Touch(target, e, n) =
            [target EXCEPT !.status = e.status, !.last = n,
                           !.contradictions = contradictions,
                           !.resolution = resolution]
      BY <2>3 DEF Touch, Row
    <3> HIDE DEF contradictions, resolution
    <3> QED BY <2>1, <2>3, <3>1, <3>2 DEF Row
  <2>5. LifecycleRow(e, n) \in Row
    BY <2>1, <2>2 DEF LifecycleRow, Row, FarFuture
  <2> QED BY <1>6, <2>1, <2>4, <2>5 DEF ApplyProjection
<1> QED BY <1>3, <1>4, <1>5, <1>6

-----------------------------------------------------------------------------
(* Types. *)

\* The events that the replay of rebuild_projection meets can all be projected:
\* what append_event refuses never enters the chain.
ChainProjectable == \A i \in DOMAIN events : Projectable(events[i])

TypeInv == TypeOK /\ ChainProjectable

Calls == {Idle} \cup Assessing \cup Committing

\* The program counter tells which call a client is in.
LEMMA CallOf ==
  ASSUME NEW k \in Calls
  PROVE  /\ k.pc \in {"readHead", "save"} => k \in Assessing
         /\ k.pc \in {"checkHead", "apply", "consume"} => k \in Committing
         /\ k.pc # "idle" /\ k.call = "assess" => k \in Assessing
         /\ k.pc # "idle" /\ k.call = "commit" => k \in Committing
         /\ k.pc # "idle" => k \in Assessing \cup Committing
         /\ k \in Assessing \cup Committing => k.operation \in Operations
BY DEF Calls, Idle, Assessing, Committing

\* Moving on within a call keeps the client's record well typed.
LEMMA GotoType ==
  ASSUME TypeOK, NEW c \in Clients, NEW pc, Goto(c, pc),
         \/ clients[c] \in Assessing /\ pc \in {"programme", "binding", "readHead", "save"}
         \/ clients[c] \in Committing
              /\ pc \in {"checkHead", "programme", "binding", "apply", "consume"}
  PROVE  clients' \in [Clients -> Calls]
<1>1. [clients[c] EXCEPT !.pc = pc] \in Calls
  BY DEF Calls, Assessing, Committing
<1>2. clients' = [clients EXCEPT ![c] = [clients[c] EXCEPT !.pc = pc]]
  BY DEF Goto
<1> QED BY <1>1, <1>2 DEF TypeOK, Calls

\* A call that returns leaves an idle client.
LEMMA ReturnType ==
  ASSUME TypeOK, NEW c \in Clients, Return(c)
  PROVE  clients' \in [Clients -> Calls]
BY DEF TypeOK, Return, Calls

\* commit_operation builds a well-formed event, and the binding operations'
\* events have no item to project.
LEMMA EventOfType ==
  ASSUME NEW k \in Committing
  PROVE  /\ EventOf(k) \in Event
         /\ k.operation.type \in BindingOperations => Projectable(EventOf(k))
<1> DEFINE o == k.operation
<1>1. o \in Operation /\ k.assessment \in Nat /\ k.at \in Nat
  BY OperationsAssumption DEF Committing
<1>2. ItemOf(o) \in Items \cup {None}
  BY <1>1 DEF ItemOf, Operation
<1>3. StatusAfter(o.type) \in ProjectionStatuses \cup BindingStatuses \cup {"closed"}
  BY DEF StatusAfter, ProjectionStatuses, BindingStatuses
<1>4. (IF o.type \in BindingOperations THEN "status_change" ELSE o.type) \in EventTypes
  BY <1>1 DEF Operation, OperationTypes, EventTypes
<1>5. EventOf(k) \in Event
  <2> HIDE DEF o
  <2>1. EventOf(k) =
          [operation   |-> o.id,
           type        |-> IF o.type \in BindingOperations
                           THEN "status_change" ELSE o.type,
           project     |-> o.project,
           item        |-> ItemOf(o),
           candidate   |-> o.candidate,
           expiry      |-> o.expiry,
           disposition |-> o.disposition,
           status      |-> StatusAfter(o.type),
           assessment  |-> k.assessment,
           committedAt |-> k.at]
    BY DEF EventOf, o
  <2> QED BY <1>1, <1>2, <1>3, <1>4, <2>1 DEF Event, Operation
<1>6. o.type \in BindingOperations => EventOf(k).item = None
  BY DEF EventOf, ItemOf
<1> QED BY <1>5, <1>6 DEF Projectable

\* The entries of a sequence to which an element was appended.
LEMMA AppendEntries ==
  ASSUME NEW S, NEW s \in Seq(S), NEW x \in S
  PROVE  /\ Append(s, x) \in Seq(S)
         /\ Len(Append(s, x)) = Len(s) + 1
         /\ Append(s, x)[Len(s) + 1] = x
         /\ \A i \in DOMAIN s : i \in DOMAIN Append(s, x) /\ Append(s, x)[i] = s[i]
         /\ \A i \in DOMAIN Append(s, x) : i \in DOMAIN s \/ i = Len(s) + 1
<1>1. Len(s) \in Nat /\ DOMAIN s = 1..Len(s)
  OBVIOUS
<1>2. Append(s, x) \in Seq(S) /\ Len(Append(s, x)) = Len(s) + 1
  OBVIOUS
<1>3. DOMAIN Append(s, x) = 1..(Len(s) + 1)
  BY <1>2
<1>4. Append(s, x)[Len(s) + 1] = x
  OBVIOUS
<1>5. ASSUME NEW i \in DOMAIN s
      PROVE  i \in DOMAIN Append(s, x) /\ Append(s, x)[i] = s[i]
  BY <1>1, <1>3
<1>6. ASSUME NEW i \in DOMAIN Append(s, x)
      PROVE  i \in DOMAIN s \/ i = Len(s) + 1
  BY <1>1, <1>3
<1> QED BY <1>2, <1>4, <1>5, <1>6

\* Appending a projectable event keeps the chain typed and projectable.
LEMMA AppendType ==
  ASSUME TypeInv, NEW e \in Event, Projectable(e), events' = Append(events, e)
  PROVE  events' \in Seq(Event) /\ ChainProjectable'
<1>1. events \in Seq(Event) /\ ChainProjectable
  BY DEF TypeInv, TypeOK, StoreTypeOK
<1>2. \A i \in DOMAIN events' : Projectable(events'[i])
  BY <1>1, AppendEntries DEF ChainProjectable
<1> QED BY <1>1, <1>2, AppendEntries DEF ChainProjectable

\* Each transaction of commit_operation, and its rollback, keeps the tables typed
\* and the chain projectable.
LEMMA ApplyType ==
  ASSUME TypeInv, NEW c \in Clients, In(c, "apply"),
         Transact(clients[c].operation, EventOf(clients[c]))
  PROVE  StoreTypeOK' /\ ChainProjectable'
<1> DEFINE k == clients[c]
           e == EventOf(clients[c])
<1>1. k \in Committing
  BY CallOf DEF TypeInv, TypeOK, In, Calls
<1>2. e \in Event /\ (k.operation.type \in BindingOperations => Projectable(e))
  BY <1>1, EventOfType
<1>3. e.project \in Projects
  BY <1>2 DEF Event
<1>4. CASE k.operation.type = "register_project" /\ RegisterBinding(e)
  <2>1. Projectable(e) /\ events' = Append(events, e)
    BY <1>2, <1>4 DEF BindingOperations, RegisterBinding
  <2> QED BY <1>2, <1>3, <1>4, <2>1, AppendType
          DEF RegisterBinding, TypeInv, TypeOK, StoreTypeOK, BindingStatuses
<1>5. CASE k.operation.type = "retire_project" /\ TransitionBinding(e)
  <2>1. Projectable(e) /\ events' = Append(events, e)
    BY <1>2, <1>5 DEF BindingOperations, TransitionBinding
  <2>2. e.status = "retired"
    BY <1>5 DEF EventOf, StatusAfter
  <2> QED BY <1>2, <1>3, <1>5, <2>1, <2>2, AppendType
          DEF TransitionBinding, TypeInv, TypeOK, StoreTypeOK, BindingStatuses
<1>6. CASE k.operation.type = "close_programme" /\ CloseProgramme(e)
  <2>1. Projectable(e) /\ events' = Append(events, e)
    BY <1>2, <1>6 DEF BindingOperations, CloseProgramme
  <2> QED BY <1>2, <1>6, <2>1, AppendType
          DEF CloseProgramme, TypeInv, TypeOK, StoreTypeOK
<1>7. CASE AppendEvent(e)
  <2>1. Projectable(e) /\ events' = Append(events, e)
    BY <1>7 DEF AppendEvent
  <2>2. projections[e.project] \in [Items -> Row] /\ ChainHead + 1 \in Nat
    BY <1>3 DEF TypeInv, TypeOK, StoreTypeOK, ChainHead
  <2>3. ApplyProjection(projections[e.project], e, ChainHead + 1) \in [Items -> Row]
    BY <1>2, <2>1, <2>2, ApplyProjectionType
  <2>4. projections' \in [Projects -> [Items -> Row]]
    BY <1>3, <1>7, <2>3 DEF AppendEvent, TypeInv, TypeOK, StoreTypeOK
  <2> QED BY <1>2, <1>7, <2>1, <2>4, AppendType
          DEF AppendEvent, TypeInv, TypeOK, StoreTypeOK
<1>8. CASE ReturnRecorded(e)
  BY <1>8 DEF ReturnRecorded, store, TypeInv, TypeOK, StoreTypeOK, ChainProjectable
<1> QED BY <1>4, <1>5, <1>6, <1>7, <1>8 DEF Transact

\* The rows a rebuild starts from are well typed.
LEMMA NoRowsType == NoRows \in [Items -> Row]
BY DEF NoRows, AbsentRow, Row, ProjectionStatuses

\* So does each step of rebuild_projection.
LEMMA RebuildType ==
  ASSUME TypeInv, Rebuild
  PROVE  StoreTypeOK' /\ ChainProjectable'
<1> DEFINE Rows == [Items -> Row]
<1>1. UNCHANGED <<events, bindings, programmeStatus>>
  BY DEF Rebuild, BeginRebuild, ReplayEvent, CommitRebuild, RollBackRebuild
<1>2. /\ events \in Seq(Event) /\ ChainProjectable
      /\ projections \in [Projects -> Rows]
      /\ rebuild \in [project : Projects \cup {None}, next : Nat \ {0}, rows : Rows]
  BY DEF TypeInv, TypeOK, StoreTypeOK
<1>3. NoRows \in Rows
  BY NoRowsType
<1> SUFFICES /\ projections' \in [Projects -> Rows]
             /\ rebuild' \in [project : Projects \cup {None}, next : Nat \ {0}, rows : Rows]
  BY <1>1 DEF TypeInv, TypeOK, StoreTypeOK, ChainProjectable
<1>4. ASSUME NEW p \in Maintained, BeginRebuild(p)
      PROVE  /\ projections' \in [Projects -> Rows]
             /\ rebuild' \in [project : Projects \cup {None}, next : Nat \ {0}, rows : Rows]
  <2> HIDE DEF Rows
  <2> QED BY <1>2, <1>3, <1>4, BoundsAssumption DEF BeginRebuild
<1>5. CASE ReplayEvent
  <2> DEFINE replayed == ApplyProjection(rebuild.rows, events[rebuild.next], rebuild.next)
  <2>1. rebuild.next \in DOMAIN events
    BY <1>2, <1>5 DEF ReplayEvent, ChainHead
  <2>2. events[rebuild.next] \in Event /\ Projectable(events[rebuild.next])
    BY <1>2, <2>1 DEF ChainProjectable
  <2>3. rebuild.rows \in Rows /\ rebuild.next \in Nat
    BY <1>2
  <2>4. replayed \in Rows
    BY <2>2, <2>3, ApplyProjectionType
  <2>5. /\ rebuild' = [rebuild EXCEPT !.next = rebuild.next + 1, !.rows = replayed]
        /\ projections' = projections
    BY <1>2, <1>5 DEF ReplayEvent
  <2>6. rebuild.next + 1 \in Nat \ {0}
    BY <1>2
  <2> HIDE DEF Rows, replayed
  <2> QED BY <1>2, <2>4, <2>5, <2>6
<1>6. CASE CommitRebuild
  <2> HIDE DEF Rows
  <2> QED BY <1>2, <1>3, <1>6 DEF CommitRebuild, LockFree, NoRebuild
<1>7. CASE RollBackRebuild
  <2> HIDE DEF Rows
  <2> QED BY <1>2, <1>3, <1>7 DEF RollBackRebuild, NoRebuild
<1> QED BY <1>4, <1>5, <1>6, <1>7 DEF Rebuild

\* The frame of every action that only moves its client.
LEMMA ClientStepType ==
  ASSUME TypeInv, NEW c \in Clients, UNCHANGED Tables,
         clients' \in [Clients -> Calls]
  PROVE  TypeInv'
BY DEF TypeInv, TypeOK, StoreTypeOK, ChainProjectable, Tables, store, Calls

\* Marking an assessment consumed changes nothing else of the table.
LEMMA ConsumeType ==
  ASSUME assessments \in Seq(Assessment), NEW a,
         assessments' = [assessments EXCEPT ![a].consumed = TRUE]
  PROVE  /\ assessments' \in Seq(Assessment)
         /\ DOMAIN assessments' = DOMAIN assessments
         /\ \A b \in DOMAIN assessments :
              assessments'[b] = IF b = a
                                THEN [assessments[b] EXCEPT !.consumed = TRUE]
                                ELSE assessments[b]
<1>1. DOMAIN assessments' = DOMAIN assessments /\ DOMAIN assessments = 1..Len(assessments)
  OBVIOUS
<1>2. \A b \in DOMAIN assessments :
        assessments'[b] = IF b = a THEN [assessments[b] EXCEPT !.consumed = TRUE]
                                   ELSE assessments[b]
  OBVIOUS
<1>3. \A b \in DOMAIN assessments : assessments[b] \in Assessment
  OBVIOUS
<1>4. ASSUME NEW x \in Assessment
      PROVE  [x EXCEPT !.consumed = TRUE] \in Assessment
  BY DEF Assessment
<1>5. assessments' \in Seq(Assessment)
  <2>1. CASE a \in 1..Len(assessments)
    BY <1>1, <1>3, <1>4, <2>1, ExceptSeq
  <2>2. CASE a \notin 1..Len(assessments)
    <3>1. assessments' = assessments
      BY <1>1, <2>2
    <3> QED BY <3>1
  <2> QED BY <2>1, <2>2
<1> QED BY <1>1, <1>2, <1>5

\* The empty store is well typed.
LEMMA InitType == Init => TypeInv
<1> SUFFICES ASSUME Init PROVE TypeInv
  OBVIOUS
<1>1. StoreTypeOK /\ ChainProjectable
  BY NoRowsType DEF Init, StoreInit, StoreTypeOK, ChainProjectable, NoRebuild, BindingStatuses
<1> QED BY <1>1 DEF Init, TypeInv, TypeOK, Idle

\* Every step keeps the types: one case per action of Next.
LEMMA NextType == TypeInv /\ [Next]_vars => TypeInv'
<1> SUFFICES ASSUME TypeInv, [Next]_vars PROVE TypeInv'
  OBVIOUS
<1>1. ASSUME NEW c \in Clients, NEW o \in Operations, StartAssess(c, o)
      PROVE  TypeInv'
  <2>1. [pc |-> "programme", call |-> "assess", operation |-> o, head |-> 0,
         at |-> now] \in Assessing
    BY DEF Assessing, TypeInv, TypeOK
  <2>2. clients' \in [Clients -> Calls]
    BY <1>1, <2>1 DEF StartAssess, TypeInv, TypeOK, Calls
  <2> QED BY <1>1, <2>2, ClientStepType DEF StartAssess
<1>2. ASSUME NEW c \in Clients, NEW a \in DOMAIN assessments, NEW h \in approvals,
             StartCommit(c, a, h)
      PROVE  TypeInv'
  <2>1. assessments[a] \in Assessment /\ a \in Nat /\ h \in Approval /\ now \in Nat
    BY DEF TypeInv, TypeOK
  <2>2. [pc |-> "checkHead", call |-> "commit",
         operation |-> assessments[a].operation,
         head |-> assessments[a].targetHead, at |-> now,
         assessment |-> a, approval |-> h] \in Committing
    BY <2>1 DEF Committing, Assessment
  <2>3. clients' \in [Clients -> Calls]
    BY <1>2, <2>2 DEF StartCommit, TypeInv, TypeOK, Calls
  <2> QED BY <1>2, <2>3, ClientStepType DEF StartCommit
<1>3. ASSUME NEW c \in Clients, Step(c)
      PROVE  TypeInv'
  <2> DEFINE k == clients[c]
  <2>0. k \in Calls /\ TypeOK
    BY DEF TypeInv, TypeOK, Calls
  <2>1. CASE CheckProgramme(c)
    <3>1. k.pc = "programme" /\ UNCHANGED Tables
      BY <2>1 DEF CheckProgramme, In
    <3>2. k \in Assessing \/ k \in Committing
      BY <2>0, <3>1, CallOf
    <3>3. Goto(c, "binding") \/ Return(c)
      BY <2>1 DEF CheckProgramme, Check
    <3>4. clients' \in [Clients -> Calls]
      BY <2>0, <3>2, <3>3, GotoType, ReturnType
    <3> QED BY <3>1, <3>4, ClientStepType
  <2>2. CASE CheckBinding(c)
    <3>1. k.pc = "binding" /\ UNCHANGED Tables
      BY <2>2 DEF CheckBinding, In
    <3>2. \/ k.call = "assess" /\ (Goto(c, "readHead") \/ Return(c))
          \/ k.call = "commit" /\ (Goto(c, "apply") \/ Return(c))
      BY <2>2 DEF CheckBinding, Check
    <3>3. clients' \in [Clients -> Calls]
      BY <2>0, <3>1, <3>2, CallOf, GotoType, ReturnType
    <3> QED BY <3>1, <3>3, ClientStepType
  <2>3. CASE ReadHead(c)
    <3>1. k \in Assessing
      BY <2>0, <2>3, CallOf DEF ReadHead, In
    <3>2. ChainHead \in Nat
      BY <2>0 DEF TypeOK, StoreTypeOK, ChainHead
    <3>3. [k EXCEPT !.pc = "save", !.head = ChainHead] \in Assessing
      BY <3>1, <3>2 DEF Assessing
    <3>4. clients' = [clients EXCEPT ![c] = [k EXCEPT !.pc = "save", !.head = ChainHead]]
      BY <2>3 DEF ReadHead
    <3>5. clients' \in [Clients -> Calls]
      BY <2>0, <3>3, <3>4 DEF TypeOK, Calls
    <3> QED BY <2>3, <3>5, ClientStepType DEF ReadHead
  <2>4. CASE SaveAssessment(c)
    <3>1. k \in Assessing
      BY <2>0, <2>4, CallOf DEF SaveAssessment, In
    <3>2. k.operation \in Operations /\ k.head \in Nat /\ k.at \in Nat
      BY <3>1 DEF Assessing
    <3>3. assessments' \in Seq(Assessment)
      <4> DEFINE a == [operation  |-> k.operation,
                       status     |-> IF Allowed(k.operation, k.head, k.at)
                                      THEN "allow" ELSE "deny",
                       targetHead |-> k.head,
                       assessedAt |-> k.at,
                       consumed   |-> FALSE]
      <4>1. a \in Assessment
        BY <3>2 DEF Assessment
      <4>2. assessments' = Append(assessments, a)
        BY <2>4 DEF SaveAssessment
      <4> HIDE DEF a
      <4> QED BY <2>0, <4>1, <4>2 DEF TypeOK
    <3>4. clients' \in [Clients -> Calls]
      BY <2>0, <2>4, ReturnType DEF SaveAssessment
    <3> QED BY <2>4, <3>3, <3>4
            DEF SaveAssessment, TypeInv, TypeOK, StoreTypeOK, ChainProjectable, store, Calls
  <2>5. CASE CheckHead(c)
    <3>1. k \in Committing
      BY <2>0, <2>5, CallOf DEF CheckHead, In
    <3>2. Goto(c, "programme") \/ Return(c)
      BY <2>5 DEF CheckHead, Check
    <3>3. clients' \in [Clients -> Calls]
      BY <2>0, <3>1, <3>2, GotoType, ReturnType
    <3> QED BY <2>5, <3>3, ClientStepType DEF CheckHead
  <2>6. CASE Apply(c)
    <3>1. k \in Committing
      BY <2>0, <2>6, CallOf DEF Apply, In
    <3>2. clients' \in [Clients -> Calls]
      BY <2>0, <2>6, <3>1, GotoType DEF Apply
    <3>3. StoreTypeOK' /\ ChainProjectable'
      BY <2>6, ApplyType DEF Apply
    <3> QED BY <2>6, <3>2, <3>3 DEF Apply, TypeInv, TypeOK, Calls
  <2>7. CASE ApplyFails(c)
    BY <2>0, <2>7, ReturnType, ClientStepType DEF ApplyFails
  <2>8. CASE Consume(c)
    <3>1. assessments' \in Seq(Assessment)
      BY <2>0, <2>8, ConsumeType DEF TypeOK, Consume
    <3>2. clients' \in [Clients -> Calls]
      BY <2>0, <2>8, ReturnType DEF Consume
    <3> QED BY <2>8, <3>1, <3>2
            DEF Consume, TypeInv, TypeOK, StoreTypeOK, ChainProjectable, store, Calls
  <2>9. CASE LockTimeout(c)
    BY <2>0, <2>9, ReturnType, ClientStepType DEF LockTimeout
  <2> QED BY <1>3, <2>1, <2>2, <2>3, <2>4, <2>5, <2>6, <2>7, <2>8, <2>9 DEF Step
<1>4. ASSUME NEW c \in Clients, Crash(c)
      PROVE  TypeInv'
  BY <1>4, ReturnType, ClientStepType DEF Crash, TypeInv
<1>5. ASSUME NEW a \in DOMAIN assessments, NEW d \in Decisions, Decide(a, d)
      PROVE  TypeInv'
  <2>1. [assessment |-> a, disposition |-> d, approvedAt |-> now] \in Approval
    BY BoundsAssumption DEF Approval, TypeInv, TypeOK
  <2> QED BY <1>5, <2>1
          DEF Decide, TypeInv, TypeOK, StoreTypeOK, ChainProjectable, store
<1>6. CASE Rebuild
  BY <1>6, RebuildType DEF Rebuild, TypeInv, TypeOK
<1>7. CASE Tick
  BY <1>7 DEF Tick, TypeInv, TypeOK, StoreTypeOK, ChainProjectable, store
<1>8. CASE UNCHANGED vars
  BY <1>8 DEF vars, TypeInv, TypeOK, StoreTypeOK, ChainProjectable, store
<1> QED BY <1>1, <1>2, <1>3, <1>4, <1>5, <1>6, <1>7, <1>8 DEF Next, Start, Review

\* Whatever clients, crashes, rebuilds and retries do, the store's tables, the
\* assessments and the calls in progress keep their types, and the chain holds
\* only events that rebuild_projection can replay without raising.
THEOREM TypeCorrect == Spec => []TypeOK
<1>1. TypeInv => TypeOK
  BY DEF TypeInv
<1> QED BY InitType, NextType, <1>1, PTL DEF Spec

\* However the chain came about, rebuild_projection can replay each of its events
\* without raising.
THEOREM ChainReplayable == Spec => []ChainProjectable
<1>1. TypeInv => ChainProjectable
  BY DEF TypeInv
<1> QED BY InitType, NextType, <1>1, PTL DEF Spec

-----------------------------------------------------------------------------
(* Safety.  The tables only grow: what a client or an event relies on is     *)
(* never taken away.                                                         *)

\* What commit_operation found at its start stays true until its last transaction:
\* the assessment it read, the approval it validated, and, once it is about to
\* consume, its recorded event.  (The head and the binding do not: see below.)
CommitSound(call) ==
  /\ call.assessment \in DOMAIN assessments
  /\ LET a == assessments[call.assessment]
     IN  /\ a.operation = call.operation
         /\ a.status = "allow"
         /\ a.targetHead = call.head
         /\ call.at <= a.assessedAt + TTL
         /\ a.assessedAt <= call.approval.approvedAt
  /\ call.approval \in approvals
  /\ call.approval.assessment = call.assessment
  /\ call.approval.disposition = "approved"
  /\ call.approval.approvedAt <= call.at
  /\ call.pc = "consume" => Recorded(call.operation.id)

CommitsSound ==
  \A c \in Clients : clients[c] \in Committing => CommitSound(clients[c])

SafetyInv ==
  /\ TypeInv
  /\ CommitsSound
  /\ EventsAuthorised
  /\ AppliedOnce
  /\ ConsumedIsRecorded

\* What every step leaves of the assessments, the approvals and the chain.
Grows ==
  /\ \A a \in DOMAIN assessments :
       /\ a \in DOMAIN assessments'
       /\ assessments'[a].operation = assessments[a].operation
       /\ assessments'[a].status = assessments[a].status
       /\ assessments'[a].targetHead = assessments[a].targetHead
       /\ assessments'[a].assessedAt = assessments[a].assessedAt
  /\ approvals \subseteq approvals'
  /\ \A i \in DOMAIN events : i \in DOMAIN events' /\ events'[i] = events[i]

\* A client's call after a step: the same call, not yet past its store
\* transaction unless it was, or one that is sound by itself.
CallsProceed ==
  \A c \in Clients : clients'[c] \in Committing =>
    \/ CommitSound(clients[c])'
    \/ /\ clients[c] \in Committing
       /\ clients'[c].assessment = clients[c].assessment
       /\ clients'[c].approval = clients[c].approval
       /\ clients'[c].operation = clients[c].operation
       /\ clients'[c].head = clients[c].head
       /\ clients'[c].at = clients[c].at
       /\ clients'[c].pc = "consume" => clients[c].pc = "consume"

\* An operation in the chain stays there: events are only appended.
LEMMA RecordedGrows ==
  ASSUME Grows, NEW o, Recorded(o)
  PROVE  Recorded(o)'
BY DEF Grows, Recorded

\* What the open calls rely on survives a step that only lets the tables grow.
LEMMA SoundGrows ==
  ASSUME SafetyInv, Grows, CallsProceed
  PROVE  CommitsSound'
<1> SUFFICES ASSUME NEW c \in Clients, (clients[c] \in Committing)'
             PROVE  CommitSound(clients[c])'
  BY DEF CommitsSound
<1>1. CASE CommitSound(clients[c])'
  BY <1>1
<1>2. CASE /\ clients[c] \in Committing
           /\ clients'[c].assessment = clients[c].assessment
           /\ clients'[c].approval = clients[c].approval
           /\ clients'[c].operation = clients[c].operation
           /\ clients'[c].head = clients[c].head
           /\ clients'[c].at = clients[c].at
           /\ clients'[c].pc = "consume" => clients[c].pc = "consume"
  <2>1. CommitSound(clients[c])
    BY <1>2 DEF SafetyInv, CommitsSound
  <2>2. clients'[c].pc = "consume" => Recorded(clients[c].operation.id)'
    BY <1>2, <2>1, RecordedGrows DEF CommitSound
  <2> QED BY <1>2, <2>1, <2>2 DEF CommitSound, Grows, Recorded
<1> QED BY <1>1, <1>2 DEF CallsProceed

\* An authorised event stays authorised: assessments and approvals are never taken
\* back.
LEMMA AuthorisedGrows ==
  ASSUME Grows, NEW e, Authorised(e)
  PROVE  Authorised(e)'
BY DEF Grows, Authorised

\* A step that neither appends an event nor marks an assessment.
LEMMA QuietStep ==
  ASSUME SafetyInv, TypeInv', Grows, CallsProceed, UNCHANGED events,
         \A a \in DOMAIN assessments' :
           assessments'[a].consumed => a \in DOMAIN assessments /\ assessments[a].consumed
  PROVE  SafetyInv'
<1>1. CommitsSound'
  BY SoundGrows
<1>2. EventsAuthorised'
  BY AuthorisedGrows DEF SafetyInv, EventsAuthorised
<1>3. AppliedOnce'
  BY DEF SafetyInv, AppliedOnce
<1>4. ConsumedIsRecorded'
  BY DEF SafetyInv, ConsumedIsRecorded, Grows, Recorded
<1> QED BY <1>1, <1>2, <1>3, <1>4 DEF SafetyInv

\* A client that starts, moves or ends; everyone else stays put.
LEMMA OthersStay ==
  ASSUME TypeOK, NEW c \in Clients, NEW k, clients' = [clients EXCEPT ![c] = k]
  PROVE  /\ clients'[c] = k
         /\ \A d \in Clients : d # c => clients'[d] = clients[d]
BY DEF TypeOK

\* A client that returns holds no call any more.
LEMMA ReturnProceeds ==
  ASSUME TypeOK, NEW c \in Clients, Return(c)
  PROVE  CallsProceed
<1>1. Idle \notin Committing
  BY DEF Idle, Committing
<1>2. clients'[c] = Idle /\ \A d \in Clients : d # c => clients'[d] = clients[d]
  BY OthersStay DEF Return
<1> QED BY <1>1, <1>2 DEF CallsProceed

\* A client that moves on keeps the call it is in.
LEMMA GotoProceeds ==
  ASSUME TypeOK, NEW c \in Clients, NEW pc, Goto(c, pc), pc # "consume",
         clients[c] \in Assessing \cup Committing
  PROVE  CallsProceed
<1>1. clients'[c] = [clients[c] EXCEPT !.pc = pc]
  BY DEF Goto, TypeOK
<1>2. \A d \in Clients : d # c => clients'[d] = clients[d]
  BY DEF Goto, TypeOK
<1>3. CASE clients[c] \in Assessing
  <2>1. clients'[c] \notin Committing
    BY <1>1, <1>3 DEF Assessing, Committing
  <2> QED BY <1>2, <2>1 DEF CallsProceed
<1>4. CASE clients[c] \in Committing
  <2>1. /\ clients'[c].assessment = clients[c].assessment
        /\ clients'[c].approval = clients[c].approval
        /\ clients'[c].operation = clients[c].operation
        /\ clients'[c].head = clients[c].head
        /\ clients'[c].at = clients[c].at
        /\ clients'[c].pc = pc
    BY <1>1, <1>4 DEF Committing
  <2> QED BY <1>2, <1>4, <2>1 DEF CallsProceed
<1> QED BY <1>3, <1>4

\* So does everyone when no client moves.
LEMMA StayProceeds ==
  ASSUME UNCHANGED clients
  PROVE  CallsProceed
BY DEF CallsProceed

\* Tables that do not change grow, trivially.
LEMMA TablesStay ==
  ASSUME UNCHANGED Tables
  PROVE  /\ Grows /\ UNCHANGED events
         /\ \A a \in DOMAIN assessments' :
              assessments'[a].consumed => a \in DOMAIN assessments /\ assessments[a].consumed
BY DEF Tables, store, Grows

\* The empty store is safe.
LEMMA InitSafety == Init => SafetyInv
<1> SUFFICES ASSUME Init PROVE SafetyInv
  OBVIOUS
<1>1. TypeInv
  BY InitType
<1>2. \A c \in Clients : clients[c] \notin Committing
  BY DEF Init, Idle, Committing
<1>3. DOMAIN events = {} /\ DOMAIN assessments = {}
  BY DEF Init, StoreInit
<1> QED BY <1>1, <1>2, <1>3
        DEF SafetyInv, CommitsSound, EventsAuthorised, AppliedOnce, ConsumedIsRecorded

\* A step that appends the event of a sound commit: commit_operation's
\* transaction, whichever of the four it is.
LEMMA AppendStep ==
  ASSUME SafetyInv, NEW k \in Committing, CommitSound(k),
         ~Recorded(k.operation.id), events' = Append(events, EventOf(k)),
         UNCHANGED <<assessments, approvals>>
  PROVE  /\ Grows
         /\ EventsAuthorised' /\ AppliedOnce' /\ ConsumedIsRecorded'
         /\ Recorded(k.operation.id)'
<1> DEFINE e == EventOf(k)
           n == Len(events) + 1
<1>1. events \in Seq(Event) /\ e \in Event
  BY EventOfType DEF SafetyInv, TypeInv, TypeOK, StoreTypeOK
<1>2. /\ e.operation = k.operation.id
      /\ e.project = k.operation.project
      /\ e.assessment = k.assessment
      /\ e.committedAt = k.at
  BY DEF EventOf
<1> HIDE DEF e
<1>3. /\ events'[n] = e /\ n \in DOMAIN events'
      /\ \A i \in DOMAIN events : i \in DOMAIN events' /\ events'[i] = events[i]
      /\ \A i \in DOMAIN events' : i \in DOMAIN events \/ i = n
  <2>1. events' = Append(events, e)
    BY DEF e
  <2>2. Len(events') = n /\ n \in Nat /\ events' \in Seq(Event)
    BY <1>1, <2>1, AppendEntries
  <2>3. n \in DOMAIN events'
    BY <2>2
  <2> QED BY <1>1, <2>1, <2>3, AppendEntries
<1> HIDE DEF n
<1>4. Grows
  BY <1>3 DEF Grows
<1>5. Authorised(e)'
  BY <1>2 DEF CommitSound, Authorised
<1>6. EventsAuthorised'
  BY <1>3, <1>4, <1>5, AuthorisedGrows DEF SafetyInv, EventsAuthorised
<1>7. \A i \in DOMAIN events : events[i].operation # e.operation
  BY <1>2 DEF Recorded
<1>8. AppliedOnce'
  BY <1>3, <1>7 DEF SafetyInv, AppliedOnce
<1>9. ConsumedIsRecorded'
  BY <1>4, RecordedGrows DEF SafetyInv, ConsumedIsRecorded
<1>10. Recorded(k.operation.id)'
  BY <1>2, <1>3 DEF Recorded
<1> QED BY <1>4, <1>6, <1>8, <1>9, <1>10

\* The transaction that appends the event keeps the chain safe: what StartCommit and
\* CheckHead found is still true in it.
LEMMA ApplySafety ==
  ASSUME SafetyInv, TypeInv', NEW c \in Clients, Apply(c)
  PROVE  SafetyInv'
<1>0. TypeOK /\ UNCHANGED <<assessments, approvals>>
  BY DEF SafetyInv, TypeInv, Apply
<1>1. PICK k \in Committing : k = clients[c] /\ k.pc = "apply"
  BY <1>0, CallOf DEF Apply, In, TypeOK, Calls
<1>2. CommitSound(k)
  BY <1>1 DEF SafetyInv, CommitsSound
<1>3. \/ events' = Append(events, EventOf(k)) /\ ~Recorded(k.operation.id)
      \/ UNCHANGED events /\ Recorded(k.operation.id)
  <2>1. EventOf(k).operation = k.operation.id
    BY DEF EventOf
  <2> QED BY <1>1, <2>1 DEF Apply, Transact, RegisterBinding, TransitionBinding,
                            CloseProgramme, AppendEvent, ReturnRecorded, store
<1>4. /\ Grows
      /\ EventsAuthorised' /\ AppliedOnce' /\ ConsumedIsRecorded'
      /\ Recorded(k.operation.id)'
  <2>1. CASE events' = Append(events, EventOf(k)) /\ ~Recorded(k.operation.id)
    BY <1>0, <1>2, <2>1, AppendStep
  <2>2. CASE UNCHANGED events /\ Recorded(k.operation.id)
    <3>1. Grows
      BY <1>0, <2>2 DEF Grows
    <3>2. EventsAuthorised' /\ AppliedOnce'
      BY <2>2, <3>1, AuthorisedGrows DEF SafetyInv, EventsAuthorised, AppliedOnce
    <3>3. ConsumedIsRecorded' /\ Recorded(k.operation.id)'
      BY <1>0, <2>2 DEF SafetyInv, ConsumedIsRecorded, Recorded
    <3> QED BY <3>1, <3>2, <3>3
  <2> QED BY <1>3, <2>1, <2>2
<1>5. /\ clients'[c] = [k EXCEPT !.pc = "consume"]
      /\ \A d \in Clients : d # c => clients'[d] = clients[d]
  BY <1>0, <1>1 DEF Apply, Goto, TypeOK
<1>6. CommitSound(clients[c])'
  <2>1. /\ clients'[c].assessment = k.assessment
        /\ clients'[c].approval = k.approval
        /\ clients'[c].operation = k.operation
        /\ clients'[c].head = k.head
        /\ clients'[c].at = k.at
    BY <1>5 DEF Committing
  <2> QED BY <1>0, <1>2, <1>4, <2>1 DEF CommitSound, Recorded
<1>7. CallsProceed
  BY <1>5, <1>6 DEF CallsProceed
<1> QED BY <1>4, <1>7, SoundGrows DEF SafetyInv

\* An assessment is marked consumed only after its event is in the chain.
LEMMA ConsumeSafety ==
  ASSUME SafetyInv, TypeInv', NEW c \in Clients, Consume(c)
  PROVE  SafetyInv'
<1> DEFINE k == clients[c]
<1>0. TypeOK /\ UNCHANGED <<events, approvals>>
  BY DEF SafetyInv, TypeInv, Consume, store
<1>1. k \in Committing /\ k.pc = "consume"
  BY <1>0, CallOf DEF Consume, In, TypeOK, Calls
<1>2. CommitSound(k)
  BY <1>1 DEF SafetyInv, CommitsSound
<1>3. /\ DOMAIN assessments' = DOMAIN assessments
      /\ \A b \in DOMAIN assessments :
           assessments'[b] = IF b = k.assessment
                             THEN [assessments[b] EXCEPT !.consumed = TRUE]
                             ELSE assessments[b]
  BY <1>0, ConsumeType DEF Consume, TypeOK
<1>4. \A b \in DOMAIN assessments :
        /\ assessments'[b].operation = assessments[b].operation
        /\ assessments'[b].status = assessments[b].status
        /\ assessments'[b].targetHead = assessments[b].targetHead
        /\ assessments'[b].assessedAt = assessments[b].assessedAt
        /\ b # k.assessment => assessments'[b].consumed = assessments[b].consumed
  <2>1. \A b \in DOMAIN assessments : assessments[b] \in Assessment
    BY <1>0 DEF TypeOK
  <2> QED BY <1>3, <2>1 DEF Assessment
<1>5. Grows
  BY <1>0, <1>3, <1>4 DEF Grows
<1>6. CallsProceed
  BY <1>0, ReturnProceeds DEF Consume
<1>7. EventsAuthorised'
  BY <1>0, <1>5, AuthorisedGrows DEF SafetyInv, EventsAuthorised
<1>8. AppliedOnce'
  BY <1>0 DEF SafetyInv, AppliedOnce
<1>9. ConsumedIsRecorded'
  <2> SUFFICES ASSUME NEW b \in DOMAIN assessments', assessments'[b].consumed
               PROVE  Recorded(assessments[b].operation.id)'
    BY DEF ConsumedIsRecorded
  <2>1. Recorded(assessments[b].operation.id)
    <3>1. CASE b = k.assessment
      BY <1>1, <1>2, <3>1 DEF CommitSound
    <3>2. CASE b # k.assessment
      BY <1>3, <1>4, <3>2 DEF SafetyInv, ConsumedIsRecorded
    <3> QED BY <3>1, <3>2
  <2> QED BY <1>0, <1>3, <1>4, <2>1 DEF Recorded
<1> QED BY <1>5, <1>6, <1>7, <1>8, <1>9, SoundGrows DEF SafetyInv

\* commit_operation's first checks establish what the later steps rely on.
LEMMA StartCommitSafety ==
  ASSUME SafetyInv, TypeInv', NEW c \in Clients, NEW a \in DOMAIN assessments,
         NEW h \in approvals, StartCommit(c, a, h)
  PROVE  SafetyInv'
<1>0. TypeOK /\ UNCHANGED Tables
  BY DEF SafetyInv, TypeInv, StartCommit
<1> DEFINE k == [pc |-> "checkHead", call |-> "commit",
                 operation |-> assessments[a].operation,
                 head |-> assessments[a].targetHead, at |-> now,
                 assessment |-> a, approval |-> h]
<1>1. clients'[c] = k /\ \A d \in Clients : d # c => clients'[d] = clients[d]
  BY <1>0, OthersStay DEF StartCommit
<1>2. CommitSound(k)
  BY <1>0 DEF StartCommit, Current, ValidApproval, CommitSound
<1>3. UNCHANGED <<assessments, approvals>>
  BY <1>0 DEF Tables
<1>4. CommitSound(clients[c])'
  BY <1>1, <1>2, <1>3 DEF CommitSound
<1>5. CallsProceed
  BY <1>1, <1>4 DEF CallsProceed
<1> QED BY <1>0, <1>5, TablesStay, QuietStep

\* A step of a client that writes no table.
LEMMA CheckSafety ==
  ASSUME SafetyInv, TypeInv', UNCHANGED Tables, CallsProceed
  PROVE  SafetyInv'
BY TablesStay, QuietStep

\* A new assessment disturbs no older one.
LEMMA SaveSafety ==
  ASSUME SafetyInv, TypeInv', NEW c \in Clients, SaveAssessment(c)
  PROVE  SafetyInv'
<1>0. TypeOK /\ UNCHANGED <<events, approvals>>
  BY DEF SafetyInv, TypeInv, SaveAssessment, store
<1>1. clients[c] \in Assessing
  BY <1>0, CallOf DEF SaveAssessment, In, TypeOK, Calls
<1>2. PICK x \in Assessment : assessments' = Append(assessments, x) /\ ~x.consumed
  <2> DEFINE k == clients[c]
             y == [operation  |-> k.operation,
                   status     |-> IF Allowed(k.operation, k.head, k.at)
                                  THEN "allow" ELSE "deny",
                   targetHead |-> k.head,
                   assessedAt |-> k.at,
                   consumed   |-> FALSE]
  <2>1. y \in Assessment /\ ~y.consumed
    BY <1>1 DEF Assessment, Assessing
  <2>2. assessments' = Append(assessments, y)
    BY DEF SaveAssessment
  <2> HIDE DEF y
  <2> QED BY <2>1, <2>2
<1>3. /\ assessments'[Len(assessments) + 1] = x
      /\ \A b \in DOMAIN assessments :
           b \in DOMAIN assessments' /\ assessments'[b] = assessments[b]
      /\ \A b \in DOMAIN assessments' :
           b \in DOMAIN assessments \/ b = Len(assessments) + 1
  BY <1>0, <1>2, AppendEntries DEF TypeOK
<1>4. Grows
  BY <1>0, <1>3 DEF Grows
<1>5. \A b \in DOMAIN assessments' :
        assessments'[b].consumed => b \in DOMAIN assessments /\ assessments[b].consumed
  BY <1>2, <1>3
<1>6. CallsProceed
  BY <1>0, ReturnProceeds DEF SaveAssessment
<1> QED BY <1>0, <1>4, <1>5, <1>6, QuietStep

\* Every step keeps the safety invariant: one case per action of Next.
LEMMA NextSafety == SafetyInv /\ [Next]_vars => SafetyInv'
<1> SUFFICES ASSUME SafetyInv, [Next]_vars PROVE SafetyInv'
  OBVIOUS
<1>0. TypeOK /\ TypeInv'
  BY NextType DEF SafetyInv, TypeInv
<1>1. ASSUME NEW c \in Clients, NEW o \in Operations, StartAssess(c, o)
      PROVE  SafetyInv'
  <2> DEFINE k == [pc |-> "programme", call |-> "assess", operation |-> o,
                   head |-> 0, at |-> now]
  <2>1. clients'[c] = k /\ \A d \in Clients : d # c => clients'[d] = clients[d]
    BY <1>0, <1>1, OthersStay DEF StartAssess
  <2>2. k \notin Committing
    BY DEF Committing
  <2>3. CallsProceed
    BY <2>1, <2>2 DEF CallsProceed
  <2> QED BY <1>0, <1>1, <2>3, CheckSafety DEF StartAssess
<1>2. ASSUME NEW c \in Clients, NEW a \in DOMAIN assessments, NEW h \in approvals,
             StartCommit(c, a, h)
      PROVE  SafetyInv'
  BY <1>0, <1>2, StartCommitSafety
<1>3. ASSUME NEW c \in Clients, Step(c)
      PROVE  SafetyInv'
  <2>0. clients[c] \in Calls
    BY <1>0 DEF TypeOK, Calls
  <2>1. CASE CheckProgramme(c)
    <3>1. Goto(c, "binding") \/ Return(c)
      BY <2>1 DEF CheckProgramme, Check
    <3>2. clients[c] \in Assessing \cup Committing
      BY <2>0, <2>1, CallOf DEF CheckProgramme, In
    <3>3. CallsProceed
      BY <1>0, <3>1, <3>2, GotoProceeds, ReturnProceeds
    <3> QED BY <1>0, <2>1, <3>3, CheckSafety DEF CheckProgramme
  <2>2. CASE CheckBinding(c)
    <3>1. Goto(c, "readHead") \/ Goto(c, "apply") \/ Return(c)
      BY <2>2 DEF CheckBinding, Check
    <3>2. clients[c] \in Assessing \cup Committing
      BY <2>0, <2>2, CallOf DEF CheckBinding, In
    <3>3. CallsProceed
      BY <1>0, <3>1, <3>2, GotoProceeds, ReturnProceeds
    <3> QED BY <1>0, <2>2, <3>3, CheckSafety DEF CheckBinding
  <2>3. CASE ReadHead(c)
    <3>1. clients[c] \in Assessing
      BY <2>0, <2>3, CallOf DEF ReadHead, In
    <3> DEFINE k == [clients[c] EXCEPT !.pc = "save", !.head = ChainHead]
    <3>2. clients'[c] = k /\ \A d \in Clients : d # c => clients'[d] = clients[d]
      BY <1>0, <2>3 DEF ReadHead, TypeOK
    <3>3. k \notin Committing
      BY <3>1 DEF Assessing, Committing
    <3>4. CallsProceed
      BY <3>2, <3>3 DEF CallsProceed
    <3> QED BY <1>0, <2>3, <3>4, CheckSafety DEF ReadHead
  <2>4. CASE SaveAssessment(c)
    BY <1>0, <2>4, SaveSafety
  <2>5. CASE CheckHead(c)
    <3>1. Goto(c, "programme") \/ Return(c)
      BY <2>5 DEF CheckHead, Check
    <3>2. clients[c] \in Assessing \cup Committing
      BY <2>0, <2>5, CallOf DEF CheckHead, In
    <3>3. CallsProceed
      BY <1>0, <3>1, <3>2, GotoProceeds, ReturnProceeds
    <3> QED BY <1>0, <2>5, <3>3, CheckSafety DEF CheckHead
  <2>6. CASE Apply(c)
    BY <1>0, <2>6, ApplySafety
  <2>7. CASE ApplyFails(c)
    BY <1>0, <2>7, ReturnProceeds, CheckSafety DEF ApplyFails
  <2>8. CASE Consume(c)
    BY <1>0, <2>8, ConsumeSafety
  <2>9. CASE LockTimeout(c)
    BY <1>0, <2>9, ReturnProceeds, CheckSafety DEF LockTimeout
  <2> QED BY <1>3, <2>1, <2>2, <2>3, <2>4, <2>5, <2>6, <2>7, <2>8, <2>9 DEF Step
<1>4. ASSUME NEW c \in Clients, Crash(c)
      PROVE  SafetyInv'
  BY <1>0, <1>4, ReturnProceeds, CheckSafety DEF Crash
<1>5. ASSUME NEW a \in DOMAIN assessments, NEW d \in Decisions, Decide(a, d)
      PROVE  SafetyInv'
  <2>1. CallsProceed
    BY <1>5, StayProceeds DEF Decide
  <2>2. UNCHANGED <<events, assessments>> /\ approvals \subseteq approvals'
    BY <1>5 DEF Decide, store
  <2>3. Grows
    BY <2>2 DEF Grows
  <2> QED BY <1>0, <2>1, <2>2, <2>3, QuietStep
<1>6. CASE Rebuild \/ Tick \/ UNCHANGED vars
  <2>1. UNCHANGED <<events, assessments, approvals, clients>>
    BY <1>6 DEF Rebuild, BeginRebuild, ReplayEvent, CommitRebuild, RollBackRebuild,
                Tick, vars, store
  <2>2. Grows
    BY <2>1 DEF Grows
  <2>3. CallsProceed
    BY <2>1, StayProceeds
  <2> QED BY <1>0, <2>1, <2>2, <2>3, QuietStep
<1> QED BY <1>1, <1>2, <1>3, <1>4, <1>5, <1>6 DEF Next, Start, Review

\* The safety invariant holds in every state of every behaviour.
LEMMA Safety == Spec => []SafetyInv
  BY InitSafety, NextSafety, PTL DEF Spec

\* Nothing enters the chain without an assessment that allowed it and an approval
\* in its window, whatever head it is appended at (commit_operation).
THEOREM AlwaysAuthorised == Spec => []EventsAuthorised
<1>1. SafetyInv => EventsAuthorised
  BY DEF SafetyInv
<1> QED BY Safety, <1>1, PTL

\* No operation has two events, however often its commit is retried (append_event).
THEOREM AlwaysAppliedOnce == Spec => []AppliedOnce
<1>1. SafetyInv => AppliedOnce
  BY DEF SafetyInv
<1> QED BY Safety, <1>1, PTL

\* A consumed assessment's operation is in the chain (consume_assessment comes
\* after the transaction).
THEOREM AlwaysRecorded == Spec => []ConsumedIsRecorded
<1>1. SafetyInv => ConsumedIsRecorded
  BY DEF SafetyInv
<1> QED BY Safety, <1>1, PTL

\* Every step lets the tables grow: nothing an event or a call rests on is taken away.
LEMMA NextGrows ==
  ASSUME SafetyInv, [Next]_vars
  PROVE  Grows
<1>0. TypeOK
  BY DEF SafetyInv, TypeInv
<1>1. ASSUME NEW c \in Clients, SaveAssessment(c)
      PROVE  Grows
  <2>1. PICK x : assessments' = Append(assessments, x)
    BY <1>1 DEF SaveAssessment
  <2>2. Len(assessments) \in Nat /\ DOMAIN assessments = 1..Len(assessments)
    BY <1>0 DEF TypeOK
  <2>3. \A b \in DOMAIN assessments :
          b \in DOMAIN assessments' /\ assessments'[b] = assessments[b]
    BY <1>0, <2>1, <2>2 DEF TypeOK
  <2>4. UNCHANGED <<events, approvals>>
    BY <1>1 DEF SaveAssessment, store
  <2> QED BY <2>3, <2>4 DEF Grows
<1>2. ASSUME NEW c \in Clients, Apply(c)
      PROVE  Grows
  <2>1. UNCHANGED <<assessments, approvals>>
    BY <1>2 DEF Apply
  <2>2. PICK k \in Committing : k = clients[c] /\ k.pc = "apply"
    BY <1>0, <1>2, CallOf DEF Apply, In, TypeOK, Calls
  <2>3. UNCHANGED events \/ events' = Append(events, EventOf(k))
    BY <1>2, <2>2 DEF Apply, Transact, RegisterBinding, TransitionBinding,
                      CloseProgramme, AppendEvent, ReturnRecorded, store
  <2>4. EventOf(k) \in Event /\ events \in Seq(Event)
    BY <1>0, EventOfType DEF TypeOK, StoreTypeOK
  <2>5. \A i \in DOMAIN events : i \in DOMAIN events' /\ events'[i] = events[i]
    BY <2>3, <2>4, AppendEntries
  <2> QED BY <2>1, <2>5 DEF Grows
<1>3. ASSUME NEW c \in Clients, Consume(c)
      PROVE  Grows
  <2>1. \A b \in DOMAIN assessments :
          /\ b \in DOMAIN assessments'
          /\ assessments'[b] = IF b = clients[c].assessment
                               THEN [assessments[b] EXCEPT !.consumed = TRUE]
                               ELSE assessments[b]
    BY <1>0, <1>3, ConsumeType DEF Consume, TypeOK
  <2>2. \A b \in DOMAIN assessments : assessments[b] \in Assessment
    BY <1>0 DEF TypeOK
  <2>3. UNCHANGED <<events, approvals>>
    BY <1>3 DEF Consume, store
  <2> QED BY <2>1, <2>2, <2>3 DEF Grows, Assessment
<1>4. ASSUME NEW c \in Clients, NEW o \in Operations, StartAssess(c, o)
      PROVE  UNCHANGED Tables
  BY <1>4 DEF StartAssess
<1>5. ASSUME NEW c \in Clients,
             \/ \E a \in DOMAIN assessments, h \in approvals : StartCommit(c, a, h)
             \/ CheckProgramme(c) \/ CheckBinding(c) \/ ReadHead(c) \/ CheckHead(c)
             \/ ApplyFails(c) \/ LockTimeout(c) \/ Crash(c)
      PROVE  UNCHANGED Tables
  BY <1>5 DEF StartCommit, CheckProgramme, CheckBinding, ReadHead, CheckHead,
              ApplyFails, LockTimeout, Crash
<1>6. UNCHANGED Tables => Grows
  BY TablesStay
<1>7. ASSUME Review \/ Rebuild \/ Tick \/ UNCHANGED vars
      PROVE  Grows
  BY <1>7 DEF Review, Decide, Rebuild, BeginRebuild, ReplayEvent, CommitRebuild,
              RollBackRebuild, Tick, vars, store, Grows
<1> QED BY <1>1, <1>2, <1>3, <1>4, <1>5, <1>6, <1>7 DEF Next, Start, Step

-----------------------------------------------------------------------------
(* The service implements ApprovedLedger.  An approval adds its operation to *)
(* the approved ones, the transaction of a sound commit records one, and     *)
(* every other step stutters.                                                *)

\* A reviewer decides about assessments that exist.
ApprovalsPlaced == \A h \in approvals : h.assessment \in DOMAIN assessments

LedgerInv == SafetyInv /\ ApprovalsPlaced

Ledger == [i \in DOMAIN events |-> events[i].operation]

\* What is approved depends on the approvals and on the assessments they name.
LEMMA ApprovedStays ==
  ASSUME LedgerInv, Grows, UNCHANGED approvals
  PROVE  UNCHANGED ApprovedOperations
<1>1. ASSUME NEW h \in approvals
      PROVE  /\ assessments'[h.assessment].operation = assessments[h.assessment].operation
             /\ assessments'[h.assessment].status = assessments[h.assessment].status
  BY DEF LedgerInv, ApprovalsPlaced, Grows
<1> QED BY <1>1 DEF ApprovedOperations

\* A step that appends no event, and under which the tables grow, stutters.
LEMMA LedgerStays ==
  ASSUME LedgerInv, Grows, UNCHANGED <<events, approvals>>
  PROVE  ApprovalsPlaced' /\ UNCHANGED <<ApprovedOperations, Ledger>>
BY ApprovedStays DEF LedgerInv, ApprovalsPlaced, Grows, Ledger

\* A decision approves at most the operation that was assessed.
LEMMA DecideApproves ==
  ASSUME LedgerInv, NEW a \in DOMAIN assessments, NEW d \in Decisions, Decide(a, d)
  PROVE  /\ ApprovalsPlaced' /\ UNCHANGED Ledger
         /\ \/ UNCHANGED ApprovedOperations
            \/ ApprovedOperations' =
                 ApprovedOperations \cup {assessments[a].operation.id}
<1> DEFINE h == [assessment |-> a, disposition |-> d, approvedAt |-> now]
           Counts(x) == /\ x.disposition = "approved"
                        /\ assessments[x.assessment].status = "allow"
           Of(x) == assessments[x.assessment].operation.id
<1>1. /\ approvals' = approvals \cup {h}
      /\ UNCHANGED <<assessments, events>>
  BY DEF Decide, store
<1>2. h.assessment = a
  OBVIOUS
<1>3. /\ ApprovedOperations = {Of(x) : x \in {y \in approvals : Counts(y)}}
      /\ ApprovedOperations' = {Of(x) : x \in {y \in approvals' : Counts(y)}}
  BY <1>1 DEF ApprovedOperations
<1>4. ApprovalsPlaced' /\ UNCHANGED Ledger
  BY <1>1, <1>2 DEF LedgerInv, ApprovalsPlaced, Ledger
<1>5. Of(h) = assessments[a].operation.id
  OBVIOUS
<1> HIDE DEF h, Counts, Of
<1>6. CASE Counts(h)
  <2>1. {y \in approvals' : Counts(y)} = {y \in approvals : Counts(y)} \cup {h}
    BY <1>1, <1>6
  <2> QED BY <1>3, <1>4, <1>5, <2>1
<1>7. CASE ~Counts(h)
  <2>1. {y \in approvals' : Counts(y)} = {y \in approvals : Counts(y)}
    BY <1>1, <1>7
  <2> QED BY <1>3, <1>4, <2>1
<1> QED BY <1>6, <1>7

\* The transaction of a commit records one approved operation, or nothing.
LEMMA ApplyRecords ==
  ASSUME LedgerInv, NEW c \in Clients, Apply(c)
  PROVE  /\ ApprovalsPlaced' /\ UNCHANGED ApprovedOperations
         /\ \/ UNCHANGED Ledger
            \/ LET o == clients[c].operation.id
               IN  /\ o \in ApprovedOperations \ {Ledger[i] : i \in DOMAIN Ledger}
                   /\ o \in OperationIds
                   /\ Ledger' = Append(Ledger, o)
<1>1. TypeOK /\ UNCHANGED <<assessments, approvals>>
  BY DEF LedgerInv, SafetyInv, TypeInv, Apply
<1>2. PICK k \in Committing : k = clients[c] /\ k.pc = "apply"
  BY <1>1, CallOf DEF Apply, In, TypeOK, Calls
<1>3. CommitSound(k)
  BY <1>2 DEF LedgerInv, SafetyInv, CommitsSound
<1>4. \/ events' = Append(events, EventOf(k)) /\ ~Recorded(k.operation.id)
      \/ UNCHANGED events
  <2>1. EventOf(k).operation = k.operation.id
    BY DEF EventOf
  <2> QED BY <1>2, <2>1 DEF Apply, Transact, RegisterBinding, TransitionBinding,
                            CloseProgramme, AppendEvent, ReturnRecorded, store
<1>5. ApprovalsPlaced' /\ UNCHANGED ApprovedOperations
  BY <1>1 DEF LedgerInv, ApprovalsPlaced, ApprovedOperations
<1>6. ASSUME events' = Append(events, EventOf(k)), ~Recorded(k.operation.id)
      PROVE  LET o == k.operation.id
             IN  /\ o \in ApprovedOperations \ {Ledger[i] : i \in DOMAIN Ledger}
                 /\ o \in OperationIds
                 /\ Ledger' = Append(Ledger, o)
  <2> DEFINE o == k.operation.id
             e == EventOf(k)
             n == Len(events) + 1
  <2>1. o \in ApprovedOperations
    BY <1>3 DEF CommitSound, ApprovedOperations
  <2>2. o \notin {Ledger[i] : i \in DOMAIN Ledger}
    BY <1>6 DEF Recorded, Ledger
  <2>3. events \in Seq(Event) /\ e \in Event /\ e.operation = o
    BY <1>1, EventOfType DEF TypeOK, StoreTypeOK, EventOf
  <2>4. o \in OperationIds
    BY <2>3 DEF Event
  <2>5. Ledger \in Seq(OperationIds) /\ Len(Ledger) = Len(events)
    <3>1. DOMAIN events = 1..Len(events) /\ Len(events) \in Nat
      BY <2>3
    <3>2. ASSUME NEW i \in DOMAIN events
          PROVE  events[i].operation \in OperationIds
      <4>1. events[i] \in Event
        BY <2>3
      <4> QED BY <4>1 DEF Event
    <3>3. Ledger \in [1..Len(events) -> OperationIds]
      BY <3>1, <3>2 DEF Ledger
    <3> QED BY <3>1, <3>3
  <2> HIDE DEF o, e
  <2>6. events' = Append(events, e)
    BY <1>6 DEF e
  <2>7. /\ DOMAIN events' = 1..n /\ events'[n] = e /\ n \in Nat
        /\ \A i \in 1..Len(events) : events'[i] = events[i]
    BY <2>3, <2>6
  <2>8. Ledger' = [i \in 1..n |-> events'[i].operation]
    BY <2>7 DEF Ledger
  <2>9. Append(Ledger, o) \in Seq(OperationIds) /\ Len(Append(Ledger, o)) = n
    BY <2>4, <2>5, AppendProperties
  <2>10. ASSUME NEW i \in 1..n
         PROVE  Append(Ledger, o)[i] = events'[i].operation
    <3>1. CASE i = n
      BY <2>3, <2>4, <2>5, <2>7, <3>1, AppendProperties
    <3>2. CASE i # n
      <4>1. i \in 1..Len(events) /\ Len(events) \in Nat
        BY <2>3, <3>2
      <4>2. Append(Ledger, o)[i] = Ledger[i]
        BY <2>4, <2>5, <4>1, AppendProperties
      <4>3. Ledger[i] = events[i].operation
        BY <2>3, <4>1 DEF Ledger
      <4> QED BY <2>7, <4>1, <4>2, <4>3
    <3> QED BY <3>1, <3>2
  <2>11. Ledger' \in Seq(OperationIds) /\ Len(Ledger') = n
    <3>1. \A i \in 1..n : events'[i].operation \in OperationIds
      <4>1. \A i \in 1..n : Append(Ledger, o)[i] \in OperationIds
        BY <2>9
      <4> QED BY <2>10, <4>1
    <3>2. Ledger' \in [1..n -> OperationIds]
      BY <2>8, <3>1
    <3> QED BY <2>7, <2>8, <3>2
  <2>12. Ledger' = Append(Ledger, o)
    BY <2>7, <2>8, <2>9, <2>10, <2>11, SeqEqual
  <2> QED BY <2>1, <2>2, <2>4, <2>12 DEF o
<1>7. UNCHANGED events => UNCHANGED Ledger
  BY DEF Ledger
<1> QED BY <1>2, <1>4, <1>5, <1>6, <1>7

\* What the ledger of ApprovedLedger does while the service takes a step.
LedgerStep ==
  \/ UNCHANGED <<ApprovedOperations, Ledger>>
  \/ \E o \in OperationIds :
       \/ /\ ApprovedOperations' = ApprovedOperations \cup {o}
          /\ UNCHANGED Ledger
       \/ /\ o \in ApprovedOperations \ {Ledger[i] : i \in DOMAIN Ledger}
          /\ Ledger' = Append(Ledger, o)
          /\ UNCHANGED ApprovedOperations

\* Every step of the service is a step of the ledger or a stutter.
LEMMA NextLedger == LedgerInv /\ [Next]_vars => ApprovalsPlaced' /\ LedgerStep
<1> SUFFICES ASSUME LedgerInv, [Next]_vars
             PROVE  ApprovalsPlaced' /\ LedgerStep
  OBVIOUS
<1>1. Grows
  BY NextGrows DEF LedgerInv
<1>2. ASSUME UNCHANGED <<events, approvals>>
      PROVE  ApprovalsPlaced' /\ LedgerStep
  BY <1>1, <1>2, LedgerStays DEF LedgerStep
<1>3. ASSUME NEW c \in Clients, Start(c) \/ Step(c) \/ Crash(c), ~Apply(c)
      PROVE  UNCHANGED <<events, approvals>>
  BY <1>3 DEF Start, StartAssess, StartCommit, Step, CheckProgramme, CheckBinding,
              ReadHead, SaveAssessment, CheckHead, ApplyFails, Consume, LockTimeout,
              Crash, Tables, store
<1>4. ASSUME NEW c \in Clients, Apply(c)
      PROVE  ApprovalsPlaced' /\ LedgerStep
  BY <1>4, ApplyRecords DEF LedgerStep
<1>5. ASSUME NEW a \in DOMAIN assessments, NEW d \in Decisions, Decide(a, d)
      PROVE  ApprovalsPlaced' /\ LedgerStep
  <2>1. assessments[a].operation.id \in OperationIds
    <3>1. assessments[a] \in Assessment
      BY DEF LedgerInv, SafetyInv, TypeInv, TypeOK
    <3>2. assessments[a].operation \in Operation
      BY <3>1, OperationsAssumption DEF Assessment
    <3> QED BY <3>2 DEF Operation
  <2> QED BY <1>5, <2>1, DecideApproves DEF LedgerStep
<1>6. ASSUME Rebuild \/ Tick \/ UNCHANGED vars
      PROVE  UNCHANGED <<events, approvals>>
  BY <1>6 DEF Rebuild, BeginRebuild, ReplayEvent, CommitRebuild, RollBackRebuild,
              Tick, vars, store
<1> QED BY <1>2, <1>3, <1>4, <1>5, <1>6 DEF Next, Review

LEMMA AlwaysPlaced == Spec => []LedgerInv
<1>1. Init => LedgerInv
  BY InitSafety DEF Init, LedgerInv, ApprovalsPlaced
<1>2. LedgerInv /\ [Next]_vars => LedgerInv'
  BY NextLedger, NextSafety DEF LedgerInv
<1> QED BY <1>1, <1>2, PTL DEF Spec

\* Refinement: whatever clients, crashes, rebuilds and retries do, the chain is a
\* ledger to which only operations that a reviewer approved on an assessment that
\* allowed them are appended, each once, and from which nothing is removed
\* (commit_operation over append_event and the bindings' transactions).
THEOREM LedgerImplemented == Spec => ImplementsLedger
<1>1. Init => Promise!LedgerInit
  BY DEF Init, StoreInit, Promise!LedgerInit, ApprovedOperations
<1>2. LedgerInv /\ [Next]_vars => [Promise!LedgerNext]_(Promise!ledgerVars)
  BY NextLedger DEF LedgerStep, Ledger, Promise!LedgerNext, Promise!Approve,
     Promise!Record, Promise!Entries, Promise!ledgerVars
<1> QED BY <1>1, <1>2, AlwaysPlaced, PTL DEF Spec, ImplementsLedger, Promise!LedgerSpec

-----------------------------------------------------------------------------
(* Rows. *)

\* An event touches the rows of its item and of its candidate only.
LEMMA ApplyTouches ==
  ASSUME NEW rows \in [Items -> Row], NEW e \in Event, NEW n \in Nat,
         NEW x \in Items \ {e.item, e.candidate}
  PROVE  ApplyProjection(rows, e, n)[x] = rows[x]
<1>1. CASE e.item # None /\ e.type \in {"correct", "supersede"} /\ e.candidate # None
             /\ ~(e.type = "write" /\ e.candidate # None)
  <2> DEFINE target == rows[e.item]
             status == IF e.type = "correct" THEN "corrected" ELSE "superseded"
             gone == [target EXCEPT !.status = status, !.successor = e.candidate,
                                    !.last = n]
             closed == IF target.status = "absent" THEN rows
                       ELSE [rows EXCEPT ![e.item] = gone]
  <2>1. e.item \in Items /\ e.candidate \in Items
    BY <1>1 DEF Event
  <2>2. Succeed(rows, e, n) = [closed EXCEPT ![e.candidate] = CandidateRow(e, n, e.item)]
    BY <2>1 DEF Succeed
  <2> HIDE DEF gone, target
  <2>3. closed[x] = rows[x] /\ DOMAIN closed = Items
    BY <2>1
  <2> HIDE DEF closed
  <2> QED BY <1>1, <2>1, <2>2, <2>3 DEF ApplyProjection
<1>2. CASE e.item # None /\ e.type = "write" /\ e.candidate # None
  BY <1>2 DEF ApplyProjection, Event
<1>3. CASE \/ e.item = None
           \/ /\ ~(e.type = "write" /\ e.candidate # None)
              /\ ~(e.type \in {"correct", "supersede"} /\ e.candidate # None)
  BY <1>3 DEF ApplyProjection, Event
<1> QED BY <1>1, <1>2, <1>3

\* A transaction of a commit changes rows of the event's own project only.
LEMMA ApplyOwnRows ==
  ASSUME TypeInv, NEW c \in Clients, Apply(c), NEW p \in Projects, NEW x \in Items,
         projections'[p][x] # projections[p][x]
  PROVE  /\ Len(events') = Len(events) + 1
         /\ LET e == events'[Len(events')]
            IN  e.project = p /\ x \in {e.item, e.candidate}
<1> DEFINE e == EventOf(clients[c])
<1>1. clients[c] \in Committing
  BY CallOf DEF TypeInv, TypeOK, Apply, In, Calls
<1>2. e \in Event
  BY <1>1, EventOfType
<1>3. AppendEvent(e)
  BY DEF Apply, Transact, RegisterBinding, TransitionBinding, CloseProgramme,
         ReturnRecorded, store
<1> HIDE DEF e
<1>4. /\ events' = Append(events, e)
      /\ projections' = [projections EXCEPT
           ![e.project] = ApplyProjection(projections[e.project], e, ChainHead + 1)]
  BY <1>3 DEF AppendEvent
<1>5. events \in Seq(Event) /\ projections \in [Projects -> [Items -> Row]]
      /\ ChainHead + 1 \in Nat
  BY DEF TypeInv, TypeOK, StoreTypeOK, ChainHead
<1>6. Len(events') = Len(events) + 1 /\ events'[Len(events')] = e
  BY <1>2, <1>4, <1>5
<1>7. e.project = p
  BY <1>4, <1>5
<1>8. x \in {e.item, e.candidate}
  <2>1. projections'[p] = ApplyProjection(projections[p], e, ChainHead + 1)
    BY <1>4, <1>5, <1>7
  <2>2. projections[p] \in [Items -> Row]
    BY <1>5
  <2> QED BY <1>2, <1>5, <2>1, <2>2, ApplyTouches
<1> QED BY <1>6, <1>7, <1>8

-----------------------------------------------------------------------------
(* Rebuilds.  The rows after each event of the whole chain are the values of *)
(* a function.  The rows of a rebuild in progress are the value before the   *)
(* event it reads next; the live rows of a project agree with the last value *)
(* at every item that no other project has named.                            *)

Replays(f, es) ==
  /\ f[0] = NoRows
  /\ \A n \in 0..Len(es) : f[n] \in [Items -> Row]
  /\ \A n \in 1..Len(es) : f[n] = ApplyProjection(f[n - 1], es[n], n)

Rebuilding(f) ==
  rebuild.project # None =>
    /\ rebuild.project \in Projects
    /\ rebuild.next \in 1..(Len(events) + 1)
    /\ rebuild.rows = f[rebuild.next - 1]

LiveAt(f, p) ==
  \A x \in Items \ NamedElsewhere(p) : f[Len(events)][x] = projections[p][x]

Replayed ==
  \E f : Replays(f, events) /\ Rebuilding(f) /\ \A p \in Projects : LiveAt(f, p)

ReplayInv == TypeInv /\ Replayed

\* What an event makes of a row depends on that row alone.
LEMMA ApplyLocal ==
  ASSUME NEW r \in [Items -> Row], NEW s \in [Items -> Row], NEW e \in Event,
         NEW n \in Nat, NEW x \in Items, r[x] = s[x]
  PROVE  ApplyProjection(r, e, n)[x] = ApplyProjection(s, e, n)[x]
<1>1. CASE x \notin {e.item, e.candidate}
  BY <1>1, ApplyTouches
<1>2. CASE e.item = None
  BY <1>2 DEF ApplyProjection
<1>3. CASE /\ x \in {e.item, e.candidate} /\ e.item # None
           /\ e.type = "write" /\ e.candidate # None
  <2>1. /\ ApplyProjection(r, e, n) = [r EXCEPT ![e.candidate] = CandidateRow(e, n, None)]
        /\ ApplyProjection(s, e, n) = [s EXCEPT ![e.candidate] = CandidateRow(e, n, None)]
    BY <1>3 DEF ApplyProjection
  <2> QED BY <2>1
<1>4. CASE /\ x \in {e.item, e.candidate} /\ e.item # None
           /\ e.type \in {"correct", "supersede"} /\ e.candidate # None
  <2> DEFINE status == IF e.type = "correct" THEN "corrected" ELSE "superseded"
             gone(row) == [row EXCEPT !.status = status, !.successor = e.candidate,
                                      !.last = n]
             closed(rows) == IF rows[e.item].status = "absent" THEN rows
                             ELSE [rows EXCEPT ![e.item] = gone(rows[e.item])]
             new == CandidateRow(e, n, e.item)
  <2>1. e.item \in Items /\ e.candidate \in Items
    BY <1>4 DEF Event
  <2>2. /\ ApplyProjection(r, e, n) = [closed(r) EXCEPT ![e.candidate] = new]
        /\ ApplyProjection(s, e, n) = [closed(s) EXCEPT ![e.candidate] = new]
    BY <1>4, <2>1 DEF ApplyProjection, Succeed
  <2> HIDE DEF new, gone
  <2>3. DOMAIN closed(r) = Items /\ DOMAIN closed(s) = Items /\ closed(r)[x] = closed(s)[x]
    BY <2>1
  <2> HIDE DEF closed
  <2> QED BY <2>1, <2>2, <2>3
<1>5. CASE /\ x \in {e.item, e.candidate} /\ e.item # None
           /\ ~(e.type = "write" /\ e.candidate # None)
           /\ ~(e.type \in {"correct", "supersede"} /\ e.candidate # None)
  <2>1. e.item \in Items
    BY <1>5 DEF Event
  <2>2. ASSUME NEW rows \in [Items -> Row]
        PROVE  ApplyProjection(rows, e, n) =
                 [rows EXCEPT ![e.item] = IF rows[e.item].status # "absent"
                                          THEN Touch(rows[e.item], e, n)
                                          ELSE LifecycleRow(e, n)]
    BY <1>5, <2>1 DEF ApplyProjection
  <2>3. CASE x = e.item
    BY <2>1, <2>2, <2>3
  <2>4. CASE x # e.item
    BY <2>1, <2>2, <2>4
  <2> QED BY <2>3, <2>4
<1> QED BY <1>1, <1>2, <1>3, <1>4, <1>5

\* A commit appends at most one event, and projects it into the rows of its own
\* project: the events of bindings and closures have no item.
LEMMA ApplyReplays ==
  ASSUME ReplayInv, TypeInv', NEW c \in Clients, Apply(c)
  PROVE  Replayed'
<1> DEFINE e == EventOf(clients[c])
           n == Len(events)
<1>1. clients[c] \in Committing
  BY CallOf DEF ReplayInv, TypeInv, TypeOK, Apply, In, Calls
<1>2. e \in Event /\ e.project \in Projects
  BY <1>1, EventOfType DEF Event
<1>3. PICK f : Replays(f, events) /\ Rebuilding(f) /\ \A p \in Projects : LiveAt(f, p)
  BY DEF ReplayInv, Replayed
<1>4. LockFree /\ LockFree'
  BY DEF Apply, Transact, RegisterBinding, TransitionBinding, CloseProgramme,
         AppendEvent, ReturnRecorded, store, LockFree
<1>t. projections \in [Projects -> [Items -> Row]] /\ events \in Seq(Event)
  BY DEF ReplayInv, TypeInv, TypeOK, StoreTypeOK
<1>5. \/ UNCHANGED <<events, projections>>
      \/ /\ events' = Append(events, e)
         /\ Projectable(e)
         /\ \A p \in Projects :
              projections'[p] = IF p = e.project
                                THEN ApplyProjection(projections[p], e, n + 1)
                                ELSE projections[p]
  <2>1. CASE AppendEvent(e)
    <3> HIDE DEF e
    <3> QED BY <1>2, <1>t, <2>1 DEF AppendEvent, ChainHead
  <2>2. CASE ReturnRecorded(e)
    BY <2>2 DEF ReturnRecorded, store
  <2>3. CASE /\ clients[c].operation.type \in BindingOperations
             /\ RegisterBinding(e) \/ TransitionBinding(e) \/ CloseProgramme(e)
    <3>1. e.item = None
      BY <2>3 DEF EventOf, ItemOf
    <3> HIDE DEF e
    <3> QED BY <2>3, <3>1 DEF RegisterBinding, TransitionBinding, CloseProgramme,
                              ApplyProjection, Projectable
  <2> QED BY <2>1, <2>2, <2>3 DEF Apply, Transact, BindingOperations
<1>6. CASE UNCHANGED <<events, projections>>
  BY <1>3, <1>4, <1>6 DEF Replayed, Replays, Rebuilding, LiveAt, NamedElsewhere, LockFree
<1>7. CASE /\ events' = Append(events, e)
           /\ Projectable(e)
           /\ \A p \in Projects :
                projections'[p] = IF p = e.project
                                  THEN ApplyProjection(projections[p], e, n + 1)
                                  ELSE projections[p]
  <2> HIDE DEF e
  <2>1. n \in Nat
    BY <1>t
  <2>2. /\ Len(events') = n + 1 /\ events'[n + 1] = e
        /\ \A i \in 1..n : events'[i] = events[i]
        /\ DOMAIN events = 1..n /\ DOMAIN events' = 1..(n + 1)
    <3>1. Append(events, e) \in Seq(Event)
      BY <1>2, <1>t
    <3> QED BY <1>2, <1>7, <1>t, <3>1
  <2>g. PICK g : g = [i \in 0..(n + 1) |->
                       IF i = n + 1 THEN ApplyProjection(f[n], e, n + 1) ELSE f[i]]
    OBVIOUS
  <2>n. n = Len(events)
    OBVIOUS
  <2> HIDE DEF n
  <2>3. /\ g[n + 1] = ApplyProjection(f[n], e, n + 1)
        /\ \A i \in 0..n : g[i] = f[i]
    BY <2>1, <2>g
  <2>4. /\ f[0] = NoRows /\ \A i \in 0..n : f[i] \in [Items -> Row]
        /\ \A i \in 1..n : f[i] = ApplyProjection(f[i - 1], events[i], i)
        /\ \A p \in Projects : \A x \in Items \ NamedElsewhere(p) :
             f[n][x] = projections[p][x]
    BY <1>3, <2>n DEF Replays, LiveAt
  <2>5. g[0] = NoRows
    BY <2>1, <2>3, <2>4
  <2>6. ASSUME NEW i \in 1..(n + 1)
        PROVE  g[i] = ApplyProjection(g[i - 1], events'[i], i)
    <3>1. CASE i = n + 1
      BY <2>1, <2>2, <2>3, <3>1
    <3>2. CASE i # n + 1
      <4>1. i \in 1..n /\ i - 1 \in 0..n /\ i \in 0..n
        BY <2>1, <3>2
      <4> QED BY <2>2, <2>3, <2>4, <4>1
    <3> QED BY <3>1, <3>2
  <2>7. \A i \in 0..(n + 1) : g[i] \in [Items -> Row]
    <3>1. f[n] \in [Items -> Row] /\ n + 1 \in Nat
      BY <2>1, <2>4
    <3>2. ApplyProjection(f[n], e, n + 1) \in [Items -> Row]
      BY <1>2, <1>7, <3>1, ApplyProjectionType
    <3> QED BY <2>1, <2>3, <2>4, <3>2
  <2>8. Replays(g, events')
    BY <2>2, <2>5, <2>6, <2>7 DEF Replays, NoRows, AbsentRow
  <2>9. ASSUME NEW p \in Projects, NEW x \in Items, x \notin NamedElsewhere(p)'
        PROVE  g[n + 1][x] = projections'[p][x]
    <3>1. x \notin NamedElsewhere(p)
      BY <2>1, <2>2, <2>9 DEF NamedElsewhere
    <3>2. f[n][x] = projections[p][x]
      BY <2>4, <3>1
    <3>3. f[n] \in [Items -> Row] /\ projections[p] \in [Items -> Row] /\ n + 1 \in Nat
      BY <1>t, <2>1, <2>4
    <3>4. CASE p = e.project
      <4>1. ApplyProjection(f[n], e, n + 1)[x] = ApplyProjection(projections[p], e, n + 1)[x]
        BY <1>2, <3>2, <3>3, ApplyLocal
      <4> QED BY <1>7, <2>3, <3>4, <4>1
    <3>5. CASE p # e.project
      <4>1. x \notin {e.item, e.candidate}
        BY <2>1, <2>2, <2>9, <3>5 DEF NamedElsewhere
      <4>2. ApplyProjection(f[n], e, n + 1)[x] = f[n][x]
        BY <1>2, <3>3, <4>1, ApplyTouches
      <4> QED BY <1>7, <2>3, <3>2, <3>5, <4>2
    <3> QED BY <3>4, <3>5
  <2>10. \A p \in Projects : LiveAt(g, p)'
    BY <2>2, <2>9 DEF LiveAt
  <2>11. Rebuilding(g)'
    BY <1>4 DEF Rebuilding, LockFree
  <2> QED BY <2>8, <2>10, <2>11 DEF Replayed
<1> QED BY <1>5, <1>6, <1>7

\* Each step of rebuild_projection reaches the rows that the chain had there, and its
\* commit makes them the live ones.
LEMMA RebuildReplays ==
  ASSUME ReplayInv, Rebuild
  PROVE  Replayed'
<1>1. PICK f : Replays(f, events) /\ Rebuilding(f) /\ \A p \in Projects : LiveAt(f, p)
  BY DEF ReplayInv, Replayed
<1>2. /\ events \in Seq(Event) /\ Len(events) \in Nat
      /\ projections \in [Projects -> [Items -> Row]]
      /\ rebuild \in [project : Projects \cup {None}, next : Nat \ {0}, rows : [Items -> Row]]
  BY DEF ReplayInv, TypeInv, TypeOK, StoreTypeOK
<1>3. UNCHANGED events
  BY DEF Rebuild, BeginRebuild, ReplayEvent, CommitRebuild, RollBackRebuild
<1>4. Replays(f, events')
  BY <1>1, <1>3 DEF Replays
<1>5. ASSUME UNCHANGED projections
      PROVE  \A p \in Projects : LiveAt(f, p)'
  BY <1>1, <1>3, <1>5 DEF LiveAt, NamedElsewhere
<1>6. ASSUME NEW q \in Maintained, BeginRebuild(q)
      PROVE  Rebuilding(f)' /\ \A p \in Projects : LiveAt(f, p)'
  <2>1. q \in Projects
    BY BoundsAssumption
  <2>2. rebuild'.project = q /\ rebuild'.next = 1 /\ rebuild'.rows = NoRows
        /\ UNCHANGED projections
    BY <1>6 DEF BeginRebuild
  <2> QED BY <1>1, <1>2, <1>3, <1>5, <2>1, <2>2 DEF Rebuilding, Replays
<1>7. ASSUME ReplayEvent
      PROVE  Rebuilding(f)' /\ \A p \in Projects : LiveAt(f, p)'
  <2> DEFINE rows == ApplyProjection(rebuild.rows, events[rebuild.next], rebuild.next)
  <2>1. /\ ~LockFree /\ rebuild.next <= Len(events) /\ UNCHANGED projections
        /\ rebuild' = [rebuild EXCEPT !.next = rebuild.next + 1, !.rows = rows]
    BY <1>2, <1>7 DEF ReplayEvent, ChainHead
  <2>2. rebuild.next \in 1..Len(events) /\ rebuild.project \in Projects
        /\ rebuild.rows = f[rebuild.next - 1]
    BY <1>1, <1>2, <2>1 DEF Rebuilding, LockFree
  <2>3. rows = f[rebuild.next]
    BY <1>1, <2>2 DEF Replays
  <2> HIDE DEF rows
  <2>4. rebuild'.project = rebuild.project /\ rebuild'.next = rebuild.next + 1
        /\ rebuild'.rows = rows
    BY <1>2, <2>1, <2>2
  <2>5. rebuild'.next \in 1..(Len(events) + 1) /\ rebuild'.next - 1 = rebuild.next
    <3>1. Len(events) \in Nat /\ rebuild.next \in 1..Len(events)
      BY <1>2, <2>2
    <3> QED BY <2>4, <3>1
  <2> QED BY <1>3, <1>5, <2>1, <2>2, <2>3, <2>4, <2>5 DEF Rebuilding
<1>8. ASSUME CommitRebuild
      PROVE  Rebuilding(f)' /\ \A p \in Projects : LiveAt(f, p)'
  <2>1. /\ ~LockFree /\ rebuild.next > Len(events) /\ rebuild' = NoRebuild
        /\ projections' = [projections EXCEPT ![rebuild.project] = rebuild.rows]
    BY <1>8 DEF CommitRebuild, ChainHead
  <2>2. rebuild.next \in 1..(Len(events) + 1) /\ rebuild.project \in Projects
        /\ rebuild.rows = f[rebuild.next - 1]
    BY <1>1, <2>1 DEF Rebuilding, LockFree
  <2>3. rebuild.next - 1 = Len(events)
    BY <1>2, <2>1, <2>2
  <2>4. \A p \in Projects : projections'[p] = IF p = rebuild.project THEN f[Len(events)]
                                              ELSE projections[p]
    BY <1>2, <2>1, <2>2, <2>3
  <2>5. \A p \in Projects : LiveAt(f, p)'
    BY <1>1, <1>3, <2>4 DEF LiveAt, NamedElsewhere
  <2>6. Rebuilding(f)'
    BY <2>1 DEF Rebuilding, NoRebuild
  <2> QED BY <2>5, <2>6
<1>9. ASSUME RollBackRebuild
      PROVE  Rebuilding(f)' /\ \A p \in Projects : LiveAt(f, p)'
  BY <1>5, <1>9 DEF RollBackRebuild, Rebuilding, NoRebuild
<1> QED BY <1>4, <1>6, <1>7, <1>8, <1>9 DEF Rebuild, Replayed

LEMMA InitReplay == Init => ReplayInv
<1> SUFFICES ASSUME Init
             PROVE  ReplayInv
  OBVIOUS
<1> DEFINE f == [n \in {0} |-> NoRows]
<1>1. events = << >> /\ projections = [q \in Projects |-> NoRows] /\ LockFree
  BY DEF Init, StoreInit, NoRebuild, LockFree
<1>2. f[0] = NoRows /\ Len(events) = 0
  BY <1>1
<1> HIDE DEF f
<1>3. Replays(f, events)
  BY <1>2, NoRowsType DEF Replays
<1>4. Rebuilding(f) /\ \A p \in Projects : LiveAt(f, p)
  BY <1>1, <1>2 DEF Rebuilding, LiveAt, LockFree
<1> QED BY <1>3, <1>4, InitType DEF ReplayInv, Replayed

LEMMA NextReplay == ReplayInv /\ [Next]_vars => ReplayInv'
<1> SUFFICES ASSUME ReplayInv, [Next]_vars
             PROVE  ReplayInv'
  OBVIOUS
<1>1. TypeInv'
  BY NextType DEF ReplayInv
<1>2. ASSUME UNCHANGED store
      PROVE  Replayed'
  <2>1. PICK f : Replays(f, events) /\ Rebuilding(f) /\ \A p \in Projects : LiveAt(f, p)
    BY DEF ReplayInv, Replayed
  <2>2. Replays(f, events') /\ Rebuilding(f)' /\ \A p \in Projects : LiveAt(f, p)'
    BY <1>2, <2>1 DEF store, Replays, Rebuilding, LiveAt, NamedElsewhere
  <2> QED BY <2>2 DEF Replayed
<1>3. ASSUME NEW c \in Clients, Apply(c)
      PROVE  Replayed'
  BY <1>1, <1>3, ApplyReplays
<1>4. ASSUME NEW c \in Clients, Start(c) \/ Step(c) \/ Crash(c), ~Apply(c)
      PROVE  UNCHANGED store
  BY <1>4 DEF Start, StartAssess, StartCommit, Step, CheckProgramme, CheckBinding,
              ReadHead, SaveAssessment, CheckHead, ApplyFails, Consume, LockTimeout,
              Crash, Tables
<1>5. ASSUME Rebuild
      PROVE  Replayed'
  BY <1>5, RebuildReplays
<1>6. ASSUME Review \/ Tick \/ UNCHANGED vars
      PROVE  UNCHANGED store
  BY <1>6 DEF Review, Decide, Tick, vars
<1>7. Replayed'
  BY <1>2, <1>3, <1>4, <1>5, <1>6 DEF Next
<1> QED BY <1>1, <1>7 DEF ReplayInv

LEMMA ReplayedMatches == ReplayInv => RebuildMatchesLive
<1> SUFFICES ASSUME ReplayInv, ~LockFree, rebuild.next > ChainHead,
                    NEW x \in Items \ NamedElsewhere(rebuild.project)
             PROVE  rebuild.rows[x] = projections[rebuild.project][x]
  BY DEF RebuildMatchesLive
<1>1. PICK f : Rebuilding(f) /\ \A p \in Projects : LiveAt(f, p)
  BY DEF ReplayInv, Replayed
<1>2. rebuild.next - 1 = Len(events) /\ rebuild.project \in Projects
  BY <1>1 DEF Rebuilding, LockFree, ChainHead, ReplayInv, TypeInv, TypeOK, StoreTypeOK
<1> QED BY <1>1, <1>2 DEF Rebuilding, LiveAt, LockFree

\* In a programme of any number of projects a rebuild, whenever it begins and however
\* often it is rolled back or another one is committed, ends with the rows that
\* readers see, at each item that only its own project has named
\* (rebuild_projection against append_event).
THEOREM RebuildReplaysLive == Spec => []RebuildMatchesLive
BY InitReplay, NextReplay, ReplayedMatches, PTL DEF Spec

\* Commits change rows of their own project that they name, and the end of a rebuild
\* those of items that another project has named too, whatever other projects and
\* clients do (append_event, rebuild_projection).
THEOREM OwnRows == Spec => RowsFollowOwnEvents
<1> DEFINE Own == \A p \in Projects, x \in Items :
                    projections'[p][x] # projections[p][x] =>
                      \/ /\ Len(events') = Len(events) + 1
                         /\ LET e == events'[Len(events')]
                            IN  e.project = p /\ x \in {e.item, e.candidate}
                      \/ rebuild.project = p /\ x \in NamedElsewhere(p)
<1>1. ReplayInv /\ [Next]_vars => [Own]_vars
  <2> SUFFICES ASSUME ReplayInv, [Next]_vars
               PROVE  [Own]_vars
    OBVIOUS
  <2>1. ASSUME UNCHANGED projections
        PROVE  Own
    BY <2>1
  <2>2. ASSUME NEW c \in Clients, Apply(c)
        PROVE  Own
    BY <2>2, ApplyOwnRows DEF ReplayInv
  <2>3. ASSUME NEW c \in Clients, Start(c) \/ Step(c) \/ Crash(c), ~Apply(c)
        PROVE  UNCHANGED projections
    BY <2>3 DEF Start, StartAssess, StartCommit, Step, CheckProgramme, CheckBinding,
                ReadHead, SaveAssessment, CheckHead, ApplyFails, Consume, LockTimeout,
                Crash, Tables, store
  <2>4. ASSUME CommitRebuild
        PROVE  Own
    <3>1. /\ ~LockFree /\ rebuild.next > ChainHead
          /\ projections' = [projections EXCEPT ![rebuild.project] = rebuild.rows]
      BY <2>4 DEF CommitRebuild
    <3>2. /\ projections \in [Projects -> [Items -> Row]]
          /\ rebuild.project \in Projects \cup {None}
      BY DEF ReplayInv, TypeInv, TypeOK, StoreTypeOK
    <3>3. ASSUME NEW p \in Projects, p # rebuild.project
          PROVE  projections'[p] = projections[p]
      BY <3>1, <3>2, <3>3
    <3>4. ASSUME NEW x \in Items \ NamedElsewhere(rebuild.project), rebuild.project \in Projects
          PROVE  projections'[rebuild.project][x] = projections[rebuild.project][x]
      <4>1. rebuild.rows[x] = projections[rebuild.project][x]
        BY <3>1, ReplayedMatches DEF RebuildMatchesLive
      <4> QED BY <3>1, <3>2, <3>4, <4>1
    <3> QED BY <3>3, <3>4
  <2>5. ASSUME Rebuild, ~CommitRebuild
        PROVE  UNCHANGED projections
    BY <2>5 DEF Rebuild, BeginRebuild, ReplayEvent, RollBackRebuild
  <2>6. ASSUME Review \/ Tick \/ UNCHANGED vars
        PROVE  UNCHANGED projections
    BY <2>6 DEF Review, Decide, Tick, vars, store
  <2> HIDE DEF Own
  <2> QED BY <2>1, <2>2, <2>3, <2>4, <2>5, <2>6 DEF Next
<1> QED BY <1>1, InitReplay, NextReplay, PTL DEF Spec, RowsFollowOwnEvents

-----------------------------------------------------------------------------
(* Overtaking.  A commit compares the head, the programme's status and the   *)
(* binding before its transaction.  The commits that have passed a check     *)
(* which nobody passes any more are a set of clients; each event that such a *)
(* commit adds takes one client out of the set.                              *)

Pending(c, pcs) == clients[c] \in Committing /\ clients[c].pc \in pcs

\* Commits that have found the head to be h.
PendingAt(h) ==
  {c \in Clients : Pending(c, {"programme", "binding", "apply"}) /\ clients[c].head = h}

\* Commits that have found the programme active.
PendingOpen ==
  {c \in Clients : Pending(c, {"binding", "apply"})
                   /\ clients[c].operation.type # "close_programme"}

\* Commits that have found project p not retired.
PendingOf(p) ==
  {c \in Clients : /\ Pending(c, {"apply"})
                   /\ clients[c].operation.type # "close_programme"
                   /\ clients[c].operation.project = p}

\* The heads that assessments and assessing clients hold exist.
HeadsExist ==
  /\ \A a \in DOMAIN assessments : assessments[a].targetHead <= Len(events)
  /\ \A c \in Clients : clients[c] \in Assessing /\ clients[c].pc = "save" =>
       clients[c].head <= Len(events)
  /\ \A i \in DOMAIN events : AssessmentOf(i).targetHead < i

HeadRoom ==
  \A h \in Nat : Cardinality(BuiltOn(h)) + Cardinality(PendingAt(h)) <= Cardinality(Clients)

ClosureRoom ==
  \A i \in DOMAIN events : OperationAt(i).type = "close_programme" =>
    /\ programmeStatus = "closed"
    /\ Cardinality(AfterClosure(i)) + Cardinality(PendingOpen) < Cardinality(Clients)

RetirementRoom ==
  \A i \in DOMAIN events : OperationAt(i).type = "retire_project" =>
    /\ bindings[OperationAt(i).project] = "retired"
    /\ Cardinality(AfterRetirement(i)) + Cardinality(PendingOf(OperationAt(i).project))
         < Cardinality(Clients)

OvertakingInv == SafetyInv /\ HeadsExist /\ HeadRoom /\ ClosureRoom /\ RetirementRoom

\* An event keeps the assessment it was made from.
LEMMA OriginStays ==
  ASSUME SafetyInv, Grows, NEW i \in DOMAIN events
  PROVE  /\ i \in DOMAIN events'
         /\ OperationAt(i)' = OperationAt(i)
         /\ AssessmentOf(i)'.targetHead = AssessmentOf(i).targetHead
<1>1. events'[i] = events[i] /\ i \in DOMAIN events'
  BY DEF Grows
<1>2. events[i].assessment \in DOMAIN assessments
  BY DEF SafetyInv, EventsAuthorised, Authorised
<1> QED BY <1>1, <1>2 DEF Grows, OperationAt, AssessmentOf

\* Finite sets: an element moves from one to the other, or both shrink.
LEMMA Moving ==
  ASSUME NEW L, IsFiniteSet(L), NEW S, IsFiniteSet(S), NEW x, NEW c \in S,
         NEW T \in SUBSET (S \ {c})
  PROVE  Cardinality(L \cup {x}) + Cardinality(T) <= Cardinality(L) + Cardinality(S)
<1>1. /\ Cardinality(L) \in Nat /\ Cardinality(S) \in Nat
      /\ Cardinality(L \cup {x}) \in Nat
      /\ Cardinality(L \cup {x}) <= Cardinality(L) + 1
  <2>1. Cardinality(L) \in Nat /\ Cardinality(S) \in Nat
    BY FS_CardinalityType
  <2>2. Cardinality(L \cup {x}) = IF x \in L THEN Cardinality(L) ELSE Cardinality(L) + 1
    BY FS_AddElement
  <2> QED BY <2>1, <2>2
<1>2. IsFiniteSet(S \ {c}) /\ Cardinality(S \ {c}) = Cardinality(S) - 1
  BY FS_RemoveElement
<1>3. IsFiniteSet(T) /\ Cardinality(T) <= Cardinality(S) - 1
  BY <1>2, FS_Subset
<1>4. Cardinality(T) \in Nat
  BY <1>3, FS_CardinalityType
<1> QED BY <1>1, <1>3, <1>4

LEMMA Shrinking ==
  ASSUME NEW S, IsFiniteSet(S), NEW T \in SUBSET S
  PROVE  /\ IsFiniteSet(T) /\ Cardinality(T) <= Cardinality(S)
         /\ Cardinality(S) \in Nat /\ Cardinality(T) \in Nat
BY FS_Subset, FS_CardinalityType

\* The sets above are finite.
LEMMA RoomsFinite ==
  ASSUME TypeOK
  PROVE  /\ IsFiniteSet(Clients) /\ Cardinality(Clients) \in Nat
         /\ \A h : IsFiniteSet(BuiltOn(h)) /\ IsFiniteSet(PendingAt(h))
         /\ \A i : IsFiniteSet(AfterClosure(i)) /\ IsFiniteSet(AfterRetirement(i))
         /\ IsFiniteSet(PendingOpen) /\ \A p : IsFiniteSet(PendingOf(p))
<1>1. IsFiniteSet(DOMAIN events)
  <2>1. DOMAIN events = 1..Len(events) /\ Len(events) \in Nat
    BY DEF TypeOK, StoreTypeOK
  <2> QED BY <2>1, FS_Interval
<1>2. IsFiniteSet(Clients) /\ Cardinality(Clients) \in Nat
  BY BoundsAssumption, FS_CardinalityType
<1>3. /\ \A h : BuiltOn(h) \subseteq DOMAIN events /\ PendingAt(h) \subseteq Clients
      /\ \A i : AfterClosure(i) \subseteq DOMAIN events
                /\ AfterRetirement(i) \subseteq DOMAIN events
      /\ PendingOpen \subseteq Clients /\ \A p : PendingOf(p) \subseteq Clients
  BY DEF BuiltOn, PendingAt, AfterClosure, AfterRetirement, PendingOpen, PendingOf
<1> QED BY <1>1, <1>2, <1>3, FS_Subset

\* A commit that is pending after a step was so before, or has just passed the check:
\* then the head, the status or the binding is what it found.
Passes ==
  \A c \in Clients :
    /\ \A h : c \in PendingAt(h)' =>
         c \in PendingAt(h) \/ (Len(events) = h /\ UNCHANGED events)
    /\ c \in PendingOpen' => c \in PendingOpen \/ programmeStatus # "closed"
    /\ \A p : c \in PendingOf(p)' => c \in PendingOf(p) \/ bindings[p] # "retired"

LEMMA NextPasses ==
  ASSUME TypeOK, [Next]_vars
  PROVE  Passes
<1> SUFFICES ASSUME NEW c \in Clients
             PROVE  /\ \A h : c \in PendingAt(h)' =>
                         c \in PendingAt(h) \/ (Len(events) = h /\ UNCHANGED events)
                    /\ c \in PendingOpen' => c \in PendingOpen \/ programmeStatus # "closed"
                    /\ \A p : c \in PendingOf(p)' => c \in PendingOf(p) \/ bindings[p] # "retired"
  BY DEF Passes
<1> DEFINE New == {"programme", "binding", "apply"}
<1>0. clients[c] \in Calls
  BY DEF TypeOK, Calls
<1>1. ASSUME clients'[c] = clients[c]
      PROVE  /\ \A h : c \in PendingAt(h)' => c \in PendingAt(h)
             /\ c \in PendingOpen' => c \in PendingOpen
             /\ \A p : c \in PendingOf(p)' => c \in PendingOf(p)
  BY <1>1 DEF PendingAt, PendingOpen, PendingOf, Pending
<1>2. ASSUME clients'[c] \notin Committing \/ clients'[c].pc \notin New
      PROVE  /\ \A h : c \notin PendingAt(h)'
             /\ c \notin PendingOpen'
             /\ \A p : c \notin PendingOf(p)'
  BY <1>2 DEF PendingAt, PendingOpen, PendingOf, Pending
<1>3. ASSUME Return(c)
      PROVE  clients'[c] \notin Committing
  <2>1. clients'[c] = Idle
    BY <1>3, OthersStay DEF Return
  <2> QED BY <2>1 DEF Idle, Committing
<1>4. ASSUME NEW d \in Clients, NEW k, d # c, clients' = [clients EXCEPT ![d] = k]
      PROVE  clients'[c] = clients[c]
  BY <1>4, OthersStay
<1>5. ASSUME NEW pc, Goto(c, pc), clients[c] \in Assessing \cup Committing
      PROVE  /\ clients'[c] \in Committing => clients[c] \in Committing
             /\ clients'[c].pc = pc
             /\ clients'[c].head = clients[c].head
             /\ clients'[c].operation = clients[c].operation
  <2>1. clients'[c] = [clients[c] EXCEPT !.pc = pc]
    BY <1>5 DEF Goto, TypeOK
  <2> QED BY <1>5, <2>1 DEF Assessing, Committing
<1>6. CASE CheckHead(c)
  <2>1. clients[c] \in Assessing \cup Committing
    BY <1>0, <1>6, CallOf DEF CheckHead, In
  <2>2. CASE Goto(c, "programme") /\ Len(events) = clients[c].head
    BY <1>5, <1>6, <2>1, <2>2
       DEF CheckHead, Tables, store, PendingAt, PendingOpen, PendingOf, Pending
  <2> QED BY <1>2, <1>3, <1>6, <2>2 DEF CheckHead, Check, ChainHead
<1>7. CASE CheckProgramme(c)
  <2>1. clients[c] \in Assessing \cup Committing /\ clients[c].pc = "programme"
    BY <1>0, <1>7, CallOf DEF CheckProgramme, In
  <2>2. CASE Goto(c, "binding") /\ ProgrammeAdmits(clients[c].operation)
    BY <1>5, <2>1, <2>2
       DEF ProgrammeAdmits, PendingAt, PendingOpen, PendingOf, Pending
  <2> QED BY <1>2, <1>3, <1>7, <2>2 DEF CheckProgramme, Check
<1>8. CASE CheckBinding(c)
  <2>1. clients[c] \in Assessing \cup Committing /\ clients[c].pc = "binding"
    BY <1>0, <1>8, CallOf DEF CheckBinding, In
  <2>2. CASE Goto(c, "apply") /\ BindingAdmits(clients[c].operation)
    BY <1>5, <2>1, <2>2
       DEF BindingAdmits, PendingAt, PendingOpen, PendingOf, Pending
  <2>3. CASE Goto(c, "readHead")
    BY <1>2, <1>5, <2>1, <2>3
  <2> QED BY <1>2, <1>3, <1>8, <2>2, <2>3 DEF CheckBinding, Check
<1>9. CASE Apply(c)
  <2>1. clients[c] \in Assessing \cup Committing
    BY <1>0, <1>9, CallOf DEF Apply, In
  <2> QED BY <1>2, <1>5, <1>9, <2>1 DEF Apply
<1>10. CASE \/ SaveAssessment(c) \/ ApplyFails(c) \/ Consume(c) \/ LockTimeout(c) \/ Crash(c)
  BY <1>2, <1>3, <1>10 DEF SaveAssessment, ApplyFails, Consume, LockTimeout, Crash
<1>11. CASE ReadHead(c)
  <2>1. clients'[c].pc = "save" \/ clients'[c] \notin Committing
    <3>1. clients[c] \in Assessing \cup Committing
      BY <1>0, <1>11, CallOf DEF ReadHead, In
    <3>2. clients'[c] = [clients[c] EXCEPT !.pc = "save", !.head = ChainHead]
      BY <1>11 DEF ReadHead, TypeOK
    <3> QED BY <3>1, <3>2 DEF Assessing, Committing
  <2> QED BY <1>2, <2>1
<1>12. CASE Start(c)
  <2>1. ASSUME NEW o \in Operations, StartAssess(c, o)
        PROVE  clients'[c] \notin Committing
    <3>1. clients'[c].call = "assess"
      BY <2>1 DEF StartAssess, TypeOK
    <3> QED BY <3>1 DEF Committing
  <2>2. ASSUME NEW a \in DOMAIN assessments, NEW h \in approvals, StartCommit(c, a, h)
        PROVE  clients'[c].pc = "checkHead"
    BY <2>2 DEF StartCommit, TypeOK
  <2> QED BY <1>2, <1>12, <2>1, <2>2 DEF Start
<1>13. ASSUME NEW d \in Clients, d # c, Start(d) \/ Step(d) \/ Crash(d)
       PROVE  clients'[c] = clients[c]
  BY <1>4, <1>13 DEF Start, StartAssess, StartCommit, Step, CheckProgramme, CheckBinding,
     ReadHead, SaveAssessment, CheckHead, Apply, ApplyFails, Consume, LockTimeout, Crash,
     Check, Goto, Return
<1>14. ASSUME Review \/ Rebuild \/ Tick \/ UNCHANGED vars
       PROVE  clients'[c] = clients[c]
  BY <1>14 DEF Review, Decide, Rebuild, Tick, vars
<1> HIDE DEF New
<1>15. CASE Start(c) \/ Step(c) \/ Crash(c)
  BY <1>6, <1>7, <1>8, <1>9, <1>10, <1>11, <1>12, <1>15 DEF Step
<1> QED BY <1>1, <1>13, <1>14, <1>15 DEF Next

\* Steps that leave the chain and the statuses alone only let the rooms grow.
LEMMA OvertakingStays ==
  ASSUME OvertakingInv, TypeOK', Grows, Passes, HeadsExist',
         UNCHANGED <<events, bindings, programmeStatus>>
  PROVE  HeadRoom' /\ ClosureRoom' /\ RetirementRoom'
<1>1. \A i \in DOMAIN events :
        /\ OperationAt(i)' = OperationAt(i)
        /\ AssessmentOf(i)'.targetHead = AssessmentOf(i).targetHead
  BY OriginStays DEF OvertakingInv
<1>2. TypeOK /\ Len(events) \in Nat
  BY DEF OvertakingInv, SafetyInv, TypeInv, TypeOK, StoreTypeOK
<1>3. HeadRoom'
  <2> SUFFICES ASSUME NEW h \in Nat
               PROVE  Cardinality(BuiltOn(h)') + Cardinality(PendingAt(h)')
                        <= Cardinality(Clients)
    BY DEF HeadRoom
  <2>1. BuiltOn(h)' = BuiltOn(h)
    BY <1>1 DEF BuiltOn
  <2>2. CASE Len(events) = h
    <3>1. BuiltOn(h) = {}
      <4>1. \A j \in DOMAIN events : j <= h
        BY <1>2, <2>2 DEF TypeOK, StoreTypeOK
      <4>2. \A j \in DOMAIN events : AssessmentOf(j).targetHead < j
        BY DEF OvertakingInv, HeadsExist
      <4> QED BY <2>2, <4>1, <4>2, <1>2 DEF BuiltOn, TypeOK, StoreTypeOK
    <3>2. PendingAt(h)' \subseteq Clients
      BY DEF PendingAt
    <3>3. Cardinality(PendingAt(h)') <= Cardinality(Clients)
          /\ Cardinality(PendingAt(h)') \in Nat
      BY <1>2, <3>2, RoomsFinite, Shrinking
    <3>4. Cardinality({}) = 0
      BY FS_EmptySet
    <3> QED BY <2>1, <3>1, <3>3, <3>4
  <2>3. CASE Len(events) # h
    <3>1. PendingAt(h)' \subseteq PendingAt(h)
      <4>1. PendingAt(h)' \subseteq Clients
        BY DEF PendingAt
      <4> QED BY <2>3, <4>1 DEF Passes
    <3>2. Cardinality(PendingAt(h)') <= Cardinality(PendingAt(h))
      BY <1>2, <3>1, RoomsFinite, Shrinking
    <3>3. Cardinality(BuiltOn(h)) \in Nat /\ Cardinality(PendingAt(h)) \in Nat
          /\ Cardinality(PendingAt(h)') \in Nat /\ Cardinality(Clients) \in Nat
      BY <1>2, <3>1, RoomsFinite, Shrinking
    <3> QED BY <2>1, <3>2, <3>3 DEF OvertakingInv, HeadRoom
  <2> QED BY <2>2, <2>3
<1>4. ClosureRoom'
  <2> SUFFICES ASSUME NEW i \in DOMAIN events', OperationAt(i)'.type = "close_programme"
               PROVE  /\ programmeStatus' = "closed"
                      /\ Cardinality(AfterClosure(i)') + Cardinality(PendingOpen')
                           < Cardinality(Clients)
    BY DEF ClosureRoom
  <2>1. i \in DOMAIN events /\ OperationAt(i).type = "close_programme"
    BY <1>1
  <2>2. /\ programmeStatus = "closed"
        /\ Cardinality(AfterClosure(i)) + Cardinality(PendingOpen) < Cardinality(Clients)
    BY <2>1 DEF OvertakingInv, ClosureRoom
  <2>3. AfterClosure(i)' = AfterClosure(i)
    BY <1>1 DEF AfterClosure
  <2>4. PendingOpen' \subseteq PendingOpen
    <3>1. PendingOpen' \subseteq Clients
      BY DEF PendingOpen
    <3> QED BY <2>2, <3>1 DEF Passes
  <2>5. /\ Cardinality(PendingOpen') <= Cardinality(PendingOpen)
        /\ Cardinality(AfterClosure(i)) \in Nat /\ Cardinality(PendingOpen) \in Nat
        /\ Cardinality(PendingOpen') \in Nat /\ Cardinality(Clients) \in Nat
    BY <1>2, <2>4, RoomsFinite, Shrinking
  <2> QED BY <2>2, <2>3, <2>5
<1>5. RetirementRoom'
  <2> SUFFICES ASSUME NEW i \in DOMAIN events', OperationAt(i)'.type = "retire_project"
               PROVE  /\ bindings'[OperationAt(i)'.project] = "retired"
                      /\ Cardinality(AfterRetirement(i)')
                           + Cardinality(PendingOf(OperationAt(i).project)')
                           < Cardinality(Clients)
    BY DEF RetirementRoom
  <2>1. i \in DOMAIN events /\ OperationAt(i)' = OperationAt(i)
    BY <1>1
  <2>p. PICK p : p = OperationAt(i).project
    OBVIOUS
  <2>2. /\ bindings[p] = "retired"
        /\ Cardinality(AfterRetirement(i)) + Cardinality(PendingOf(p)) < Cardinality(Clients)
    BY <2>1, <2>p DEF OvertakingInv, RetirementRoom
  <2>3. AfterRetirement(i)' = AfterRetirement(i)
    BY <1>1, <2>1 DEF AfterRetirement
  <2>4. OperationAt(i)'.project = p
    BY <2>1, <2>p
  <2>5. PendingOf(p)' \subseteq PendingOf(p)
    <3>1. PendingOf(p)' \subseteq Clients
      BY DEF PendingOf
    <3> QED BY <2>2, <3>1 DEF Passes
  <2>6. /\ Cardinality(PendingOf(p)') <= Cardinality(PendingOf(p))
        /\ Cardinality(AfterRetirement(i)) \in Nat /\ Cardinality(PendingOf(p)) \in Nat
        /\ Cardinality(PendingOf(p)') \in Nat /\ Cardinality(Clients) \in Nat
    BY <1>2, <2>5, RoomsFinite, Shrinking
  <2>7. PendingOf(OperationAt(i).project)' = PendingOf(p)'
    BY <2>4 DEF PendingOf
  <2> QED BY <2>2, <2>3, <2>4, <2>6, <2>7
<1> QED BY <1>3, <1>4, <1>5

\* The statuses that a transaction leaves: a closure closes the programme, a
\* retirement retires the project, and neither is undone.
Transits(o) ==
  /\ programmeStatus = "closed" => programmeStatus' = "closed"
  /\ o.type = "close_programme" => programmeStatus' = "closed"
  /\ \A q \in Projects : bindings[q] = "retired" => bindings'[q] = "retired"
  /\ o.type = "retire_project" => bindings'[o.project] = "retired"

LEMMA TransactTransits ==
  ASSUME SafetyInv, NEW k \in Committing, Transact(k.operation, EventOf(k)),
         ~Recorded(k.operation.id)
  PROVE  Transits(k.operation) /\ events' = Append(events, EventOf(k))
<1> DEFINE e == EventOf(k)
<1>1. /\ bindings \in [Projects -> BindingStatuses]
      /\ e \in Event /\ e.project \in Projects
  BY EventOfType DEF SafetyInv, TypeInv, TypeOK, StoreTypeOK, Event
<1>2. /\ e.operation = k.operation.id /\ e.project = k.operation.project
      /\ e.status = StatusAfter(k.operation.type)
  BY DEF EventOf
<1> HIDE DEF e
<1>3. CASE k.operation.type = "register_project" /\ RegisterBinding(e)
  BY <1>1, <1>2, <1>3 DEF RegisterBinding, Transits, e
<1>4. CASE k.operation.type = "retire_project" /\ TransitionBinding(e)
  <2>1. e.status = "retired"
    BY <1>2, <1>4 DEF StatusAfter
  <2> QED BY <1>1, <1>2, <1>4, <2>1 DEF TransitionBinding, Transits, e
<1>5. CASE k.operation.type = "close_programme" /\ CloseProgramme(e)
  BY <1>1, <1>2, <1>5 DEF CloseProgramme, Transits, e
<1>6. CASE k.operation.type \notin BindingOperations /\ AppendEvent(e)
  BY <1>6 DEF AppendEvent, Transits, BindingOperations, e
<1>7. ~ReturnRecorded(e)
  BY <1>2 DEF ReturnRecorded
<1> QED BY <1>3, <1>4, <1>5, <1>6, <1>7 DEF Transact, e

\* The transaction that appends an event takes its client out of every set of pending
\* commits it was in: the event is the one overtaking commit of that client.
LEMMA OvertakingAppend ==
  ASSUME OvertakingInv, TypeOK', Grows, Passes, NEW c \in Clients, NEW k \in Committing,
         k = clients[c], k.pc = "apply", CommitSound(k), Transits(k.operation),
         events' = Append(events, EventOf(k)), UNCHANGED assessments,
         clients'[c].pc = "consume"
  PROVE  /\ \A i \in DOMAIN events' : AssessmentOf(i)'.targetHead < i
         /\ HeadRoom' /\ ClosureRoom' /\ RetirementRoom'
<1> DEFINE e == EventOf(k)
           o == k.operation
<1>0. TypeOK /\ TypeOK'
  BY DEF OvertakingInv, SafetyInv, TypeInv
<1>1. events \in Seq(Event) /\ e \in Event /\ Len(events) \in Nat
  BY <1>0, EventOfType DEF TypeOK, StoreTypeOK
<1>2. e.assessment = k.assessment
  BY DEF EventOf
<1> HIDE DEF e
<1>n. PICK n \in Nat : n = Len(events) + 1
  BY <1>1
<1>3. /\ events'[n] = e /\ DOMAIN events = 1..(n - 1) /\ n - 1 = Len(events)
      /\ DOMAIN events' = 1..n
  <2>1. events' = Append(events, e)
    BY DEF e
  <2>2. events' \in Seq(Event) /\ Len(events') = n
    BY <1>1, <1>n, <2>1
  <2> QED BY <1>1, <1>n, <2>1, <2>2
<1>4. \A i \in DOMAIN events :
        /\ OperationAt(i)' = OperationAt(i)
        /\ AssessmentOf(i)'.targetHead = AssessmentOf(i).targetHead
  BY OriginStays DEF OvertakingInv
<1>5. OperationAt(n)' = o /\ AssessmentOf(n)'.targetHead = k.head
  BY <1>2, <1>3 DEF CommitSound, OperationAt, AssessmentOf
<1>6. \A i \in DOMAIN events' : i = n \/ (i \in DOMAIN events /\ i < n)
  BY <1>3
<1>7. n \in DOMAIN events' /\ n \notin DOMAIN events
  BY <1>3
<1>8. k.head \in Nat /\ k.head < n
  <2>1. assessments[k.assessment].targetHead <= Len(events)
    BY DEF OvertakingInv, HeadsExist, CommitSound
  <2> QED BY <1>1, <1>n, <2>1 DEF CommitSound, Committing
<1>9. \A i \in DOMAIN events : OperationAt(i).project \in Projects
  <2> SUFFICES ASSUME NEW i \in DOMAIN events
               PROVE  OperationAt(i).project \in Projects
    OBVIOUS
  <2>1. events[i].assessment \in DOMAIN assessments
    BY DEF OvertakingInv, SafetyInv, EventsAuthorised, Authorised
  <2>2. assessments[events[i].assessment] \in Assessment
    BY <1>0, <2>1 DEF TypeOK
  <2> QED BY <2>2, OperationsAssumption DEF Assessment, Operation, OperationAt, AssessmentOf
<1>10. o.project \in Projects
  BY OperationsAssumption DEF Committing, Operation
<1>11. /\ \A h : c \notin PendingAt(h)'
       /\ c \notin PendingOpen' /\ \A p : c \notin PendingOf(p)'
  BY DEF PendingAt, PendingOpen, PendingOf, Pending
<1>12. /\ c \in PendingAt(k.head)
       /\ o.type # "close_programme" => c \in PendingOpen /\ c \in PendingOf(o.project)
  BY DEF PendingAt, PendingOpen, PendingOf, Pending
<1>13. /\ \A h : PendingAt(h)' \subseteq Clients
       /\ PendingOpen' \subseteq Clients /\ \A p : PendingOf(p)' \subseteq Clients
  BY DEF PendingAt, PendingOpen, PendingOf
<1>14. Cardinality(Clients \ {c}) < Cardinality(Clients)
       /\ IsFiniteSet(Clients \ {c}) /\ Cardinality(Clients \ {c}) \in Nat
  <2>1. /\ IsFiniteSet(Clients \ {c})
        /\ Cardinality(Clients \ {c}) = Cardinality(Clients) - 1
    BY <1>0, RoomsFinite, FS_RemoveElement
  <2> QED BY <1>0, <2>1, RoomsFinite, FS_CardinalityType
<1>15. \A T \in SUBSET (Clients \ {c}) :
         Cardinality({}) + Cardinality(T) < Cardinality(Clients)
  <2> SUFFICES ASSUME NEW T \in SUBSET (Clients \ {c})
               PROVE  Cardinality({}) + Cardinality(T) < Cardinality(Clients)
    OBVIOUS
  <2>1. Cardinality(T) <= Cardinality(Clients \ {c}) /\ Cardinality(T) \in Nat
    BY <1>14, Shrinking
  <2>2. Cardinality({}) = 0 /\ Cardinality(Clients) \in Nat
    BY <1>0, FS_EmptySet, RoomsFinite
  <2> QED BY <1>14, <2>1, <2>2
<1> HIDE DEF o
<1>16. \A i \in DOMAIN events' : AssessmentOf(i)'.targetHead < i
  BY <1>4, <1>5, <1>6, <1>8 DEF OvertakingInv, HeadsExist
<1>17. HeadRoom'
  <2> SUFFICES ASSUME NEW h \in Nat
               PROVE  Cardinality(BuiltOn(h)') + Cardinality(PendingAt(h)')
                        <= Cardinality(Clients)
    BY DEF HeadRoom
  <2>1. PendingAt(h)' \subseteq PendingAt(h) \ {c}
    <3>1. events' # events
      BY <1>7
    <3> QED BY <1>11, <1>13, <3>1 DEF Passes
  <2>2. /\ IsFiniteSet(BuiltOn(h)) /\ IsFiniteSet(PendingAt(h))
        /\ Cardinality(Clients) \in Nat
        /\ Cardinality(BuiltOn(h)) + Cardinality(PendingAt(h)) <= Cardinality(Clients)
    BY <1>0, RoomsFinite DEF OvertakingInv, HeadRoom
  <2>3. /\ Cardinality(BuiltOn(h)) \in Nat /\ Cardinality(PendingAt(h)) \in Nat
        /\ Cardinality(PendingAt(h)') \in Nat
        /\ Cardinality(PendingAt(h)') <= Cardinality(PendingAt(h))
    BY <2>1, <2>2, Shrinking
  <2>4. IsFiniteSet(BuiltOn(h)') /\ Cardinality(BuiltOn(h)') \in Nat
    <3>1. BuiltOn(h)' \subseteq 1..n /\ IsFiniteSet(1..n)
      <4>1. IsFiniteSet(1..n)
        BY FS_Interval
      <4>2. BuiltOn(h)' \subseteq DOMAIN events'
        BY DEF BuiltOn
      <4> QED BY <1>3, <4>1, <4>2
    <3> QED BY <3>1, Shrinking
  <2>5. CASE h = k.head
    <3>1. BuiltOn(h)' = BuiltOn(h) \cup {n}
      BY <1>4, <1>5, <1>6, <1>7, <1>3, <2>5 DEF BuiltOn
    <3>2. Cardinality(BuiltOn(h) \cup {n}) + Cardinality(PendingAt(h)')
            <= Cardinality(BuiltOn(h)) + Cardinality(PendingAt(h))
      BY <1>12, <2>1, <2>2, <2>5, Moving
    <3>3. Cardinality(BuiltOn(h) \cup {n}) \in Nat
      BY <2>4, <3>1
    <3> QED BY <2>2, <2>3, <3>1, <3>2, <3>3
  <2>6. CASE h # k.head
    <3>1. BuiltOn(h)' = BuiltOn(h)
      BY <1>4, <1>5, <1>6, <1>7, <1>3, <2>6 DEF BuiltOn
    <3> QED BY <2>2, <2>3, <3>1
  <2> QED BY <2>5, <2>6
<1>18. ClosureRoom'
  <2> SUFFICES ASSUME NEW i \in DOMAIN events', OperationAt(i)'.type = "close_programme"
               PROVE  /\ programmeStatus' = "closed"
                      /\ Cardinality(AfterClosure(i)') + Cardinality(PendingOpen')
                           < Cardinality(Clients)
    BY DEF ClosureRoom
  <2>1. CASE i = n
    <3>1. programmeStatus' = "closed"
      BY <1>5, <2>1 DEF Transits, o
    <3>2. AfterClosure(i)' = {}
      BY <1>3, <2>1 DEF AfterClosure
    <3>3. PendingOpen' \in SUBSET (Clients \ {c})
      BY <1>11, <1>13
    <3> QED BY <1>15, <3>1, <3>2, <3>3
  <2>2. CASE i \in DOMAIN events /\ i < n
    <3>1. /\ programmeStatus = "closed"
          /\ Cardinality(AfterClosure(i)) + Cardinality(PendingOpen) < Cardinality(Clients)
      BY <1>4, <2>2 DEF OvertakingInv, ClosureRoom
    <3>2. programmeStatus' = "closed"
      BY <3>1 DEF Transits
    <3>3. PendingOpen' \subseteq PendingOpen \ {c}
      BY <1>11, <1>13, <3>1 DEF Passes
    <3>4. /\ IsFiniteSet(AfterClosure(i)) /\ IsFiniteSet(PendingOpen)
          /\ Cardinality(Clients) \in Nat
      BY <1>0, RoomsFinite
    <3>5. /\ Cardinality(AfterClosure(i)) \in Nat /\ Cardinality(PendingOpen) \in Nat
          /\ Cardinality(PendingOpen') \in Nat
          /\ Cardinality(PendingOpen') <= Cardinality(PendingOpen)
      BY <3>3, <3>4, Shrinking
    <3>6. CASE o.type = "close_programme"
      <4>1. AfterClosure(i)' = AfterClosure(i)
        BY <1>3, <1>4, <1>5, <1>6, <3>6 DEF AfterClosure
      <4> QED BY <3>1, <3>2, <3>4, <3>5, <4>1
    <3>7. CASE o.type # "close_programme"
      <4>1. AfterClosure(i)' = AfterClosure(i) \cup {n}
        BY <1>3, <1>4, <1>5, <1>6, <1>7, <2>2, <3>7 DEF AfterClosure
      <4>2. Cardinality(AfterClosure(i) \cup {n}) + Cardinality(PendingOpen')
              <= Cardinality(AfterClosure(i)) + Cardinality(PendingOpen)
        BY <1>12, <3>3, <3>4, <3>7, Moving
      <4>3. Cardinality(AfterClosure(i) \cup {n}) \in Nat
        BY <3>4, FS_AddElement, FS_CardinalityType
      <4> QED BY <3>1, <3>2, <3>4, <3>5, <4>1, <4>2, <4>3
    <3> QED BY <3>6, <3>7
  <2> QED BY <1>6, <2>1, <2>2
<1>19. RetirementRoom'
  <2> SUFFICES ASSUME NEW i \in DOMAIN events', OperationAt(i)'.type = "retire_project"
               PROVE  /\ bindings'[OperationAt(i)'.project] = "retired"
                      /\ Cardinality(AfterRetirement(i)')
                           + Cardinality(PendingOf(OperationAt(i).project)')
                           < Cardinality(Clients)
    BY DEF RetirementRoom
  <2>p. PICK p : p = OperationAt(i)'.project
    OBVIOUS
  <2>1. PendingOf(OperationAt(i).project)' = PendingOf(p)'
    BY <2>p DEF PendingOf
  <2>2. CASE i = n
    <3>1. bindings'[p] = "retired"
      BY <1>5, <2>2, <2>p DEF Transits, o
    <3>2. AfterRetirement(i)' = {}
      BY <1>3, <2>2 DEF AfterRetirement
    <3>3. PendingOf(p)' \in SUBSET (Clients \ {c})
      BY <1>11, <1>13
    <3> QED BY <1>15, <2>1, <2>p, <3>1, <3>2, <3>3
  <2>3. CASE i \in DOMAIN events /\ i < n
    <3>0. p = OperationAt(i).project /\ p \in Projects
      BY <1>4, <1>9, <2>3, <2>p
    <3>1. /\ bindings[p] = "retired"
          /\ Cardinality(AfterRetirement(i)) + Cardinality(PendingOf(p))
               < Cardinality(Clients)
      BY <1>4, <2>3, <3>0 DEF OvertakingInv, RetirementRoom
    <3>2. bindings'[p] = "retired"
      BY <3>0, <3>1 DEF Transits
    <3>3. PendingOf(p)' \subseteq PendingOf(p) \ {c}
      BY <1>11, <1>13, <3>1 DEF Passes
    <3>4. /\ IsFiniteSet(AfterRetirement(i)) /\ IsFiniteSet(PendingOf(p))
          /\ Cardinality(Clients) \in Nat
      BY <1>0, RoomsFinite
    <3>5. /\ Cardinality(AfterRetirement(i)) \in Nat /\ Cardinality(PendingOf(p)) \in Nat
          /\ Cardinality(PendingOf(p)') \in Nat
          /\ Cardinality(PendingOf(p)') <= Cardinality(PendingOf(p))
      BY <3>3, <3>4, Shrinking
    <3>6. CASE o.type = "close_programme" \/ o.project # p
      <4>1. AfterRetirement(i)' = AfterRetirement(i)
        BY <1>3, <1>4, <1>5, <1>6, <2>3, <3>0, <3>6 DEF AfterRetirement
      <4> QED BY <2>1, <2>p, <3>1, <3>2, <3>4, <3>5, <4>1
    <3>7. CASE o.type # "close_programme" /\ o.project = p
      <4>1. AfterRetirement(i)' = AfterRetirement(i) \cup {n}
        BY <1>3, <1>4, <1>5, <1>6, <1>7, <2>3, <3>0, <3>7 DEF AfterRetirement
      <4>2. Cardinality(AfterRetirement(i) \cup {n}) + Cardinality(PendingOf(p)')
              <= Cardinality(AfterRetirement(i)) + Cardinality(PendingOf(p))
        BY <1>12, <3>3, <3>4, <3>7, Moving
      <4>3. Cardinality(AfterRetirement(i) \cup {n}) \in Nat
        BY <3>4, FS_AddElement, FS_CardinalityType
      <4> QED BY <2>1, <2>p, <3>1, <3>2, <3>4, <3>5, <4>1, <4>2, <4>3
    <3> QED BY <3>6, <3>7
  <2> QED BY <1>6, <2>2, <2>3
<1> QED BY <1>16, <1>17, <1>18, <1>19

\* The heads that assessments hold exist: they were read off the chain.
LEMMA NextHeads ==
  ASSUME SafetyInv, HeadsExist, Grows, [Next]_vars, TypeOK',
         \A i \in DOMAIN events' : AssessmentOf(i)'.targetHead < i
  PROVE  HeadsExist'
<1>0. TypeOK /\ TypeOK'
  BY DEF SafetyInv, TypeInv
<1>1. Len(events) \in Nat /\ Len(events') \in Nat /\ Len(events) <= Len(events')
  <2>1. Len(events) \in Nat /\ Len(events') \in Nat
    BY <1>0 DEF TypeOK, StoreTypeOK
  <2>2. DOMAIN events = 1..Len(events) /\ DOMAIN events' = 1..Len(events')
    BY <1>0 DEF TypeOK, StoreTypeOK
  <2>3. DOMAIN events \subseteq DOMAIN events'
    BY DEF Grows
  <2> QED BY <2>1, <2>2, <2>3
<1>2. \A a \in DOMAIN assessments : assessments[a].targetHead \in Nat
  <2>1. \A a \in DOMAIN assessments : assessments[a] \in Assessment
    BY <1>0 DEF TypeOK
  <2> QED BY <2>1 DEF Assessment
<1>3. \A c \in Clients : clients[c] \in Assessing => clients[c].head \in Nat
  BY DEF Assessing
<1>4. ASSUME NEW c \in Clients, clients'[c] \in Assessing, clients'[c].pc = "save"
      PROVE  clients'[c].head <= Len(events')
  <2>0. clients[c] \in Calls
    BY <1>0 DEF TypeOK, Calls
  <2>1. CASE clients'[c] = clients[c]
    BY <1>1, <1>3, <1>4, <2>1 DEF HeadsExist
  <2>2. CASE ReadHead(c)
    <3>1. clients'[c] = [clients[c] EXCEPT !.pc = "save", !.head = ChainHead]
      BY <1>0, <2>2 DEF ReadHead, TypeOK
    <3>2. clients[c] \in Assessing /\ UNCHANGED events
      BY <2>0, <2>2, CallOf DEF ReadHead, In, Tables, store
    <3>3. clients'[c].head = ChainHead
      BY <3>1, <3>2 DEF Assessing
    <3> QED BY <1>1, <3>2, <3>3 DEF ChainHead
  <2>3. ASSUME NEW pc \in {"programme", "binding", "apply", "readHead", "consume"}, Goto(c, pc)
        PROVE  FALSE
    <3>1. clients'[c] = [clients[c] EXCEPT !.pc = pc]
      BY <1>0, <2>3 DEF Goto, TypeOK
    <3>2. clients'[c].pc # "save"
      BY <2>0, <3>1 DEF Calls, Idle, Assessing, Committing
    <3> QED BY <1>4, <3>2
  <2>4. ASSUME Return(c)
        PROVE  FALSE
    <3>1. clients'[c] = Idle
      BY <1>0, <2>4, OthersStay DEF Return
    <3> QED BY <1>4, <3>1 DEF Idle, Assessing
  <2>5. ASSUME Start(c)
        PROVE  FALSE
    <3>1. clients'[c].pc \in {"programme", "checkHead"}
      BY <1>0, <2>5 DEF Start, StartAssess, StartCommit, TypeOK
    <3> QED BY <1>4, <3>1
  <2>6. CASE \/ CheckProgramme(c) \/ CheckBinding(c) \/ CheckHead(c) \/ Apply(c)
             \/ SaveAssessment(c) \/ ApplyFails(c) \/ Consume(c) \/ LockTimeout(c) \/ Crash(c)
    BY <2>3, <2>4, <2>6 DEF CheckProgramme, CheckBinding, CheckHead, Check, Apply,
       SaveAssessment, ApplyFails, Consume, LockTimeout, Crash
  <2>7. ASSUME NEW d \in Clients, d # c, Start(d) \/ Step(d) \/ Crash(d)
        PROVE  clients'[c] = clients[c]
    <3>1. PICK r : clients' = [clients EXCEPT ![d] = r]
      BY <2>7 DEF Start, StartAssess, StartCommit, Step, CheckProgramme, CheckBinding,
         ReadHead, SaveAssessment, CheckHead, Apply, ApplyFails, Consume, LockTimeout,
         Crash, Check, Goto, Return
    <3> QED BY <1>0, <2>7, <3>1, OthersStay
  <2>8. ASSUME Review \/ Rebuild \/ Tick \/ UNCHANGED vars
        PROVE  clients'[c] = clients[c]
    BY <2>8 DEF Review, Decide, Rebuild, Tick, vars
  <2> QED BY <2>1, <2>2, <2>5, <2>6, <2>7, <2>8 DEF Next, Step
<1>5. ASSUME NEW a \in DOMAIN assessments'
      PROVE  assessments'[a].targetHead <= Len(events')
  <2>1. CASE a \in DOMAIN assessments
    BY <1>1, <1>2, <2>1 DEF Grows, HeadsExist
  <2>2. CASE a \notin DOMAIN assessments
    <3>1. PICK c \in Clients : SaveAssessment(c)
      <4>1. ASSUME NEW c \in Clients, Consume(c)
            PROVE  DOMAIN assessments' = DOMAIN assessments
        BY <1>0, <4>1 DEF Consume, TypeOK
      <4>2. ASSUME NEW c \in Clients, Start(c) \/ Step(c) \/ Crash(c),
                   ~Consume(c), ~SaveAssessment(c)
            PROVE  UNCHANGED assessments
        BY <4>2 DEF Start, StartAssess, StartCommit, Step, CheckProgramme, CheckBinding,
           ReadHead, CheckHead, Apply, ApplyFails, LockTimeout, Crash, Tables
      <4>3. ASSUME Review \/ Rebuild \/ Tick \/ UNCHANGED vars
            PROVE  UNCHANGED assessments
        BY <4>3 DEF Review, Decide, Rebuild, Tick, vars
      <4> QED BY <1>5, <2>2, <4>1, <4>2, <4>3 DEF Next
    <3>2. clients[c] \in Assessing /\ clients[c].pc = "save"
      BY <1>0, <3>1, CallOf DEF SaveAssessment, In, TypeOK, Calls
    <3>3. clients[c].head <= Len(events)
      BY <3>2 DEF HeadsExist
    <3>4. PICK x : x.targetHead = clients[c].head /\ assessments' = Append(assessments, x)
      BY <3>1 DEF SaveAssessment
    <3>5. assessments'[a] = x
      <4>1. Len(assessments) \in Nat /\ DOMAIN assessments = 1..Len(assessments)
        BY <1>0 DEF TypeOK
      <4>2. assessments' \in Seq(Assessment) /\ Len(assessments') = Len(assessments) + 1
        BY <1>0, <3>4 DEF TypeOK
      <4>3. a = Len(assessments) + 1
        BY <1>5, <2>2, <4>1, <4>2
      <4> QED BY <1>0, <3>4, <4>1, <4>3 DEF TypeOK
    <3> QED BY <1>1, <1>3, <3>2, <3>3, <3>4, <3>5
  <2> QED BY <2>1, <2>2
<1> QED BY <1>4, <1>5 DEF HeadsExist

\* Every step keeps the bounds on what may still overtake.
LEMMA NextOvertaking == OvertakingInv /\ [Next]_vars => OvertakingInv'
<1> SUFFICES ASSUME OvertakingInv, [Next]_vars PROVE OvertakingInv'
  OBVIOUS
<1>1. SafetyInv' /\ Grows /\ Passes
  BY NextSafety, NextGrows, NextPasses DEF OvertakingInv, SafetyInv, TypeInv
<1>0. SafetyInv /\ TypeOK /\ TypeOK'
  BY <1>1 DEF OvertakingInv, SafetyInv, TypeInv
<1>2. CASE UNCHANGED <<events, bindings, programmeStatus>>
  <2>1. \A i \in DOMAIN events' : AssessmentOf(i)'.targetHead < i
    BY <1>0, <1>1, <1>2, OriginStays DEF OvertakingInv, HeadsExist
  <2>2. HeadsExist'
    BY <1>0, <1>1, <2>1, NextHeads DEF OvertakingInv
  <2> QED BY <1>0, <1>1, <1>2, <2>2, OvertakingStays DEF OvertakingInv
<1>3. ASSUME NEW c \in Clients, Apply(c)
      PROVE  OvertakingInv'
  <2>2. PICK k \in Committing : k = clients[c] /\ k.pc = "apply"
    BY <1>0, <1>3, CallOf DEF Apply, In, TypeOK, Calls
  <2>3. CommitSound(k) /\ UNCHANGED assessments
    BY <1>0, <1>3, <2>2 DEF SafetyInv, CommitsSound, Apply
  <2>4. Transact(k.operation, EventOf(k))
    BY <1>3, <2>2 DEF Apply
  <2>5. CASE Recorded(k.operation.id)
    <3>1. EventOf(k).operation = k.operation.id
      BY DEF EventOf
    <3>2. UNCHANGED <<events, bindings, programmeStatus>>
      BY <2>4, <2>5, <3>1 DEF Transact, RegisterBinding, TransitionBinding,
                              CloseProgramme, AppendEvent, ReturnRecorded, store
    <3> QED BY <1>2, <3>2
  <2>6. CASE ~Recorded(k.operation.id)
    <3>1. Transits(k.operation) /\ events' = Append(events, EventOf(k))
      BY <1>0, <2>4, <2>6, TransactTransits
    <3>2. clients'[c].pc = "consume"
      BY <1>0, <1>3, <2>2 DEF Apply, Goto, TypeOK, Committing
    <3>3. /\ \A i \in DOMAIN events' : AssessmentOf(i)'.targetHead < i
          /\ HeadRoom' /\ ClosureRoom' /\ RetirementRoom'
      BY <1>0, <1>1, <2>2, <2>3, <3>1, <3>2, OvertakingAppend
    <3>4. HeadsExist'
      BY <1>0, <1>1, <3>3, NextHeads DEF OvertakingInv
    <3> QED BY <1>1, <3>3, <3>4 DEF OvertakingInv
  <2> QED BY <2>5, <2>6
<1>4. ASSUME NEW c \in Clients, Start(c) \/ Step(c) \/ Crash(c), ~Apply(c)
      PROVE  UNCHANGED <<events, bindings, programmeStatus>>
  BY <1>4 DEF Start, StartAssess, StartCommit, Step, CheckProgramme, CheckBinding,
              ReadHead, SaveAssessment, CheckHead, ApplyFails, Consume, LockTimeout,
              Crash, Tables, store
<1>5. ASSUME Review \/ Rebuild \/ Tick \/ UNCHANGED vars
      PROVE  UNCHANGED <<events, bindings, programmeStatus>>
  BY <1>5 DEF Review, Decide, Rebuild, BeginRebuild, ReplayEvent, CommitRebuild,
              RollBackRebuild, Tick, vars, store
<1> QED BY <1>2, <1>3, <1>4, <1>5 DEF Next

LEMMA Overtaking == Spec => []OvertakingInv
<1>1. Init => OvertakingInv
  <2> SUFFICES ASSUME Init PROVE OvertakingInv
    OBVIOUS
  <2>1. /\ DOMAIN events = {} /\ DOMAIN assessments = {}
        /\ \A c \in Clients : clients[c] \notin Committing /\ clients[c] \notin Assessing
    BY DEF Init, StoreInit, Idle, Committing, Assessing
  <2>2. SafetyInv /\ TypeOK
    BY InitSafety DEF SafetyInv, TypeInv
  <2>3. \A h : BuiltOn(h) = {} /\ PendingAt(h) = {}
    BY <2>1 DEF BuiltOn, PendingAt, Pending
  <2>4. Cardinality({}) + Cardinality({}) <= Cardinality(Clients)
    BY <2>2, FS_EmptySet, RoomsFinite
  <2> QED BY <2>1, <2>2, <2>3, <2>4
          DEF OvertakingInv, HeadsExist, HeadRoom, ClosureRoom, RetirementRoom
<1> QED BY <1>1, NextOvertaking, PTL DEF Spec

\* However many clients compare the head at the same time, each of them builds on it
\* at most once, and only on a head that exists (commit_operation's head check, which
\* is not part of the transaction that appends).
THEOREM HeadShared == Spec => []HeadSharedOncePerClient
<1>1. OvertakingInv => HeadSharedOncePerClient
  <2> SUFFICES ASSUME OvertakingInv, NEW i \in DOMAIN events
               PROVE  LET head == AssessmentOf(i).targetHead
                      IN  head < i /\ Cardinality(BuiltOn(head)) <= Cardinality(Clients)
    BY DEF HeadSharedOncePerClient
  <2>1. PICK head : head = AssessmentOf(i).targetHead
    OBVIOUS
  <2>2. TypeOK /\ events[i].assessment \in DOMAIN assessments
    BY DEF OvertakingInv, SafetyInv, TypeInv, EventsAuthorised, Authorised
  <2>3. head \in Nat /\ head < i
    <3>1. AssessmentOf(i) \in Assessment
      BY <2>2 DEF TypeOK, AssessmentOf
    <3>2. AssessmentOf(i).targetHead < i
      BY DEF OvertakingInv, HeadsExist
    <3> QED BY <2>1, <3>1, <3>2 DEF Assessment
  <2>4. Cardinality(BuiltOn(head)) \in Nat /\ Cardinality(PendingAt(head)) \in Nat
        /\ Cardinality(Clients) \in Nat
    BY <2>2, RoomsFinite, FS_CardinalityType
  <2>5. Cardinality(BuiltOn(head)) + Cardinality(PendingAt(head)) <= Cardinality(Clients)
    BY <2>3 DEF OvertakingInv, HeadRoom
  <2> QED BY <2>1, <2>3, <2>4, <2>5
<1> QED BY <1>1, Overtaking, PTL

\* After a programme's closure each other client adds at most one event: the commit
\* that had read the status "active" before (_binding's first read).
THEOREM ClosureOvertaken == Spec => []ClosureOvertakenOncePerClient
<1>1. OvertakingInv => ClosureOvertakenOncePerClient
  <2> SUFFICES ASSUME OvertakingInv, NEW i \in DOMAIN events,
                      OperationAt(i).type = "close_programme"
               PROVE  Cardinality(AfterClosure(i)) < Cardinality(Clients)
    BY DEF ClosureOvertakenOncePerClient
  <2>1. Cardinality(AfterClosure(i)) + Cardinality(PendingOpen) < Cardinality(Clients)
    BY DEF OvertakingInv, ClosureRoom
  <2>2. Cardinality(AfterClosure(i)) \in Nat /\ Cardinality(PendingOpen) \in Nat
        /\ Cardinality(Clients) \in Nat
    BY RoomsFinite, FS_CardinalityType DEF OvertakingInv, SafetyInv, TypeInv
  <2> QED BY <2>1, <2>2
<1> QED BY <1>1, Overtaking, PTL

\* After a project's retirement each other client adds at most one event of the
\* project: the commit that had read the binding before (_binding's second read).
THEOREM RetirementOvertaken == Spec => []RetirementOvertakenOncePerClient
<1>1. OvertakingInv => RetirementOvertakenOncePerClient
  <2> SUFFICES ASSUME OvertakingInv, NEW i \in DOMAIN events,
                      OperationAt(i).type = "retire_project"
               PROVE  Cardinality(AfterRetirement(i)) < Cardinality(Clients)
    BY DEF RetirementOvertakenOncePerClient
  <2>p. PICK p : p = OperationAt(i).project
    OBVIOUS
  <2>1. Cardinality(AfterRetirement(i)) + Cardinality(PendingOf(p)) < Cardinality(Clients)
    BY <2>p DEF OvertakingInv, RetirementRoom
  <2>2. Cardinality(AfterRetirement(i)) \in Nat /\ Cardinality(PendingOf(p)) \in Nat
        /\ Cardinality(Clients) \in Nat
    BY RoomsFinite, FS_CardinalityType DEF OvertakingInv, SafetyInv, TypeInv
  <2> QED BY <2>1, <2>2
<1> QED BY <1>1, Overtaking, PTL
=============================================================================
