---------------------------- MODULE ProgrammeStore ----------------------------
(***************************************************************************)
(* The SQLite store of one research programme (programme_store.py): the    *)
(* append-only event chain that all projects of the programme share, the   *)
(* per-project projection of memory items, the project bindings and the    *)
(* programme's status.                                                     *)
(*                                                                         *)
(* Every store call is one BEGIN IMMEDIATE transaction, so it is one       *)
(* action, guarded by LockFree; only rebuild_projection, which replays the *)
(* chain event by event while it holds the write lock, takes several.      *)
(* An event's hash covers its predecessor's hash and a fresh event id, so  *)
(* a hash is here the position of the event: the head is Len(events), and  *)
(* version_id and last_event_hash are positions.                           *)
(***************************************************************************)
EXTENDS Naturals, Sequences

CONSTANTS
  Projects,      \* project scopes of the programme
  Items,         \* memory item identifiers
  OperationIds,  \* RPMOperation.operation_id values
  None           \* the absence of an item, a disposition or a project

VARIABLES
  events,          \* table events, in sequence order
  projections,     \* table projections: project -> item -> row
  bindings,        \* table bindings: project -> status
  programmeStatus, \* table programme_state
  rebuild          \* the rebuild_projection transaction in progress, if any

store == <<events, projections, bindings, programmeStatus, rebuild>>

-----------------------------------------------------------------------------
(* Rows of the projection. "absent" is the row that does not exist. *)

ProjectionStatuses ==
  {"active", "contradicted", "corrected", "superseded", "expired", "deleted"}

\* Two of the six dispositions: query() treats "resolved_by_scope" apart and
\* nothing tells the other five apart.
Dispositions == {"resolved_by_evidence", "resolved_by_scope"}

Row ==
  [status         : ProjectionStatuses \cup {"absent"},
   content        : {"none", "candidate", "lifecycle"},
   predecessor    : Items \cup {None},
   successor      : Items \cup {None},
   contradictions : Nat,
   resolution     : Dispositions \cup {None},
   expiry         : Nat,
   version        : Nat,
   last           : Nat]

AbsentRow ==
  [status |-> "absent", content |-> "none", predecessor |-> None,
   successor |-> None, contradictions |-> 0, resolution |-> None,
   expiry |-> 0, version |-> 0, last |-> 0]

NoRows == [item \in Items |-> AbsentRow]

ASSUME NoneAssumption == None \notin Items \cup Projects \cup Dispositions

BindingStatuses == {"unregistered", "active", "retired"}

EventTypes ==
  {"write", "confirm", "correct", "supersede", "contradiction_opened",
   "contradiction_resolved", "expire", "delete", "exceptional_read",
   "status_change"}

\* item is the event's item_id; None stands for no item and for the
\* "binding:..." items, which the projection skips alike.
Event ==
  [operation   : OperationIds,
   type        : EventTypes,
   project     : Projects,
   item        : Items \cup {None},
   candidate   : Items \cup {None},
   expiry      : Nat,
   disposition : Dispositions \cup {None},
   status      : ProjectionStatuses \cup BindingStatuses \cup {"closed"},
   assessment  : Nat,
   committedAt : Nat]

-----------------------------------------------------------------------------
(* _apply_projection_locked: the rows after event e, which has position n. *)

CandidateRow(e, n, predecessor) ==
  [AbsentRow EXCEPT !.status = "active", !.content = "candidate",
                    !.predecessor = predecessor, !.expiry = e.expiry,
                    !.version = n, !.last = n]

\* 9999-12-31 in the code: later than every time of the model.
FarFuture == 1000

LifecycleRow(e, n) ==
  [status |-> e.status, content |-> "lifecycle", predecessor |-> None,
   successor |-> None, contradictions |-> 0, resolution |-> e.disposition,
   expiry |-> FarFuture, version |-> n, last |-> n]

\* The successor's row is written after the target's: when both are the same
\* item the successor's row is the one that stays.
Succeed(rows, e, n) ==
  LET closed == IF rows[e.item].status = "absent"
                THEN rows
                ELSE [rows EXCEPT ![e.item].status =
                                     IF e.type = "correct" THEN "corrected"
                                                           ELSE "superseded",
                                  ![e.item].successor = e.candidate,
                                  ![e.item].last = n]
  IN  [closed EXCEPT ![e.candidate] = CandidateRow(e, n, e.item)]

\* Mutant: the row takes the event's type for its status.
TouchByType(row, e, n) == [row EXCEPT !.status = e.type, !.last = n]

Touch(row, e, n) ==
  [row EXCEPT !.status = e.status,
              !.last = n,
              !.contradictions = IF e.type = "contradiction_opened"
                                 THEN @ + 1 ELSE @,
              !.resolution = IF e.disposition = None
                             THEN @ ELSE e.disposition]

ApplyProjection(rows, e, n) ==
  IF e.item = None
  THEN rows
  ELSE IF e.type = "write" /\ e.candidate # None
  THEN [rows EXCEPT ![e.candidate] = CandidateRow(e, n, None)]
  ELSE IF e.type \in {"correct", "supersede"} /\ e.candidate # None
  THEN Succeed(rows, e, n)
  ELSE IF rows[e.item].status # "absent"
  THEN [rows EXCEPT ![e.item] = Touch(@, e, n)]
  ELSE [rows EXCEPT ![e.item] = LifecycleRow(e, n)]

\* The projection of an item's event raises, and the transaction rolls back, on
\* an unknown status or on a contradiction_resolved without a valid disposition.
Projectable(e) ==
  e.item # None =>
    /\ e.status \in ProjectionStatuses
    /\ e.type = "contradiction_resolved" => e.disposition \in Dispositions

-----------------------------------------------------------------------------
(* The transactions. *)

NoRebuild == [project |-> None, next |-> 1, rows |-> NoRows]

LockFree == rebuild.project = None

ChainHead == Len(events)

\* SELECT event_json FROM events WHERE operation_id = ?, and the UNIQUE
\* constraint of that column.
Recorded(operation) == \E i \in DOMAIN events : events[i].operation = operation

StoreInit ==
  /\ events = << >>
  /\ projections = [p \in Projects |-> NoRows]
  /\ bindings = [p \in Projects |-> "unregistered"]
  /\ programmeStatus = "active"
  /\ rebuild = NoRebuild

\* Mutant: the lookup by operation id is dropped.
AppendEventAgain(e) ==
  /\ LockFree
  /\ Projectable(e)
  /\ events' = Append(events, e)
  /\ projections' = [projections EXCEPT
                       ![e.project] = ApplyProjection(@, e, ChainHead + 1)]
  /\ UNCHANGED <<bindings, programmeStatus, rebuild>>

\* Mutant: the row's key is the item alone, without the project.
AppendEventAcross(e) ==
  /\ LockFree
  /\ ~Recorded(e.operation)
  /\ Projectable(e)
  /\ events' = Append(events, e)
  /\ projections' =
       [p \in Projects |-> ApplyProjection(projections[p], e, ChainHead + 1)]
  /\ UNCHANGED <<bindings, programmeStatus, rebuild>>

\* append_event, when the operation id is new: event and projection commit
\* together.
AppendEvent(e) ==
  /\ LockFree
  /\ ~Recorded(e.operation)
  /\ Projectable(e)
  /\ events' = Append(events, e)
  /\ projections' = [projections EXCEPT
                       ![e.project] = ApplyProjection(@, e, ChainHead + 1)]
  /\ UNCHANGED <<bindings, programmeStatus, rebuild>>

\* append_event, when the operation id is known: the recorded event is
\* returned and nothing is written.
ReturnRecorded(e) ==
  /\ LockFree
  /\ Recorded(e.operation)
  /\ UNCHANGED store

\* register_binding. A second registration always carries a new binding id and
\* creation time, so its digest differs from the stored one: it is a collision.
RegisterBinding(e) ==
  /\ LockFree
  /\ bindings[e.project] = "unregistered"
  /\ ~Recorded(e.operation)
  /\ bindings' = [bindings EXCEPT ![e.project] = "active"]
  /\ events' = Append(events, e)
  /\ UNCHANGED <<projections, programmeStatus, rebuild>>

TransitionBinding(e) ==
  /\ LockFree
  /\ bindings[e.project] # "unregistered"
  /\ ~Recorded(e.operation)
  /\ bindings' = [bindings EXCEPT ![e.project] = e.status]
  /\ events' = Append(events, e)
  /\ UNCHANGED <<projections, programmeStatus, rebuild>>

\* Mutant: a second closure is not refused.
CloseAgain(e) ==
  /\ LockFree
  /\ programmeStatus' = "closed"
  /\ events' = Append(events, e)
  /\ UNCHANGED <<projections, bindings, rebuild>>

CloseProgramme(e) ==
  /\ LockFree
  /\ ~Recorded(e.operation)
  /\ programmeStatus' = "closed"
  /\ events' = Append(events, e)
  /\ UNCHANGED <<projections, bindings, rebuild>>

\* rebuild_projection(p): take the lock, delete the project's rows, replay every
\* event of the programme (self.events filters by programme only), commit.
BeginRebuild(p) ==
  /\ LockFree
  /\ rebuild' = [project |-> p, next |-> 1, rows |-> NoRows]
  /\ UNCHANGED <<events, projections, bindings, programmeStatus>>

\* Mutant: the events are read newest first.
ReplayNewestFirst ==
  /\ ~LockFree
  /\ rebuild.next <= ChainHead
  /\ LET n == ChainHead + 1 - rebuild.next
     IN  rebuild' = [rebuild EXCEPT !.next = @ + 1,
                                    !.rows = ApplyProjection(@, events[n], n)]
  /\ UNCHANGED <<events, projections, bindings, programmeStatus>>

ReplayEvent ==
  /\ ~LockFree
  /\ rebuild.next <= ChainHead
  /\ rebuild' = [rebuild EXCEPT
                   !.next = @ + 1,
                   !.rows = ApplyProjection(@, events[rebuild.next], rebuild.next)]
  /\ UNCHANGED <<events, projections, bindings, programmeStatus>>

CommitRebuild ==
  /\ ~LockFree
  /\ rebuild.next > ChainHead
  /\ projections' = [projections EXCEPT ![rebuild.project] = rebuild.rows]
  /\ rebuild' = NoRebuild
  /\ UNCHANGED <<events, bindings, programmeStatus>>

\* An exception or the death of the process: SQLite rolls the transaction back.
RollBackRebuild ==
  /\ ~LockFree
  /\ rebuild' = NoRebuild
  /\ UNCHANGED <<events, projections, bindings, programmeStatus>>

-----------------------------------------------------------------------------
StoreTypeOK ==
  /\ events \in Seq(Event)
  /\ projections \in [Projects -> [Items -> Row]]
  /\ bindings \in [Projects -> BindingStatuses]
  /\ programmeStatus \in {"active", "closed"}
  /\ rebuild \in [project : Projects \cup {None}, next : Nat \ {0},
                  rows : [Items -> Row]]
=============================================================================
