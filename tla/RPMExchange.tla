------------------------------ MODULE RPMExchange ------------------------------
(***************************************************************************)
(* Exchange of research memory (rpm_exchange.py and its commands in        *)
(* tools/rpm.py).  A programme's chain is exported to a bundle; another    *)
(* programme's operator inspects the bundle and, once the inspection is    *)
(* approved, commits it: the events are appended one by one, each in a     *)
(* transaction of its own.  Several processes may commit, one may die      *)
(* between two events, and the receiving programme goes on meanwhile.      *)
(*                                                                         *)
(* The receiving store is a ProgrammeStore whose events also carry the     *)
(* digest of their candidate; the exporting one is its chain alone.        *)
(***************************************************************************)
EXTENDS ProgrammeStore

CONSTANTS
  Clients,         \* processes that commit imports
  OriginEvents,    \* what the exporting programme may record
  LocalEvents,     \* what the receiving programme may record
  MaxOrigin,       \* bound: events of the exporting programme
  MaxInspections   \* bound: inspections

ASSUME ExchangeAssumption ==
  /\ \A e \in OriginEvents :
       /\ e.item \in Items \cup {None}
       /\ e.item # None => e.status \in ProjectionStatuses
       /\ {e.own, e.restricted} \subseteq BOOLEAN
  /\ \A e \in LocalEvents :
       /\ e.project \in Projects /\ e.item \in Items
       /\ e.type # "import" /\ e.operation[1] # "import"
  /\ MaxOrigin \in Nat /\ MaxInspections \in Nat

VARIABLES
  origin,       \* the chain of the exporting programme
  inspections,  \* the inspections that were found eligible
  approved,     \* digests of inspections for which an approval was given
  clients,      \* the import each process is in
  done,         \* the inspections that each process remembers to have committed
  receipts      \* the inspections for which a receipt was returned

exchange == <<origin, inspections, approved, clients, done, receipts>>

vars == <<store, exchange>>

-----------------------------------------------------------------------------
(* An event of the exporting programme has an item, the status it gives it,  *)
(* and the digest of its candidate, None if it has none; own is FALSE when   *)
(* another project of the programme recorded it, restricted TRUE when its    *)
(* candidate is classified above what may be exported.  In a bundle it       *)
(* carries its position in the chain, which stands for its hash and its      *)
(* predecessor's, and whether it is still what was hashed.                   *)

Idle == [pc |-> "idle"]

\* The exporting programme records an event.
Originate ==
  /\ Len(origin) < MaxOrigin
  /\ \E e \in OriginEvents : origin' = Append(origin, e)
  /\ UNCHANGED <<store, inspections, approved, clients, done, receipts>>

\* export_bundle: a range of the programme's events, of whichever project.  A
\* candidate above the ceiling is replaced, which its event's hash does not stand.
\* The chain only grows: a bundle exported before is a range that ends earlier.
Bundle(first, last) ==
  [n \in 1..(last + 1 - first) |->
    LET e == origin[n + first - 1]
    IN  [event |-> e, position |-> n + first - 1, intact |-> ~e.restricted]]

-----------------------------------------------------------------------------
(* inspect_import *)

\* _verify_import_chain: a chain from its start, and of one project.
ChainHolds(chain) ==
  \A n \in DOMAIN chain :
    chain[n].position = n /\ chain[n].intact /\ chain[n].event.own

Present(p, e) == e.item # None /\ projections[p][e.item].status # "absent"

\* A row's candidate_digest is that of the event that made it.
Identical(p, e) ==
  e.digest # None /\ e.digest = events[projections[p][e.item].version].digest

\* An approval is for the digest, which leaves the inspection's id out.
DigestOf(inspection) == <<inspection.chain, inspection.project, inspection.identical>>

\* Only an inspection without errors is returned, and can be committed.  A bundle
\* without events, which is imported without effect, is left out.
Inspect(p) ==
  /\ Len(inspections) < MaxInspections
  /\ bindings[p] = "active" /\ programmeStatus = "active"
  /\ \E first, last \in DOMAIN origin :
       LET bundle == Bundle(first, last)
       IN  /\ bundle # << >>
           /\ ChainHolds(bundle)
           /\ \A n \in DOMAIN bundle :
                Present(p, bundle[n].event) => Identical(p, bundle[n].event)
           /\ inspections' = Append(inspections,
                [chain     |-> bundle,
                 project   |-> p,
                 identical |-> {n \in DOMAIN bundle : Present(p, bundle[n].event)}])
  /\ UNCHANGED <<store, origin, approved, clients, done, receipts>>

\* A person, outside the code, approves what an inspection showed.
Approve(k) ==
  /\ approved' = approved \cup {DigestOf(inspections[k])}
  /\ UNCHANGED <<store, origin, inspections, clients, done, receipts>>

-----------------------------------------------------------------------------
(* commit_import *)

\* Mutant: the operation id is fresh for each attempt.
OperationOfAttempt(c, k, n) == <<"import", c, k, n>>

\* The operation id under which an inspection's event is appended, whichever
\* process does it.
OperationOf(c, k, n) == <<"import", k, n>>

ImportEvent(c, k, n) ==
  LET e == inspections[k].chain[n].event
  IN  [operation |-> OperationOf(c, k, n), type |-> "import",
       project |-> inspections[k].project, item |-> e.item, candidate |-> None,
       expiry |-> 0, disposition |-> None, status |-> e.status,
       digest |-> e.digest, import |-> k, place |-> n]

\* Mutant: the inspection is noted as committed before its events are appended.
BeginNoted(c, k) ==
  /\ clients' = [clients EXCEPT ![c] = [pc |-> "appending", import |-> k, next |-> 1]]
  /\ done' = [done EXCEPT ![c] = @ \cup {k}]
  /\ UNCHANGED receipts

Begin(c, k) ==
  /\ clients' = [clients EXCEPT ![c] = [pc |-> "appending", import |-> k, next |-> 1]]
  /\ UNCHANGED <<done, receipts>>

\* The checks of commit_import.  The command line reads the inspection from its
\* file, so any process may commit it; the receiving scope is not looked at again.
StartCommit(c, k) ==
  /\ clients[c] = Idle
  /\ DigestOf(inspections[k]) \in approved
  /\ \/ /\ k \in done[c]
        /\ receipts' = receipts \cup {k}
        /\ UNCHANGED <<clients, done>>
     \/ /\ k \notin done[c]
        /\ Begin(c, k)
  /\ UNCHANGED <<store, origin, inspections, approved>>

\* One turn of the loop, or its end and the receipt.
ImportNext(c) ==
  LET k == clients[c].import
      n == clients[c].next
  IN  /\ clients[c] # Idle
      /\ n \in DOMAIN inspections[k].chain
      /\ AppendEvent(ImportEvent(c, k, n)) \/ ReturnRecorded(ImportEvent(c, k, n))
      /\ clients' = [clients EXCEPT ![c].next = @ + 1]
      /\ UNCHANGED <<origin, inspections, approved, done, receipts>>

FinishCommit(c) ==
  LET k == clients[c].import
  IN  /\ clients[c] # Idle
      /\ clients[c].next \notin DOMAIN inspections[k].chain
      /\ clients' = [clients EXCEPT ![c] = Idle]
      /\ done' = [done EXCEPT ![c] = @ \cup {k}]
      /\ receipts' = receipts \cup {k}
      /\ UNCHANGED <<store, origin, inspections, approved>>

\* A transaction raises, on its lock for instance; what was appended stays.
FailCommit(c) ==
  /\ clients[c] # Idle
  /\ clients' = [clients EXCEPT ![c] = Idle]
  /\ UNCHANGED <<store, origin, inspections, approved, done, receipts>>

\* The process ends, or dies, and with it what it remembers.
Exit(c) ==
  /\ clients' = [clients EXCEPT ![c] = Idle]
  /\ done' = [done EXCEPT ![c] = {}]
  /\ UNCHANGED <<store, origin, inspections, approved, receipts>>

-----------------------------------------------------------------------------
\* The receiving programme records an event of its own, or is closed: the
\* operations of ResearchMemory, once each.
Record ==
  /\ programmeStatus = "active"
  /\ \/ \E e \in LocalEvents : AppendEvent(e)
     \/ \E p \in Projects :
          CloseProgramme([operation |-> <<"close">>, type |-> "status_change",
                          project |-> p, item |-> None, digest |-> None])
  /\ UNCHANGED exchange

\* The receiving project is registered, by an event before these.
Init ==
  /\ events = << >>
  /\ projections = [p \in Projects |-> NoRows]
  /\ bindings = [p \in Projects |-> "active"]
  /\ programmeStatus = "active"
  /\ rebuild = NoRebuild
  /\ origin = << >>
  /\ inspections = << >>
  /\ approved = {}
  /\ clients = [c \in Clients |-> Idle]
  /\ done = [c \in Clients |-> {}]
  /\ receipts = {}

Next ==
  \/ Originate \/ Record
  \/ \E p \in Projects : Inspect(p)
  \/ \E k \in DOMAIN inspections : Approve(k)
  \/ \E c \in Clients :
       \/ \E k \in DOMAIN inspections : StartCommit(c, k)
       \/ ImportNext(c) \/ FinishCommit(c) \/ FailCommit(c) \/ Exit(c)

Spec == Init /\ [][Next]_vars

-----------------------------------------------------------------------------
(* Properties. *)

\* What was appended for an inspection: positions in the chain.
ImportEvents(k) ==
  {i \in DOMAIN events : events[i].type = "import" /\ events[i].import = k}

\* Whoever commits an inspection, together or one after the other, and wherever
\* they fail, the chain has a beginning of the inspected bundle, once and in its
\* order (the operation id of commit_import).
ImportIsPrefix ==
  \A k \in DOMAIN inspections : \A i \in ImportEvents(k) :
    /\ events[i].place \in DOMAIN inspections[k].chain
    /\ \A j \in ImportEvents(k) : events[j].place = events[i].place => j = i
    /\ \A n \in 1..(events[i].place - 1) :
         \E j \in ImportEvents(k) : j < i /\ events[j].place = n

Complete(k) ==
  \A n \in DOMAIN inspections[k].chain : \E i \in ImportEvents(k) : events[i].place = n

\* A receipt, the one of a repeated commit included, means that all of the bundle
\* is in the chain (_committed is set after the loop).
ReceiptIsComplete == \A k \in receipts : Complete(k)
=============================================================================
