--------------------------- MODULE RPMExchangeProofs ---------------------------
(***************************************************************************)
(* ImportIsPrefix and ReceiptIsComplete for any number of processes,       *)
(* inspections and events.  The operation id of an imported event names    *)
(* its inspection and its place, and no id is in the chain twice; from     *)
(* this the invariant follows that a process which is about to append a    *)
(* place finds all the places before it in the chain, whoever put them     *)
(* there.                                                                  *)
(***************************************************************************)
EXTENDS RPMExchange, SequenceTheorems, TLAPS

IsChain(s) == \E S : s \in Seq(S)

Importing == [pc : {"appending"}, import : DOMAIN inspections, next : Nat \ {0}]

TypeInv ==
  /\ IsChain(events) /\ IsChain(inspections) /\ IsChain(origin)
  /\ \A k \in DOMAIN inspections : IsChain(inspections[k].chain)
  /\ clients \in [Clients -> {Idle} \cup Importing]
  /\ done \in [Clients -> SUBSET DOMAIN inspections]
  /\ receipts \subseteq DOMAIN inspections

\* An imported event and its operation id say the same.
Named ==
  \A i \in DOMAIN events :
    /\ events[i].type = "import" =>
         /\ events[i].operation = <<"import", events[i].import, events[i].place>>
         /\ events[i].import \in DOMAIN inspections
         /\ events[i].place \in DOMAIN inspections[events[i].import].chain
    /\ events[i].operation[1] = "import" => events[i].type = "import"

Once ==
  \A i, j \in DOMAIN events : events[i].operation = events[j].operation => i = j

\* The first n places of an inspection are in the chain.
Reached(k, n) == \A p \in 1..n : \E i \in ImportEvents(k) : events[i].place = p

\* They are among the first m events.
Before(k, n, m) ==
  \A p \in 1..n : \E i \in ImportEvents(k) : i <= m /\ events[i].place = p

Ordered ==
  \A k \in DOMAIN inspections : \A i \in ImportEvents(k) :
    Before(k, events[i].place - 1, i - 1)

Progressed ==
  \A c \in Clients :
    clients[c] # Idle => Reached(clients[c].import, clients[c].next - 1)

Finished ==
  /\ \A c \in Clients : \A k \in done[c] : Complete(k)
  /\ \A k \in receipts : Complete(k)

IInv == TypeInv /\ Named /\ Once /\ Ordered /\ Progressed /\ Finished

-----------------------------------------------------------------------------
(* Chains. *)

LEMMA ChainEntries ==
  ASSUME NEW s, IsChain(s)
  PROVE  Len(s) \in Nat /\ DOMAIN s = 1..Len(s)
<1>1. PICK S : s \in Seq(S)
  BY DEF IsChain
<1> QED BY <1>1, LenProperties

LEMMA AppendChain ==
  ASSUME NEW s, IsChain(s), NEW e
  PROVE  /\ IsChain(Append(s, e))
         /\ Len(Append(s, e)) = Len(s) + 1 /\ DOMAIN Append(s, e) = 1..(Len(s) + 1)
         /\ Append(s, e)[Len(s) + 1] = e
         /\ \A i \in DOMAIN s : Append(s, e)[i] = s[i]
<1>1. PICK S : s \in Seq(S)
  BY DEF IsChain
<1> DEFINE T == S \cup {e}
<1>2. s \in Seq(T) /\ e \in T
  <2>1. \A i \in 1..Len(s) : s[i] \in T
    BY <1>1, ElementOfSeq
  <2> QED BY <1>1, <2>1, LenProperties
<1> HIDE DEF T
<1>3. Append(s, e) \in Seq(T)
  BY <1>2, AppendProperties
<1> QED BY <1>2, <1>3, AppendProperties, LenProperties DEF IsChain

LEMMA EmptyChain == IsChain(<< >>)
<1>1. << >> \in Seq({})
  BY EmptySeq
<1> QED BY <1>1 DEF IsChain

-----------------------------------------------------------------------------
(* Growth: entries of the two sequences never change. *)

Grows ==
  /\ DOMAIN events \subseteq DOMAIN events'
  /\ \A i \in DOMAIN events : events'[i] = events[i]
  /\ DOMAIN inspections \subseteq DOMAIN inspections'
  /\ \A k \in DOMAIN inspections : inspections'[k] = inspections[k]

LEMMA GrowthKeeps ==
  ASSUME Grows, NEW k \in DOMAIN inspections
  PROVE  /\ ImportEvents(k) \subseteq ImportEvents(k)'
         /\ Complete(k) => Complete(k)'
         /\ \A n : Reached(k, n) => Reached(k, n)'
         /\ \A n, m : Before(k, n, m) => Before(k, n, m)'
<1>1. ImportEvents(k) \subseteq ImportEvents(k)'
  BY DEF Grows, ImportEvents
<1>2. \A i \in ImportEvents(k) : events'[i] = events[i]
  BY DEF Grows, ImportEvents
<1>3. Complete(k) => Complete(k)'
  BY <1>1, <1>2 DEF Grows, Complete
<1>4. \A n, m : Before(k, n, m) => Before(k, n, m)'
  BY <1>1, <1>2 DEF Before
<1>5. \A n : Reached(k, n) => Reached(k, n)'
  BY <1>1, <1>2 DEF Reached
<1> QED BY <1>1, <1>3, <1>4, <1>5

\* What is said of the chain stays true as long as nothing is appended to it.
LEMMA QuietKeeps ==
  ASSUME IInv, Grows, UNCHANGED events
  PROVE  Named' /\ Once' /\ Ordered'
<1>1. Named'
  BY DEF IInv, Named, Grows
<1>2. Once'
  BY DEF IInv, Once
<1>3. ASSUME NEW k \in DOMAIN inspections', NEW i \in ImportEvents(k)'
      PROVE  Before(k, events[i].place - 1, i - 1)'
  <2>1. i \in ImportEvents(k)
    BY <1>3 DEF ImportEvents
  <2>2. k \in DOMAIN inspections
    BY <2>1 DEF ImportEvents, IInv, Named
  <2>3. Before(k, events[i].place - 1, i - 1)
    BY <2>1, <2>2 DEF IInv, Ordered
  <2> QED BY <2>3 DEF Before, ImportEvents
<1>4. Ordered'
  BY <1>3 DEF Ordered
<1> QED BY <1>1, <1>2, <1>4

\* An event is appended: one of the programme's own, or the next place of an import.
LEMMA AppendKeeps ==
  ASSUME IInv, NEW e, events' = Append(events, e), UNCHANGED inspections,
         ~Recorded(e.operation),
         \/ e.type # "import" /\ e.operation[1] # "import"
         \/ /\ e.type = "import" /\ e.import \in DOMAIN inspections
            /\ e.place \in DOMAIN inspections[e.import].chain
            /\ e.operation = <<"import", e.import, e.place>>
            /\ Reached(e.import, e.place - 1)
  PROVE  IsChain(events)' /\ Grows /\ Named' /\ Once' /\ Ordered'
         /\ Len(events') = Len(events) + 1 /\ events'[Len(events')] = e
<1> DEFINE l == Len(events) + 1
<1>1. IsChain(events) /\ Len(events) \in Nat /\ DOMAIN events = 1..Len(events)
  BY ChainEntries DEF IInv, TypeInv
<1>2. IsChain(events') /\ Len(events') = l /\ DOMAIN events' = 1..l /\ events'[l] = e
      /\ \A i \in DOMAIN events : events'[i] = events[i]
  BY <1>1, AppendChain
<1>3. DOMAIN events' = DOMAIN events \cup {l} /\ l \notin DOMAIN events
  BY <1>1, <1>2
<1>4. Grows
  BY <1>2, <1>3 DEF Grows
<1>5. Named'
  BY <1>2, <1>3 DEF IInv, Named
<1>6. Once'
  BY <1>2, <1>3 DEF IInv, Once, Recorded
<1>7. ASSUME NEW k \in DOMAIN inspections, NEW i \in ImportEvents(k)'
      PROVE  Before(k, events[i].place - 1, i - 1)'
  <2>1. CASE i \in DOMAIN events
    <3>1. i \in ImportEvents(k) /\ events'[i] = events[i]
      BY <1>2, <1>7, <2>1 DEF ImportEvents
    <3>2. Before(k, events[i].place - 1, i - 1)
      BY <3>1 DEF IInv, Ordered
    <3>3. PICK p : p = events[i].place - 1
      OBVIOUS
    <3>4. Before(k, p, i - 1)'
      BY <1>4, <3>2, <3>3, GrowthKeeps
    <3> QED BY <3>1, <3>3, <3>4 DEF Before
  <2>2. CASE i = l
    <3>1. e.type = "import" /\ e.import = k
      BY <1>2, <1>7, <2>2 DEF ImportEvents
    <3>2. Reached(k, e.place - 1)
      BY <3>1
    <3>3. i - 1 = Len(events) /\ events'[i].place = e.place
      BY <1>1, <1>2, <2>2
    <3>4. ASSUME NEW p \in 1..(e.place - 1)
          PROVE  \E j \in ImportEvents(k)' : j <= i - 1 /\ events'[j].place = p
      <4>1. PICK j \in ImportEvents(k) : j <= Len(events) /\ events[j].place = p
        BY <1>1, <3>2 DEF Reached, ImportEvents
      <4>2. j \in ImportEvents(k)' /\ events'[j] = events[j]
        BY <1>2, <1>4, GrowthKeeps DEF ImportEvents
      <4> QED BY <3>3, <4>1, <4>2
    <3> QED BY <3>3, <3>4 DEF Before
  <2>3. i \in DOMAIN events'
    BY <1>7 DEF ImportEvents
  <2> QED BY <1>3, <2>1, <2>2, <2>3
<1>8. Ordered'
  BY <1>7 DEF Ordered
<1> QED BY <1>2, <1>4, <1>5, <1>6, <1>8

-----------------------------------------------------------------------------
(* The processes. *)

LEMMA ClientTyped ==
  ASSUME TypeInv, NEW c \in Clients, clients[c] # Idle
  PROVE  clients[c].import \in DOMAIN inspections /\ clients[c].next \in Nat \ {0}
BY DEF TypeInv, Importing

\* What no process is in the middle of and no receipt names may be left alone: the
\* part of the invariant about processes survives growth.
LEMMA ProcessesKeep ==
  ASSUME IInv, Grows, UNCHANGED <<clients, done, receipts>>
  PROVE  Progressed' /\ Finished'
         /\ clients' \in [Clients -> {Idle} \cup Importing']
         /\ done' \in [Clients -> SUBSET DOMAIN inspections']
         /\ receipts' \subseteq DOMAIN inspections'
<1>1. ASSUME NEW c \in Clients, clients[c] # Idle
      PROVE  Reached(clients[c].import, clients[c].next - 1)'
  <2>1. PICK k, n : k = clients[c].import /\ n = clients[c].next - 1
    OBVIOUS
  <2>2. k \in DOMAIN inspections /\ Reached(k, n)
    BY <1>1, <2>1, ClientTyped DEF IInv, Progressed
  <2>3. Reached(k, n)'
    BY <2>2, GrowthKeeps
  <2> QED BY <2>1, <2>3 DEF Reached, ImportEvents
<1>2. Progressed'
  BY <1>1 DEF Progressed
<1>3. \A k \in DOMAIN inspections : Complete(k) => Complete(k)'
  BY GrowthKeeps
<1>4. Finished'
  <2>1. \A c \in Clients : \A k \in done[c] : k \in DOMAIN inspections /\ Complete(k)
    BY DEF IInv, TypeInv, Finished
  <2>2. \A k \in receipts : k \in DOMAIN inspections /\ Complete(k)
    BY DEF IInv, TypeInv, Finished
  <2> QED BY <1>3, <2>1, <2>2 DEF Finished
<1>5. Importing \subseteq Importing'
  BY DEF Importing, Grows
<1> QED BY <1>2, <1>4, <1>5 DEF IInv, TypeInv, Grows

LEMMA InitIInv == Init => IInv
<1> SUFFICES ASSUME Init PROVE IInv
  OBVIOUS
<1>1. DOMAIN events = {} /\ DOMAIN inspections = {} /\ IsChain(events)
      /\ IsChain(inspections) /\ IsChain(origin)
  BY EmptyChain DEF Init
<1>2. TypeInv
  BY <1>1 DEF Init, TypeInv
<1>3. Named /\ Once /\ Ordered
  BY <1>1 DEF Named, Once, Ordered
<1>4. Progressed /\ Finished
  BY DEF Init, Progressed, Finished
<1> QED BY <1>2, <1>3, <1>4 DEF IInv

\* The operations of the programme itself, and the exporting one.
LEMMA RecordKeeps == ASSUME IInv, Record PROVE IInv'
<1>1. PICK e : /\ events' = Append(events, e) /\ ~Recorded(e.operation)
               /\ e.type # "import" /\ e.operation[1] # "import"
  <2>1. CASE \E e \in LocalEvents : AppendEvent(e)
    BY <2>1, ExchangeAssumption DEF AppendEvent
  <2>2. CASE \E p \in Projects :
               CloseProgramme([operation |-> <<"close">>, type |-> "status_change",
                               project |-> p, item |-> None, digest |-> None])
    <3>1. PICK e : /\ e.operation = <<"close">> /\ e.type = "status_change"
                   /\ CloseProgramme(e)
      BY <2>2
    <3>2. <<"close">>[1] = "close"
      OBVIOUS
    <3> QED BY <3>1, <3>2 DEF CloseProgramme
  <2> QED BY <2>1, <2>2 DEF Record
<1>2. UNCHANGED <<origin, inspections, clients, done, receipts>>
  BY DEF Record, exchange
<1>3. IsChain(events)' /\ Grows /\ Named' /\ Once' /\ Ordered'
  BY <1>1, <1>2, AppendKeeps
<1>4. Progressed' /\ Finished' /\ clients' \in [Clients -> {Idle} \cup Importing']
      /\ done' \in [Clients -> SUBSET DOMAIN inspections']
      /\ receipts' \subseteq DOMAIN inspections'
  BY <1>2, <1>3, ProcessesKeep
<1>5. TypeInv'
  BY <1>2, <1>3, <1>4 DEF IInv, TypeInv
<1> QED BY <1>3, <1>4, <1>5 DEF IInv

\* Inspections and the exporting programme's chain grow.
LEMMA OutsideKeeps ==
  ASSUME IInv, Originate \/ (\E p \in Projects : Inspect(p))
               \/ (\E k \in DOMAIN inspections : Approve(k))
  PROVE  IInv'
<1>1. UNCHANGED <<events, clients, done, receipts>>
  BY DEF Originate, Inspect, Approve, store
<1>2. IsChain(origin)' /\ IsChain(inspections)' /\ Grows
      /\ \A k \in DOMAIN inspections' : IsChain(inspections'[k].chain)
  <2>1. CASE Originate
    BY <2>1, AppendChain DEF Originate, store, Grows, IInv, TypeInv
  <2>2. CASE \E k \in DOMAIN inspections : Approve(k)
    BY <2>2 DEF Approve, store, Grows, IInv, TypeInv
  <2>3. ASSUME NEW p \in Projects, Inspect(p)
        PROVE  /\ IsChain(origin)' /\ IsChain(inspections)' /\ Grows
               /\ \A k \in DOMAIN inspections' : IsChain(inspections'[k].chain)
    <3>1. PICK first \in DOMAIN origin, last \in DOMAIN origin : \E inspection :
            /\ inspection.chain = Bundle(first, last)
            /\ inspections' = Append(inspections, inspection)
      BY <2>3 DEF Inspect
    <3>2. first \in Nat /\ last \in Nat
      BY ChainEntries DEF IInv, TypeInv
    <3>3. PICK inspection :
            /\ inspection.chain = Bundle(first, last)
            /\ inspections' = Append(inspections, inspection)
      BY <3>1
    <3>4. IsChain(inspection.chain)
      <4> DEFINE b == Bundle(first, last)
                 l == IF last + 1 - first \in Nat THEN last + 1 - first ELSE 0
                 S == {b[n] : n \in 1..l}
      <4>1. l \in Nat /\ 1..l = 1..(last + 1 - first)
        BY <3>2
      <4>2. b \in [1..l -> S]
        BY <4>1 DEF Bundle
      <4> HIDE DEF b, l, S
      <4>3. b \in Seq(S)
        BY <4>1, <4>2, SeqDef
      <4> QED BY <3>3, <4>3 DEF IsChain, b
    <3>5. /\ IsChain(inspections') /\ DOMAIN inspections' = 1..(Len(inspections) + 1)
          /\ inspections'[Len(inspections) + 1] = inspection
          /\ \A i \in DOMAIN inspections : inspections'[i] = inspections[i]
          /\ DOMAIN inspections = 1..Len(inspections) /\ Len(inspections) \in Nat
      BY <3>3, AppendChain, ChainEntries DEF IInv, TypeInv
    <3> QED BY <1>1, <2>3, <3>4, <3>5 DEF Inspect, Grows, IInv, TypeInv
  <2> QED BY <2>1, <2>2, <2>3
<1>3. Named' /\ Once' /\ Ordered'
  BY <1>1, <1>2, QuietKeeps
<1>4. Progressed' /\ Finished' /\ clients' \in [Clients -> {Idle} \cup Importing']
      /\ done' \in [Clients -> SUBSET DOMAIN inspections']
      /\ receipts' \subseteq DOMAIN inspections'
  BY <1>1, <1>2, ProcessesKeep
<1>5. TypeInv'
  BY <1>1, <1>2, <1>4 DEF IInv, TypeInv
<1> QED BY <1>3, <1>4, <1>5 DEF IInv

\* One process changes what it is in, what it has done or what it returned.
LEMMA ProcessKeeps ==
  ASSUME IInv, NEW c \in Clients, NEW call, NEW finished, NEW returned,
         UNCHANGED <<store, origin, inspections>>,
         clients' = [clients EXCEPT ![c] = call],
         done' = [done EXCEPT ![c] = finished], receipts' = returned,
         call = Idle \/ (call \in Importing /\ Reached(call.import, call.next - 1)),
         finished \subseteq DOMAIN inspections /\ \A k \in finished : Complete(k),
         returned \subseteq DOMAIN inspections /\ \A k \in returned : Complete(k)
  PROVE  IInv'
<1>1. UNCHANGED <<events, inspections, origin>> /\ Grows
  BY DEF store, Grows
<1>2. Named' /\ Once' /\ Ordered'
  BY <1>1, QuietKeeps
<1>3. Importing' = Importing /\ clients' \in [Clients -> {Idle} \cup Importing]
      /\ done' \in [Clients -> SUBSET DOMAIN inspections]
  BY <1>1 DEF IInv, TypeInv, Importing
<1>4. TypeInv'
  BY <1>1, <1>3 DEF IInv, TypeInv
<1>5. ASSUME NEW d \in Clients, clients'[d] # Idle
      PROVE  Reached(clients[d].import, clients[d].next - 1)'
  <2>1. Reached(clients'[d].import, clients'[d].next - 1)
    BY <1>5 DEF IInv, TypeInv, Progressed
  <2> QED BY <1>1, <2>1 DEF Reached, ImportEvents
<1>6. Progressed'
  BY <1>5 DEF Progressed
<1>7. \A k : Complete(k) => Complete(k)'
  BY <1>1 DEF Complete, ImportEvents
<1>8. Finished'
  BY <1>7 DEF IInv, TypeInv, Finished
<1> QED BY <1>2, <1>4, <1>6, <1>8 DEF IInv

LEMMA StartCommitKeeps ==
  ASSUME IInv, NEW c \in Clients, NEW k \in DOMAIN inspections, StartCommit(c, k)
  PROVE  IInv'
<1>1. UNCHANGED <<store, origin, inspections>> /\ clients[c] = Idle
  BY DEF StartCommit
<1>2. done[c] \subseteq DOMAIN inspections /\ (\A j \in done[c] : Complete(j))
      /\ receipts \subseteq DOMAIN inspections /\ (\A j \in receipts : Complete(j))
      /\ done = [done EXCEPT ![c] = done[c]] /\ clients = [clients EXCEPT ![c] = Idle]
  BY <1>1 DEF IInv, TypeInv, Finished
<1>3. CASE k \in done[c] /\ receipts' = receipts \cup {k} /\ UNCHANGED <<clients, done>>
  <2>1. PICK returned, finished : returned = receipts \cup {k} /\ finished = done[c]
    OBVIOUS
  <2> QED BY <1>1, <1>2, <1>3, <2>1, ProcessKeeps
<1>4. CASE Begin(c, k)
  <2>1. PICK call, returned, finished :
          /\ call = [pc |-> "appending", import |-> k, next |-> 1]
          /\ returned = receipts /\ finished = done[c]
    OBVIOUS
  <2>2. call \in Importing /\ Reached(call.import, call.next - 1)
    BY <2>1 DEF Importing, Reached
  <2>3. clients' = [clients EXCEPT ![c] = call] /\ UNCHANGED <<done, receipts>>
    BY <1>4, <2>1 DEF Begin
  <2> QED BY <1>1, <1>2, <2>1, <2>2, <2>3, ProcessKeeps
<1> QED BY <1>3, <1>4 DEF StartCommit

LEMMA FinishKeeps ==
  ASSUME IInv, NEW c \in Clients, FinishCommit(c) \/ FailCommit(c) \/ Exit(c)
  PROVE  IInv'
<1>1. UNCHANGED <<store, origin, inspections>> /\ clients' = [clients EXCEPT ![c] = Idle]
  BY DEF FinishCommit, FailCommit, Exit
<1>2. done[c] \subseteq DOMAIN inspections /\ (\A j \in done[c] : Complete(j))
      /\ receipts \subseteq DOMAIN inspections /\ (\A j \in receipts : Complete(j))
      /\ done = [done EXCEPT ![c] = done[c]]
  BY DEF IInv, TypeInv, Finished
<1>3. CASE FinishCommit(c)
  <2>1. PICK k, n : k = clients[c].import /\ n = clients[c].next
    OBVIOUS
  <2>2. clients[c] # Idle /\ n \notin DOMAIN inspections[k].chain
        /\ done' = [done EXCEPT ![c] = done[c] \cup {k}] /\ receipts' = receipts \cup {k}
    BY <1>3, <2>1 DEF FinishCommit, IInv, TypeInv
  <2>3. k \in DOMAIN inspections /\ n \in Nat \ {0} /\ Reached(k, n - 1)
    BY <2>1, <2>2, ClientTyped DEF IInv, Progressed
  <2>4. DOMAIN inspections[k].chain = 1..Len(inspections[k].chain)
        /\ Len(inspections[k].chain) \in Nat
    BY <2>3, ChainEntries DEF IInv, TypeInv
  <2>5. DOMAIN inspections[k].chain \subseteq 1..(n - 1)
    BY <2>2, <2>3, <2>4
  <2>6. Complete(k)
    BY <2>3, <2>5 DEF Reached, Complete
  <2>7. PICK returned, finished : returned = receipts \cup {k} /\ finished = done[c] \cup {k}
    OBVIOUS
  <2>8. /\ finished \subseteq DOMAIN inspections /\ \A j \in finished : Complete(j)
        /\ returned \subseteq DOMAIN inspections /\ \A j \in returned : Complete(j)
    BY <1>2, <2>3, <2>6, <2>7
  <2>9. done' = [done EXCEPT ![c] = finished] /\ receipts' = returned
    BY <2>2, <2>7
  <2>10. PICK call : call = Idle
    OBVIOUS
  <2> QED BY <1>1, <2>8, <2>9, <2>10, ProcessKeeps
<1>4. CASE FailCommit(c) \/ Exit(c)
  <2>1. PICK returned, finished : returned = receipts /\ done' = [done EXCEPT ![c] = finished]
                                  /\ finished \subseteq done[c]
    BY <1>2, <1>4 DEF FailCommit, Exit
  <2>2. receipts' = returned
    BY <1>4, <2>1 DEF FailCommit, Exit
  <2> QED BY <1>1, <1>2, <2>1, <2>2, ProcessKeeps
<1> QED BY <1>3, <1>4

\* A turn of the loop: the place is in the chain afterwards, appended now or before,
\* by this process or by another.
LEMMA ImportKeeps ==
  ASSUME IInv, NEW c \in Clients, ImportNext(c)
  PROVE  IInv'
<1>1. PICK k, n, e : k = clients[c].import /\ n = clients[c].next /\ e = ImportEvent(c, k, n)
  OBVIOUS
<1>2. /\ clients[c] # Idle /\ n \in DOMAIN inspections[k].chain
      /\ AppendEvent(e) \/ ReturnRecorded(e)
      /\ clients' = [clients EXCEPT ![c].next = @ + 1]
      /\ UNCHANGED <<origin, inspections, done, receipts>>
  BY <1>1 DEF ImportNext
<1>3. /\ k \in DOMAIN inspections /\ n \in Nat \ {0} /\ Reached(k, n - 1)
      /\ clients[c] \in Importing
  BY <1>1, <1>2, ClientTyped DEF IInv, TypeInv, Progressed
<1>4. /\ e.operation = <<"import", k, n>> /\ e.type = "import"
      /\ e.import = k /\ e.place = n
  BY <1>1 DEF ImportEvent, OperationOf
<1>5. IsChain(events)' /\ Grows /\ Named' /\ Once' /\ Ordered' /\ Reached(k, n)'
  <2>1. CASE AppendEvent(e)
    <3>1. events' = Append(events, e) /\ ~Recorded(e.operation)
      BY <2>1 DEF AppendEvent
    <3>2. /\ IsChain(events)' /\ Grows /\ Named' /\ Once' /\ Ordered'
          /\ Len(events') = Len(events) + 1 /\ events'[Len(events')] = e
      BY <1>2, <1>3, <1>4, <3>1, AppendKeeps
    <3>3. Len(events') \in ImportEvents(k)'
      BY <1>4, <3>2, ChainEntries DEF ImportEvents, IInv, TypeInv
    <3>4. Reached(k, n - 1)'
      <4>1. PICK m : m = n - 1
        OBVIOUS
      <4>2. Reached(k, m)
        BY <1>3, <4>1
      <4>3. Reached(k, m)'
        BY <1>3, <3>2, <4>2, GrowthKeeps
      <4> QED BY <4>1, <4>3 DEF Reached, ImportEvents
    <3>5. 1..n = 1..(n - 1) \cup {n}
      BY <1>3
    <3> QED BY <1>4, <3>2, <3>3, <3>4, <3>5 DEF Reached
  <2>2. CASE ReturnRecorded(e)
    <3>1. UNCHANGED events /\ Recorded(e.operation)
      BY <2>2 DEF ReturnRecorded, store
    <3>2. Grows
      BY <1>2, <3>1 DEF Grows
    <3>3. Named' /\ Once' /\ Ordered' /\ IsChain(events)'
      BY <3>1, <3>2, QuietKeeps DEF IInv, TypeInv
    <3>4. PICK i \in DOMAIN events : events[i].operation = <<"import", k, n>>
      BY <1>4, <3>1 DEF Recorded
    <3>5. events[i].type = "import" /\ events[i].import = k /\ events[i].place = n
      BY <3>4 DEF IInv, Named
    <3>6. i \in ImportEvents(k)
      BY <3>4, <3>5 DEF ImportEvents
    <3>7. 1..n = 1..(n - 1) \cup {n}
      BY <1>3
    <3>8. Reached(k, n)
      BY <1>3, <3>5, <3>6, <3>7 DEF Reached
    <3> QED BY <3>1, <3>2, <3>3, <3>8 DEF Reached, ImportEvents
  <2> QED BY <1>2, <2>1, <2>2
<1>6. PICK call : call = [clients[c] EXCEPT !.next = n + 1]
  OBVIOUS
<1>7. /\ call \in Importing /\ call.import = k /\ call.next = n + 1
      /\ clients' = [clients EXCEPT ![c] = call]
  BY <1>1, <1>2, <1>3, <1>6 DEF Importing
<1>8. /\ Importing' = Importing
      /\ clients' \in [Clients -> {Idle} \cup Importing]
      /\ \A d \in Clients : clients'[d] = IF d = c THEN call ELSE clients[d]
  BY <1>2, <1>7 DEF IInv, TypeInv, Importing
<1>9. TypeInv'
  BY <1>2, <1>5, <1>8 DEF IInv, TypeInv
<1>10. ASSUME NEW d \in Clients, clients'[d] # Idle
       PROVE  Reached(clients[d].import, clients[d].next - 1)'
  <2>1. CASE d = c
    <3>1. clients'[d].import = k /\ clients'[d].next - 1 = n
      BY <1>3, <1>7, <1>8, <2>1
    <3> QED BY <1>5, <3>1 DEF Reached, ImportEvents
  <2>2. CASE d # c
    <3>1. PICK j, m : j = clients[d].import /\ m = clients[d].next - 1
      OBVIOUS
    <3>2. j \in DOMAIN inspections /\ Reached(j, m)
      BY <1>8, <1>10, <2>2, <3>1, ClientTyped DEF IInv, Progressed
    <3>3. Reached(j, m)'
      BY <1>5, <3>2, GrowthKeeps
    <3> QED BY <1>8, <2>2, <3>1, <3>3 DEF Reached, ImportEvents
  <2> QED BY <2>1, <2>2
<1>11. Progressed'
  BY <1>10 DEF Progressed
<1>12. Finished'
  <2>1. \A j \in DOMAIN inspections : Complete(j) => Complete(j)'
    BY <1>5, GrowthKeeps
  <2> QED BY <1>2, <2>1 DEF IInv, TypeInv, Finished
<1> QED BY <1>5, <1>9, <1>11, <1>12 DEF IInv

-----------------------------------------------------------------------------
(* Every step. *)

LEMMA NextIInv == IInv /\ [Next]_vars => IInv'
<1> SUFFICES ASSUME IInv, [Next]_vars PROVE IInv'
  OBVIOUS
<1>1. CASE Record
  BY <1>1, RecordKeeps
<1>2. CASE Originate \/ (\E p \in Projects : Inspect(p))
           \/ (\E k \in DOMAIN inspections : Approve(k))
  BY <1>2, OutsideKeeps
<1>3. ASSUME NEW c \in Clients, NEW k \in DOMAIN inspections, StartCommit(c, k)
      PROVE  IInv'
  BY <1>3, StartCommitKeeps
<1>4. ASSUME NEW c \in Clients, ImportNext(c)
      PROVE  IInv'
  BY <1>4, ImportKeeps
<1>5. ASSUME NEW c \in Clients, FinishCommit(c) \/ FailCommit(c) \/ Exit(c)
      PROVE  IInv'
  BY <1>5, FinishKeeps
<1>6. CASE UNCHANGED vars
  <2>1. UNCHANGED <<events, origin, inspections, clients, done, receipts>>
    BY <1>6 DEF vars, store, exchange
  <2>2. Grows
    BY <2>1 DEF Grows
  <2>3. Named' /\ Once' /\ Ordered'
    BY <2>1, <2>2, QuietKeeps
  <2>4. /\ Progressed' /\ Finished' /\ clients' \in [Clients -> {Idle} \cup Importing']
        /\ done' \in [Clients -> SUBSET DOMAIN inspections']
        /\ receipts' \subseteq DOMAIN inspections'
    BY <2>1, <2>2, ProcessesKeep
  <2>5. TypeInv'
    BY <2>1, <2>4 DEF IInv, TypeInv
  <2> QED BY <2>3, <2>4, <2>5 DEF IInv
<1> QED BY <1>1, <1>2, <1>3, <1>4, <1>5, <1>6 DEF Next

LEMMA Invariant == Spec => []IInv
BY InitIInv, NextIInv, PTL DEF Spec

LEMMA OrderedPrefix == IInv => ImportIsPrefix
<1> SUFFICES ASSUME IInv, NEW k \in DOMAIN inspections, NEW i \in ImportEvents(k)
             PROVE  /\ events[i].place \in DOMAIN inspections[k].chain
                    /\ \A j \in ImportEvents(k) : events[j].place = events[i].place => j = i
                    /\ \A n \in 1..(events[i].place - 1) :
                         \E j \in ImportEvents(k) : j < i /\ events[j].place = n
  BY DEF ImportIsPrefix
<1>1. events[i].place \in DOMAIN inspections[k].chain
  BY DEF ImportEvents, IInv, Named
<1>2. ASSUME NEW j \in ImportEvents(k), events[j].place = events[i].place
      PROVE  j = i
  BY <1>2 DEF ImportEvents, IInv, Named, Once
<1>3. ASSUME NEW n \in 1..(events[i].place - 1)
      PROVE  \E j \in ImportEvents(k) : j < i /\ events[j].place = n
  <2>1. PICK j \in ImportEvents(k) : j <= i - 1 /\ events[j].place = n
    BY <1>3 DEF IInv, Ordered, Before
  <2>2. i \in Nat /\ j \in Nat
    BY <2>1, ChainEntries DEF ImportEvents, IInv, TypeInv
  <2> QED BY <2>1, <2>2
<1> QED BY <1>1, <1>2, <1>3

\* The chain has a beginning of every inspected bundle, each of its events once and
\* in the bundle's order, whichever processes commit it, together or one after the
\* other, and wherever they fail (the operation id that commit_import appends under).
THEOREM PrefixImported == Spec => []ImportIsPrefix
BY Invariant, OrderedPrefix, PTL

\* A receipt of commit_import, the one of a repeated commit included, means that all
\* of the bundle is in the chain.
THEOREM ReceiptsComplete == Spec => []ReceiptIsComplete
<1>1. IInv => ReceiptIsComplete
  BY DEF IInv, Finished, ReceiptIsComplete
<1> QED BY <1>1, Invariant, PTL
=============================================================================
