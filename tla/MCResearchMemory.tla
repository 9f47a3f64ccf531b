--------------------------- MODULE MCResearchMemory ---------------------------
(***************************************************************************)
(* Instances of ResearchMemory for TLC.  A behaviour is of one scenario,    *)
(* which says what is asked for; every operation can be built by an         *)
(* RPMOperation constructor or read from an operation file.                 *)
(***************************************************************************)
EXTENDS ResearchMemory, TLC

CONSTANTS p1, p2, i1, i2, Scenarios

VARIABLE scenario

Bare(id, type, p) ==
  [id |-> id, type |-> type, project |-> p, target |-> None, candidate |-> None,
   expiry |-> 0, disposition |-> None, admissible |-> TRUE, expectedHead |-> None]

Register(p) == Bare(<<"register", p>>, "register_project", p)
Retire(p)   == Bare(<<"retire", p>>, "retire_project", p)
Close(p)    == Bare(<<"close", p>>, "close_programme", p)

Write(p, x, expiry) ==
  [Bare(<<"write", p, x, expiry>>, "write", p) EXCEPT !.candidate = x, !.expiry = expiry]
OnItem(p, type, x) == [Bare(<<type, p, x>>, type, p) EXCEPT !.target = x]
Replace(p, type, x, y) ==
  [Bare(<<type, p, x, y>>, type, p) EXCEPT
     !.target = x, !.candidate = y, !.expiry = 9]
Resolve(p, x, disposition) ==
  [OnItem(p, "contradiction_resolved", x) EXCEPT
     !.id = Append(@, disposition), !.disposition = disposition]

\* The operation names the head that it expects.
At(o, head) == [o EXCEPT !.id = Append(@, head), !.expectedHead = head]

Lifetimes ==
  {Register(p1), Write(p1, i1, 9), OnItem(p1, "confirm", i1),
   Replace(p1, "correct", i1, i2), Replace(p1, "supersede", i2, i1),
   OnItem(p1, "contradiction_opened", i1), Resolve(p1, i1, "resolved_by_scope"),
   Resolve(p1, i2, None), OnItem(p1, "delete", i1), OnItem(p1, "expire", i1),
   Register(p2), Write(p2, i1, 9)}

Deadlines ==
  {Register(p1), Write(p1, i1, 2), Resolve(p1, i1, None), Retire(p1),
   At(Close(p1), 1)}

Races ==
  {Register(p1), Write(p1, i1, 9), Close(p1)}

\* Retirement, closure and write compete for the head after the registration.
Overtaking ==
  {At(Register(p1), 0), Write(p1, i1, 9), At(OnItem(p1, "confirm", i1), 3),
   At(Retire(p1), 1), At(Close(p1), 1)}

ClientSymmetry == Permutations(Clients)

OperationsOf ==
  [lifetimes |-> Lifetimes, deadlines |-> Deadlines,
   races |-> Races, overtaking |-> Overtaking]

\* Bounds: assessments that a behaviour starts.
AssessmentsOf == [lifetimes |-> 4, deadlines |-> 3, races |-> 3, overtaking |-> 4]

MCOperations == UNION {OperationsOf[name] : name \in Scenarios}

MCOperationIds == {o.id : o \in MCOperations}

-----------------------------------------------------------------------------
mcVars == <<scenario, vars>>

Unreviewed ==
  {a \in DOMAIN assessments :
     assessments[a].status = "allow" /\ ~\E h \in approvals : h.assessment = a}

Assesses(c) == ~In(c, "idle") /\ clients[c].call = "assess"

\* Bounds.  Time passes where deadlines matter, and only there a reviewer takes it;
\* there and in the races processes die.  Where commits overtake each other, nothing
\* happens during an assessment, and what can never be committed is left out.
InScenario ==
  /\ \A c \in Clients : In(c, "idle") /\ clients'[c].pc = "programme" =>
       /\ clients'[c].operation \in OperationsOf[scenario]
       /\ Len(assessments) < AssessmentsOf[scenario]
  /\ scenario # "deadlines" =>
       /\ now' = now
       /\ Unreviewed # {} => Review
  /\ scenario \in {"lifetimes", "overtaking"} => ~\E c \in Clients : Crash(c)
  /\ scenario = "overtaking" =>
       /\ \A c \in Clients : Assesses(c) => clients'[c] # clients[c]
       /\ \A a \in DOMAIN assessments' : assessments'[a].status = "allow"
       /\ \A h \in approvals' : h.disposition = "approved"

MCInit == scenario \in Scenarios /\ Init

MCNext == Next /\ InScenario /\ UNCHANGED scenario

MCSpec == MCInit /\ [][MCNext]_mcVars

MCFairSpec == MCSpec /\ Fairness
=============================================================================
