---------------------------- MODULE LegacyRunProofs ----------------------------
(***************************************************************************)
(* ReleaseIsOneWork and ReleaseIsJustified for any number of expansions    *)
(* and reviews and any kinds of findings.  Neither is inductive: the       *)
(* invariant says of every step which work the article in hand was made    *)
(* from, the one in the variables or, while the research is being          *)
(* repaired, the one that is held for a rollback.                          *)
(***************************************************************************)
EXTENDS LegacyRun, TLAPS

EvidenceRecord ==
  [of : Nat, enough : BOOLEAN, counter : BOOLEAN, primary : BOOLEAN]

GraphRecord == [evidence : Nat, n : Nat]

Work ==
  [ranked : Nat, labels : Nat, method : BOOLEAN,
   evidence : EvidenceRecord, graph : GraphRecord]

Names == {"none", "APPROVED", "REVIEW_REQUIRED"}

FileRecord ==
  [register : Nat, matrix : Nat, graph : GraphRecord, text : Nat,
   provenance : [status : Names, register : Nat, matrix : Nat, graph : GraphRecord],
   ledger : [status : Names, matrix : Nat], state : Names]

Before == {"plan", "rank", "build", "expand", "gate"}

Drafting == {"argue", "draft"}

Writing == {"prose", "review", "search", "revise"}

Repairing == {"rerank", "rebuild", "judge"}

Closing == {"publish", "govern", "validate", "done"}

TypeInv ==
  /\ sources \in Nat /\ ranked \in Nat /\ labels \in Nat /\ method \in BOOLEAN
  /\ evidence \in EvidenceRecord /\ graph \in GraphRecord /\ held \in Work
  /\ article \in [n : Nat, labels : Nat, evidence : Nat, graph : GraphRecord]
  /\ review \in [n : Nat, of : Nat, findings : SUBSET Kinds]
  /\ files \in FileRecord
  /\ pc \in Before \cup Drafting \cup Writing \cup Repairing \cup Closing

\* What EvidenceSuffices says, of any evidence.
Suffices(e) == e.enough /\ e.counter /\ (request.legal => e.primary)

\* The article in hand was made from this work.
MadeFrom(w) ==
  /\ article.n # 0
  /\ article.labels = w.ranked /\ w.labels = w.ranked
  /\ article.evidence = w.evidence.of /\ w.evidence.of = w.ranked
  /\ article.graph = w.graph /\ w.graph.evidence = w.evidence.of
  /\ Suffices(w.evidence)

\* The work that will be an article's.
Ready ==
  /\ evidence.of = ranked
  /\ EvidenceSuffices
  /\ pc = "draft" => graph.evidence = evidence.of

Published ==
  /\ files.register = ranked /\ files.matrix = evidence.of
  /\ files.graph = graph /\ files.text = article.n

Borne ==
  /\ files.provenance = Provenance(files.state, graph)
  /\ files.ledger = Ledger(files.state)
  /\ files.state = "APPROVED" => article.n # 0 /\ review.findings = {}

IInv ==
  /\ TypeInv
  /\ labels = ranked
  /\ pc \in Before => article.n = 0
  /\ pc \in {"plan", "expand", "gate", "judge"} => evidence.of = ranked
  /\ pc \in Drafting => Ready
  /\ pc \in Writing => MadeFrom(Held)
  /\ pc \in Repairing => MadeFrom(held)
  /\ pc \in Closing /\ article.n # 0 => MadeFrom(Held) /\ review.of = article.n
  /\ pc \in {"govern", "validate", "done"} => Published
  /\ pc \in {"validate", "done"} => Borne
  /\ outcome = "APPROVED" => pc = "done" /\ files.state = "APPROVED"

-----------------------------------------------------------------------------
LEMMA InitIInv == Init => IInv
<1> SUFFICES ASSUME Init PROVE IInv
  OBVIOUS
<1>1. held \in Work /\ evidence \in EvidenceRecord /\ graph \in GraphRecord
  BY DEF Init, Held, Work, NoEvidence, NoGraph, EvidenceRecord, GraphRecord
<1>2. files \in FileRecord
  <2>1. "none" \in Names /\ NoGraph \in GraphRecord
    BY DEF NoGraph, GraphRecord, Names
  <2> QED BY <2>1 DEF Init, NoFiles, FileRecord
<1>3. article \in [n : Nat, labels : Nat, evidence : Nat, graph : GraphRecord]
      /\ article.n = 0
      /\ review \in [n : Nat, of : Nat, findings : SUBSET Kinds]
  BY DEF Init, NoArticle, NoReview, NoGraph, GraphRecord
<1>4. TypeInv
  BY <1>1, <1>2, <1>3 DEF Init, TypeInv, Before
<1>5. evidence.of = 0
  BY DEF Init, NoEvidence
<1> QED
  BY <1>3, <1>4, <1>5 DEF Init, IInv, Before, Drafting, Writing, Repairing, Closing

-----------------------------------------------------------------------------
(* The sources and the evidence. *)

\* The holder of nothing that these actions change.
LEMMA RetrieveKeeps ==
  ASSUME IInv, Plan \/ Expand \/ ExpansionEnds \/ Search
  PROVE  IInv'
<1> USE DEF Before, Drafting, Writing, Repairing, Closing
<1>1. CASE Plan \/ Expand \/ ExpansionEnds
  <2>1. pc \in {"plan", "expand"} /\ pc' \in {"rank", "expand", "gate"}
        /\ sources' \in Nat /\ evidence.of = ranked
    BY <1>1 DEF Plan, Expand, ExpansionEnds, Retrieve, At, IInv, TypeInv
  <2> QED
    BY <1>1, <2>1 DEF Plan, Expand, ExpansionEnds, Retrieve, At, work, IInv, TypeInv
<1>2. CASE Search
  <2>1. held' \in Work /\ held' = Held
    BY <1>2 DEF Search, Held, Work, IInv, TypeInv
  <2> QED
    BY <1>2, <2>1 DEF Search, Retrieve, At, work, IInv, TypeInv, MadeFrom, Held, Suffices
<1> QED BY <1>1, <1>2
LEMMA RankKeeps ==
  ASSUME IInv, Rank("rank", "build") \/ Rank("rerank", "rebuild")
  PROVE  IInv'
<1> USE DEF Before, Drafting, Writing, Repairing, Closing
<1>1. pc \in {"rank", "rerank"} /\ outcome = "none"
      /\ pc' = (IF pc = "rank" THEN "build" ELSE "rebuild")
  BY DEF Rank, At
<1>2. TypeInv' /\ labels' = ranked'
  BY <1>1 DEF Rank, IInv, TypeInv
<1>3. MadeFrom(held) => MadeFrom(held)'
  BY DEF Rank, MadeFrom, Suffices
<1> QED BY <1>1, <1>2, <1>3 DEF Rank, IInv

LEMMA RebuildEvidenceKeeps ==
  ASSUME IInv, RebuildEvidence("build", "expand") \/ RebuildEvidence("rebuild", "judge")
  PROVE  IInv'
<1> USE DEF Before, Drafting, Writing, Repairing, Closing
<1>1. pc \in {"build", "rebuild"} /\ outcome = "none"
      /\ pc' = (IF pc = "build" THEN "expand" ELSE "judge")
  BY DEF RebuildEvidence, At
<1>2. evidence' \in EvidenceRecord /\ evidence'.of = ranked
  BY DEF RebuildEvidence, Evidence, EvidenceRecord, IInv, TypeInv
<1>3. TypeInv'
  BY <1>1, <1>2 DEF RebuildEvidence, IInv, TypeInv
<1>4. MadeFrom(held) => MadeFrom(held)'
  BY DEF RebuildEvidence, MadeFrom, Suffices
<1> QED BY <1>1, <1>2, <1>3, <1>4 DEF RebuildEvidence, IInv

-----------------------------------------------------------------------------
(* The gate, the argument and the text. *)

\* What the gate and the argument write is not yet what is released.
LEMMA PreliminaryTyped ==
  ASSUME TypeInv, NEW status \in Names, NEW g \in GraphRecord
  PROVE  Preliminary(status, g) \in FileRecord
BY DEF Preliminary, Provenance, Ledger, TypeInv, FileRecord, EvidenceRecord

LEMMA GateKeeps == ASSUME IInv, Gate PROVE IInv'
<1> USE DEF Before, Drafting, Writing, Repairing, Closing
<1>1. pc = "gate" /\ outcome = "none" /\ article.n = 0 /\ evidence.of = ranked
      /\ pc' \in {"argue", "publish"} /\ (pc' = "argue" => EvidenceSuffices)
  BY DEF Gate, At, IInv
<1>2. files' \in FileRecord
  <2>1. [files EXCEPT !.register = ranked, !.matrix = evidence.of] \in FileRecord
    BY DEF IInv, TypeInv, FileRecord, EvidenceRecord
  <2>2. Preliminary("REVIEW_REQUIRED", graph) \in FileRecord
    <3>1. TypeInv /\ graph \in GraphRecord /\ "REVIEW_REQUIRED" \in Names
      BY DEF IInv, TypeInv, Names
    <3> QED BY <3>1, PreliminaryTyped
  <2> QED BY <2>1, <2>2 DEF Gate
<1>3. TypeInv'
  BY <1>1, <1>2 DEF Gate, work, IInv, TypeInv
<1>4. pc' = "argue" => Ready'
  BY <1>1 DEF Gate, work, Ready, EvidenceSuffices
<1> QED BY <1>1, <1>3, <1>4 DEF Gate, work, IInv

LEMMA NextGraphTyped ==
  ASSUME TypeInv
  PROVE  NextGraph \in GraphRecord /\ NextGraph.evidence = evidence.of
BY DEF NextGraph, TypeInv, GraphRecord, EvidenceRecord

LEMMA ArgueKeeps == ASSUME IInv, Argue PROVE IInv'
<1> USE DEF Before, Drafting, Writing, Repairing, Closing
<1>1. pc = "argue" /\ outcome = "none" /\ pc' = "draft" /\ Ready
  BY DEF Argue, At, IInv
<1>2. graph' \in GraphRecord /\ graph'.evidence = evidence.of
  BY NextGraphTyped DEF Argue, IInv
<1>3. files' \in FileRecord
  <2>1. TypeInv /\ files \in FileRecord /\ "APPROVED" \in Names
    BY DEF IInv, TypeInv, Names
  <2>2. Preliminary("APPROVED", graph') \in FileRecord
    BY <1>2, <2>1, PreliminaryTyped
  <2> QED BY <2>1, <2>2 DEF Argue
<1>4. TypeInv'
  BY <1>1, <1>2, <1>3 DEF Argue, IInv, TypeInv
<1>5. Ready'
  BY <1>1, <1>2 DEF Argue, Ready, EvidenceSuffices
<1> QED BY <1>1, <1>4, <1>5 DEF Argue, IInv

LEMMA DraftKeeps == ASSUME IInv, Draft PROVE IInv'
<1> USE DEF Before, Drafting, Writing, Repairing, Closing
<1>1. pc = "draft" /\ outcome = "none" /\ pc' = "prose" /\ Ready
  BY DEF Draft, At, IInv
<1>2. TypeInv'
  BY <1>1 DEF Draft, work, IInv, TypeInv, EvidenceRecord
<1>3. MadeFrom(Held)'
  BY <1>1 DEF Draft, work, IInv, TypeInv, Ready, EvidenceSuffices, Suffices, MadeFrom, Held
<1> QED BY <1>1, <1>2, <1>3 DEF Draft, work, IInv

LEMMA TransformKeeps == ASSUME IInv, Transform PROVE IInv'
<1> USE DEF Before, Drafting, Writing, Repairing, Closing
<1>1. pc = "prose" /\ outcome = "none" /\ pc' = "review" /\ MadeFrom(Held)
  BY DEF Transform, At, IInv
<1>2. article'.n = article.n + 1 /\ article'.labels = article.labels
      /\ article'.evidence = article.evidence /\ article'.graph = article.graph
      /\ TypeInv'
  BY <1>1 DEF Transform, work, IInv, TypeInv
<1>3. article.n \in Nat
  BY DEF IInv, TypeInv
<1>4. MadeFrom(Held)'
  BY <1>1, <1>2, <1>3 DEF Transform, work, Suffices, MadeFrom, Held
<1> QED BY <1>1, <1>2, <1>4 DEF Transform, work, IInv

-----------------------------------------------------------------------------
(* The review loop. *)

LEMMA ReviewKeeps == ASSUME IInv, Review PROVE IInv'
<1> USE DEF Before, Drafting, Writing, Repairing, Closing
<1>1. pc = "review" /\ outcome = "none" /\ MadeFrom(Held)
      /\ pc' \in {"publish", "search", "revise"}
  BY DEF Review, At, IInv
<1>2. review'.of = article.n /\ TypeInv'
  BY <1>1 DEF Review, work, IInv, TypeInv
<1>3. MadeFrom(Held)'
  BY <1>1 DEF Review, work, Suffices, MadeFrom, Held
<1> QED BY <1>1, <1>2, <1>3 DEF Review, work, IInv

\* A repair that is given up leaves exactly what was held.
LEMMA JudgeRepairKeeps == ASSUME IInv, JudgeRepair PROVE IInv'
<1> USE DEF Before, Drafting, Writing, Repairing, Closing
<1>1. pc = "judge" /\ outcome = "none" /\ MadeFrom(held) /\ evidence.of = ranked
  BY DEF JudgeRepair, At, IInv
<1>2. CASE EvidenceSuffices /\ pc' = "argue" /\ UNCHANGED work
  <2>1. TypeInv'
    BY <1>2 DEF JudgeRepair, work, IInv, TypeInv
  <2>2. Ready'
    BY <1>1, <1>2 DEF JudgeRepair, work, Ready, EvidenceSuffices
  <2> QED BY <1>1, <1>2, <2>1, <2>2 DEF JudgeRepair, work, IInv
<1>3. CASE ~EvidenceSuffices /\ pc' = "revise" /\ RollBack
  <2>1. TypeInv'
    BY <1>3 DEF JudgeRepair, RollBack, IInv, TypeInv, Work
  <2>2. MadeFrom(Held)' /\ labels' = ranked'
    BY <1>1, <1>3 DEF JudgeRepair, RollBack, Suffices, MadeFrom, Held
  <2> QED BY <1>1, <1>3, <2>1, <2>2 DEF JudgeRepair, IInv
<1> QED BY <1>2, <1>3 DEF JudgeRepair

LEMMA ReviseKeeps == ASSUME IInv, Revise PROVE IInv'
<1> USE DEF Before, Drafting, Writing, Repairing, Closing
<1>1. pc = "revise" /\ outcome = "none" /\ pc' = "prose" /\ MadeFrom(Held)
  BY DEF Revise, At, IInv
<1>2. graph' \in GraphRecord /\ graph'.evidence = evidence.of
  BY <1>1, NextGraphTyped DEF Revise, IInv, TypeInv, MadeFrom, Held
<1>3. article.n \in Nat /\ evidence.of \in Nat
  BY DEF IInv, TypeInv, EvidenceRecord
<1> DEFINE counted == [article EXCEPT !.n = @ + 1]
           linked  == [counted EXCEPT !.evidence = evidence.of]
<1>4. article'.n = article.n + 1 /\ article'.labels = article.labels
      /\ article'.evidence = evidence.of /\ article'.graph = graph'
      /\ article' \in [n : Nat, labels : Nat, evidence : Nat, graph : GraphRecord]
  <2>1. counted \in [n : Nat, labels : Nat, evidence : Nat, graph : GraphRecord]
        /\ counted.n = article.n + 1 /\ counted.labels = article.labels
    BY <1>3 DEF IInv, TypeInv
  <2>2. article' = [linked EXCEPT !.graph = graph']
    BY DEF Revise
  <2> HIDE DEF counted
  <2>3. linked \in [n : Nat, labels : Nat, evidence : Nat, graph : GraphRecord]
        /\ linked.n = counted.n /\ linked.labels = counted.labels
        /\ linked.evidence = evidence.of
    BY <1>3, <2>1
  <2> HIDE DEF linked
  <2> QED BY <1>2, <2>1, <2>2, <2>3
<1>5. TypeInv'
  BY <1>1, <1>2, <1>4 DEF Revise, IInv, TypeInv
<1>6. MadeFrom(Held)'
  BY <1>1, <1>2, <1>3, <1>4 DEF Revise, Suffices, MadeFrom, Held
<1> QED BY <1>1, <1>5, <1>6 DEF Revise, IInv

-----------------------------------------------------------------------------
(* The end of the run. *)

LEMMA PublishKeeps == ASSUME IInv, Publish PROVE IInv'
<1> USE DEF Before, Drafting, Writing, Repairing, Closing
<1>1. pc = "publish" /\ outcome = "none" /\ pc' = "govern" /\ labels' = ranked
      /\ labels = ranked
  BY DEF Publish, At, IInv
<1>2. files' \in FileRecord /\ Published'
  BY DEF Publish, Published, IInv, TypeInv, FileRecord, EvidenceRecord
<1>3. TypeInv'
  BY <1>1, <1>2 DEF Publish, IInv, TypeInv
<1>4. MadeFrom(Held) => MadeFrom(Held)'
  BY <1>1 DEF Publish, Suffices, MadeFrom, Held
<1> QED BY <1>1, <1>2, <1>3, <1>4 DEF Publish, IInv

\* The documents that bear a status repeat what was published.
LEMMA BearKeeps ==
  ASSUME IInv, NEW status \in Names, Bear(status), pc \in Closing,
         UNCHANGED <<work, article, review>>, Published,
         status = "APPROVED" => article.n # 0 /\ review.findings = {}
  PROVE  files' \in FileRecord /\ Published' /\ Borne' /\ files'.state = status
<1>1. files' \in FileRecord /\ files'.state = status
      /\ files'.register = files.register /\ files'.matrix = files.matrix
      /\ files'.graph = files.graph /\ files'.text = files.text
      /\ files'.provenance = Provenance(status, graph) /\ files'.ledger = Ledger(status)
  BY DEF Bear, Provenance, Ledger, IInv, TypeInv, FileRecord, EvidenceRecord
<1> QED
  BY <1>1 DEF Published, Borne, work, Provenance, Ledger

LEMMA GovernKeeps == ASSUME IInv, Govern PROVE IInv'
<1> USE DEF Before, Drafting, Writing, Repairing, Closing
<1>1. pc = "govern" /\ outcome = "none" /\ pc' = "validate" /\ Published
  BY DEF Govern, At, IInv
<1>2. PICK sound \in BOOLEAN :
        Bear(IF Clear(sound) THEN "APPROVED" ELSE "REVIEW_REQUIRED")
  BY DEF Govern
<1> DEFINE status == IF Clear(sound) THEN "APPROVED" ELSE "REVIEW_REQUIRED"
<1>3. status \in Names
      /\ (status = "APPROVED" => article.n # 0 /\ review.findings = {})
  <2>1. CASE Clear(sound)
    BY <2>1 DEF Clear, Names
  <2>2. CASE ~Clear(sound)
    BY <2>2 DEF Names
  <2> QED BY <2>1, <2>2
<1> HIDE DEF status
<1>4. files' \in FileRecord /\ Published' /\ Borne'
  BY <1>1, <1>2, <1>3, BearKeeps DEF Govern, status
<1>5. TypeInv' /\ (MadeFrom(Held) => MadeFrom(Held)')
  BY <1>1, <1>4 DEF Govern, work, IInv, TypeInv, Suffices, MadeFrom, Held
<1> QED BY <1>1, <1>4, <1>5 DEF Govern, work, IInv

LEMMA ValidateKeeps == ASSUME IInv, Validate PROVE IInv'
<1> USE DEF Before, Drafting, Writing, Repairing, Closing
<1>1. pc = "validate" /\ outcome = "none" /\ pc' = "done" /\ Published /\ Borne
  BY DEF Validate, At, IInv
<1>2. files' \in FileRecord /\ Published' /\ Borne'
  <2>1. CASE files' = files
    BY <1>1, <2>1
       DEF Validate, work, Published, Borne, Provenance, Ledger, IInv, TypeInv
  <2>2. CASE Bear("REVIEW_REQUIRED")
    <3>1. "REVIEW_REQUIRED" \in Names /\ UNCHANGED <<work, article, review>>
      BY DEF Validate, Names
    <3> QED BY <1>1, <2>2, <3>1, BearKeeps
  <2> QED BY <2>1, <2>2 DEF Validate
<1>3. TypeInv' /\ (MadeFrom(Held) => MadeFrom(Held)')
  BY <1>1, <1>2 DEF Validate, work, IInv, TypeInv, Suffices, MadeFrom, Held
<1> QED BY <1>1, <1>2, <1>3 DEF Validate, work, IInv

LEMMA NextIInv == IInv /\ [Next]_vars => IInv'
<1> SUFFICES ASSUME IInv, [Next]_vars PROVE IInv'
  OBVIOUS
<1> USE DEF IInv
<1>1. CASE Raise \/ UNCHANGED vars
  <2>1. UNCHANGED <<pc, request, sources, work, article, review, held, files>>
    BY <1>1 DEF Raise, vars, work
  <2>2. outcome' = "APPROVED" => outcome = "APPROVED"
    BY <1>1 DEF Raise, vars
  <2>3. TypeInv' /\ (Ready => Ready') /\ (MadeFrom(Held) => MadeFrom(Held)')
        /\ (MadeFrom(held) => MadeFrom(held)')
    BY <2>1 DEF TypeInv, Ready, EvidenceSuffices, MadeFrom, Suffices, Held, work
  <2>4. (Published => Published') /\ (Borne => Borne')
    BY <2>1 DEF Published, Borne, Provenance, Ledger, work
  <2> QED BY <2>1, <2>2, <2>3, <2>4 DEF work
<1> HIDE DEF IInv
<1>2. CASE Next /\ ~Raise
  BY <1>2, RetrieveKeeps, RankKeeps, RebuildEvidenceKeeps, GateKeeps, ArgueKeeps,
     DraftKeeps, TransformKeeps, ReviewKeeps, JudgeRepairKeeps, ReviseKeeps,
     PublishKeeps, GovernKeeps, ValidateKeeps
     DEF Next
<1> QED BY <1>1, <1>2

-----------------------------------------------------------------------------
\* However many expansions and reviews there are, and whatever they find: what is
\* released is one piece of work, written from the evidence and the ranking that
\* the register, the matrix, the graph, the provenance and the ledger name.
THEOREM OneWorkReleased == Spec => []ReleaseIsOneWork
<1>1. IInv => ReleaseIsOneWork
  <2> SUFFICES ASSUME IInv, outcome = "APPROVED" PROVE ReleaseIsOneWork
    BY DEF ReleaseIsOneWork
  <2>1. pc = "done" /\ files.state = "APPROVED" /\ Published /\ Borne
        /\ article.n # 0 /\ MadeFrom(Held)
    BY DEF IInv, Borne, Closing
  <2> QED
    BY <2>1 DEF ReleaseIsOneWork, Published, Borne, MadeFrom, Held, Provenance, Ledger
<1>2. Spec => []IInv
  BY InitIInv, NextIInv, PTL DEF Spec
<1> QED BY <1>1, <1>2, PTL

\* What is released passed the evidence gate with the evidence it is released
\* with, and the last review was of this very text and blocked nothing.
THEOREM JustifiedReleased == Spec => []ReleaseIsJustified
<1>1. IInv => ReleaseIsJustified
  <2> SUFFICES ASSUME IInv, outcome = "APPROVED" PROVE ReleaseIsJustified
    BY DEF ReleaseIsJustified
  <2>1. pc = "done" /\ files.state = "APPROVED" /\ Published /\ Borne
        /\ article.n # 0 /\ MadeFrom(Held) /\ review.of = article.n
    BY DEF IInv, Borne, Closing
  <2> QED
    BY <2>1
       DEF ReleaseIsJustified, Published, Borne, MadeFrom, Held, Suffices, EvidenceSuffices
<1>2. Spec => []IInv
  BY InitIInv, NextIInv, PTL DEF Spec
<1> QED BY <1>1, <1>2, PTL
=============================================================================
