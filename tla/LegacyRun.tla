------------------------------- MODULE LegacyRun -------------------------------
(***************************************************************************)
(* AutonomousSWOS.run of legacy_openai_orchestrator.py: one process that   *)
(* calls a stage provider and a retriever, keeps the state of a research   *)
(* run in local variables and writes it out at the end.  Reviews may send  *)
(* it back to the sources; what it then finds replaces what it had, or,    *)
(* when the evidence is too thin, is given up for what it had.             *)
(*                                                                         *)
(* A ranking is known by how many retrievals had added sources when it was *)
(* made, evidence by its ranking, a graph by its evidence and a number, a  *)
(* text by a number and by what it was written from.                       *)
(***************************************************************************)
EXTENDS Naturals

CONSTANTS
  MaxExpansions,  \* attempts of the evidence loop
  MaxReviews,     \* iterations of the review loop
  Kinds,          \* kinds of blocking findings
  ForResearch,    \* those that send the run back to the sources
  ForArgument     \* those that have the argument rebuilt

ASSUME LegacyAssumption ==
  /\ MaxExpansions \in Nat /\ MaxReviews \in Nat \ {0}
  /\ ForResearch \subseteq Kinds /\ ForArgument \subseteq Kinds

VARIABLES
  pc,
  request,   \* whether the topic is a legal one
  sources,   \* retrievals that added sources
  attempts,  \* expansions so far
  ranked,    \* the ranking
  labels,    \* the ranking whose places the markers are
  method,    \* whether the ranking says it was made by the cross encoder
  evidence, graph,
  article,   \* the text, and source_labels it was drafted with
  prose,     \* prose_evidence of the first transformation
  review,    \* the latest review and its number
  held,      \* old_ranked, old_labels, ...
  files,     \* what the output directory says
  outcome

work == <<ranked, labels, method, evidence, graph>>

vars == <<pc, request, sources, attempts, ranked, labels, method, evidence, graph,
          article, prose, review, held, files, outcome>>

NoEvidence == [of |-> 0, enough |-> FALSE, counter |-> FALSE, primary |-> FALSE]

NoGraph == [evidence |-> 0, n |-> 0]

NoArticle == [n |-> 0, labels |-> 0, evidence |-> 0, graph |-> NoGraph]

NoReview == [n |-> 0, of |-> 0, findings |-> {}]

\* _build_epg, _build_sdl and _scholarly_state: documents that bear the status and
\* repeat what the run rests on.
Provenance(status, g) ==
  [status |-> status, register |-> ranked, matrix |-> evidence.of, graph |-> g]

Ledger(status) == [status |-> status, matrix |-> evidence.of]

NoFiles ==
  [register |-> 0, matrix |-> 0, graph |-> NoGraph, text |-> 0,
   provenance |-> [status |-> "none", register |-> 0, matrix |-> 0, graph |-> NoGraph],
   ledger |-> [status |-> "none", matrix |-> 0], state |-> "none"]

Held == [ranked |-> ranked, labels |-> labels, method |-> method,
         evidence |-> evidence, graph |-> graph]

Evidence(id) ==
  [of : {id}, enough : BOOLEAN, counter : BOOLEAN, primary : BOOLEAN]

At(step) == pc = step /\ outcome = "none"

-----------------------------------------------------------------------------
(* Sources and evidence. *)

\* The retriever may find nothing, or nothing new.
Retrieve(step, found, nothing) ==
  /\ At(step)
  /\ \/ sources' = sources + 1 /\ pc' = found
     \/ sources' = sources /\ pc' = nothing

Plan ==
  /\ Retrieve("plan", "rank", "expand")
  /\ UNCHANGED <<request, attempts, work, article, prose, review, held, files, outcome>>

\* The record of a ranking need not name the cross encoder.
Rank(step, next) ==
  /\ At(step)
  /\ ranked' = sources
  /\ labels' = sources
  /\ method' \in BOOLEAN
  /\ pc' = next
  /\ UNCHANGED <<request, sources, attempts, evidence, graph, article, prose, review,
                 held, files, outcome>>

\* build_evidence, audit_evidence and _build_evidence_matrix
RebuildEvidence(step, next) ==
  /\ At(step)
  /\ evidence' \in Evidence(ranked)
  /\ pc' = next
  /\ UNCHANGED <<request, sources, attempts, ranked, labels, method, graph, article,
                 prose, review, held, files, outcome>>

Thin == ~evidence.enough \/ ~evidence.counter

\* An attempt that adds nothing ends the loop.
Expand ==
  /\ attempts < MaxExpansions /\ Thin
  /\ attempts' = attempts + 1
  /\ Retrieve("expand", "rank", "gate")
  /\ UNCHANGED <<request, work, article, prose, review, held, files, outcome>>

ExpansionEnds ==
  /\ At("expand")
  /\ attempts = MaxExpansions \/ ~Thin
  /\ pc' = "gate"
  /\ UNCHANGED <<request, sources, attempts, work, article, prose, review, held, files,
                 outcome>>

\* What a draft needs, and a repair of the research as well.
EvidenceSuffices ==
  /\ evidence.enough /\ evidence.counter
  /\ request.legal => evidence.primary

\* What is written before a draft, with the status the run would have as it is.
Preliminary(status, g) ==
  [files EXCEPT !.register = ranked, !.matrix = evidence.of, !.graph = g,
                !.provenance = Provenance(status, g), !.ledger = Ledger(status)]

\* Without a draft the run goes on to its end.
Gate ==
  /\ At("gate")
  /\ \/ /\ sources # 0 /\ EvidenceSuffices /\ method
        /\ pc' = "argue"
        /\ files' = [files EXCEPT !.register = ranked, !.matrix = evidence.of]
     \/ /\ ~(sources # 0 /\ EvidenceSuffices /\ method)
        /\ pc' = "publish"
        /\ files' = Preliminary("REVIEW_REQUIRED", graph)
  /\ UNCHANGED <<request, sources, attempts, work, article, prose, review, held, outcome>>

NextGraph == [evidence |-> evidence.of,
              n |-> IF graph.evidence = evidence.of THEN graph.n + 1 ELSE 1]

\* The first argument is written at once, one that a repair brings only at the end.
Argue ==
  /\ At("argue")
  /\ graph' = NextGraph
  /\ files' = IF article.n = 0 THEN Preliminary("APPROVED", graph') ELSE files
  /\ pc' = "draft"
  /\ UNCHANGED <<request, sources, attempts, ranked, labels, method, evidence, article,
                 prose, review, held, outcome>>

Draft ==
  /\ At("draft")
  /\ article' = [n |-> article.n + 1, labels |-> labels, evidence |-> evidence.of,
                 graph |-> graph]
  /\ pc' = "prose"
  /\ UNCHANGED <<request, sources, attempts, work, prose, review, held, files, outcome>>

\* _apply_prose: a new text, and a record of which the first is what counts.
Transform ==
  /\ At("prose")
  /\ article' = [article EXCEPT !.n = @ + 1]
  /\ prose' \in IF prose = {} THEN {{[invoked |-> TRUE, safe |-> safe]} : safe \in BOOLEAN}
                              ELSE {prose}
  /\ pc' = "review"
  /\ UNCHANGED <<request, sources, attempts, work, review, held, files, outcome>>

-----------------------------------------------------------------------------
(* The review loop. *)

\* The last iteration ends the loop whatever it found; a review without a single
\* document blocks nothing.
Review ==
  /\ At("review")
  /\ \E findings \in SUBSET Kinds :
       /\ review' = [n |-> review.n + 1, of |-> article.n, findings |-> findings]
       /\ pc' = CASE findings = {} \/ review.n + 1 = MaxReviews -> "publish"
                  [] findings \cap ForResearch # {}             -> "search"
                  [] OTHER                                      -> "revise"
  /\ UNCHANGED <<request, sources, attempts, work, article, prose, held, files, outcome>>

\* Sources that were added stay, also when the repair they were found for fails.
Search ==
  /\ Retrieve("search", "rerank", "revise")
  /\ held' = Held
  /\ UNCHANGED <<request, attempts, work, article, prose, review, files, outcome>>

\* Mutant: a failed repair leaves the new ranking in place.
RollBackEvidence ==
  /\ evidence' = held.evidence /\ graph' = held.graph
  /\ UNCHANGED <<ranked, labels, method>>

RollBack ==
  /\ ranked' = held.ranked /\ labels' = held.labels /\ method' = held.method
  /\ evidence' = held.evidence /\ graph' = held.graph

\* Mutant: the repaired evidence need only be enough.
JudgeRepairByCount ==
  /\ At("judge")
  /\ \/ evidence.enough /\ pc' = "argue" /\ UNCHANGED work
     \/ ~evidence.enough /\ pc' = "revise" /\ RollBack
  /\ UNCHANGED <<request, sources, attempts, article, prose, review, held, files, outcome>>

JudgeRepair ==
  /\ At("judge")
  /\ \/ EvidenceSuffices /\ pc' = "argue" /\ UNCHANGED work
     \/ ~EvidenceSuffices /\ pc' = "revise" /\ RollBack
  /\ UNCHANGED <<request, sources, attempts, article, prose, review, held, files, outcome>>

\* The argument is rebuilt first when a finding is about it.
Revise ==
  /\ At("revise")
  /\ graph' = IF review.findings \cap ForArgument # {} THEN NextGraph ELSE graph
  /\ article' = [article EXCEPT !.n = @ + 1, !.evidence = evidence.of, !.graph = graph']
  /\ pc' = "prose"
  /\ UNCHANGED <<request, sources, attempts, ranked, labels, method, evidence, prose,
                 review, held, files, outcome>>

-----------------------------------------------------------------------------
(* The end of the run. *)

\* The registers, the matrix, the graph, the reviews and the article.
Publish ==
  /\ At("publish")
  /\ labels' = ranked
  /\ files' = [files EXCEPT !.register = ranked, !.matrix = evidence.of,
                            !.graph = graph, !.text = article.n]
  /\ pc' = "govern"
  /\ UNCHANGED <<request, sources, attempts, ranked, method, evidence, graph, article,
                 prose, review, held, outcome>>

\* sound: the length, the markers and the chain.  An early blocker leaves no article.
Clear(sound) ==
  /\ article.n # 0
  /\ review.findings = {}
  /\ \E pass \in prose : pass.invoked /\ pass.safe
  /\ sound

\* The documents that bear the status.
Bear(status) ==
  files' = [files EXCEPT !.provenance = Provenance(status, graph),
                         !.ledger = Ledger(status), !.state = status]

Govern ==
  /\ At("govern")
  /\ \E sound \in BOOLEAN : Bear(IF Clear(sound) THEN "APPROVED" ELSE "REVIEW_REQUIRED")
  /\ pc' = "validate"
  /\ UNCHANGED <<request, sources, attempts, work, article, prose, review, held, outcome>>

\* _validate_schemas: when the schemas change the status, all three are written again.
Validate ==
  /\ At("validate")
  /\ \/ files' = files
     \/ Bear("REVIEW_REQUIRED")
  /\ outcome' = files'.state
  /\ pc' = "done"
  /\ UNCHANGED <<request, sources, attempts, work, article, prose, review, held>>

\* The provider or the retriever raises, or the argument has no nodes: run() raises.
Raise ==
  /\ pc \notin {"gate", "judge", "publish", "govern", "validate", "done"}
  /\ outcome = "none"
  /\ outcome' = "raised"
  /\ UNCHANGED <<pc, request, sources, attempts, work, article, prose, review, held, files>>

Init ==
  /\ pc = "plan"
  /\ request \in [legal : BOOLEAN]
  /\ sources = 0 /\ attempts = 0
  /\ ranked = 0 /\ labels = 0 /\ method = FALSE
  /\ evidence = NoEvidence /\ graph = NoGraph
  /\ article = NoArticle /\ prose = {} /\ review = NoReview
  /\ held = Held
  /\ files = NoFiles
  /\ outcome = "none"

Next ==
  \/ Plan \/ Rank("rank", "build") \/ RebuildEvidence("build", "expand")
  \/ Expand \/ ExpansionEnds \/ Gate
  \/ Argue \/ Draft \/ Transform
  \/ Review \/ Search \/ Rank("rerank", "rebuild") \/ RebuildEvidence("rebuild", "judge")
  \/ JudgeRepair \/ Revise
  \/ Publish \/ Govern \/ Validate \/ Raise

Spec == Init /\ [][Next]_vars

-----------------------------------------------------------------------------
(* Properties *)

\* What is released is one piece of work: the markers of the article are places in
\* the ranking that the register lists, the matrix and the graph beside it are
\* the ones it was written from, and the provenance and the ledger say the same,
\* however many repairs were begun and given up.
ReleaseIsOneWork ==
  outcome = "APPROVED" =>
    /\ files.register = article.labels
    /\ files.matrix = article.evidence /\ files.matrix = files.register
    /\ files.graph = article.graph /\ files.graph.evidence = files.matrix
    /\ files.text = article.n
    /\ files.provenance = [status |-> "APPROVED", register |-> files.register,
                           matrix |-> files.matrix, graph |-> files.graph]
    /\ files.ledger = [status |-> "APPROVED", matrix |-> files.matrix]

\* What is released passed the evidence gate with the evidence it is released with,
\* and the last review was of this very text and blocked nothing.
ReleaseIsJustified ==
  outcome = "APPROVED" =>
    /\ EvidenceSuffices /\ files.matrix = evidence.of
    /\ review.of = files.text /\ review.findings = {}
=============================================================================
