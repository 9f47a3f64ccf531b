------------------------------ MODULE EvidenceGate ------------------------------
(***************************************************************************)
(* What a release rests on.  Each submission of a run is validated when it *)
(* is submitted (the _validate functions of work_orders.py), and all of    *)
(* them are judged again when the run is finalised (finalizer.py), by      *)
(* other code and at another time.  The actions are the accepted           *)
(* submissions in the order of the stages, and the final judgement.        *)
(***************************************************************************)
EXTENDS Naturals, Sequences, FiniteSets, CitationSupport

CONSTANTS
  SourceIds,     \* identifiers under which hosts return sources
  Qualities,     \* what is known of a source
  Remarks,       \* what a candidate says
  Judgements,    \* what a host's audit of a candidate returns
  Classifiers,   \* citation classifiers a broker is configured with
  NoClassifier,  \* a broker without one, or a host's run
  Rows,          \* what a classifier's model answers for a pair
  Graphs,        \* sets of argument nodes hosts return
  Contexts,      \* what else governance looks at
  MaxSources,    \* bound: sources of a retrieval
  MaxClaims,     \* bound: evidence candidates of an extraction
  MinRows,       \* supported claims a release needs (5 in the code)
  MinMarkers,    \* sources an article has to cite (3 in the code)
  MaxReviews     \* MAX_REVIEW_ITERATIONS (3 in the code)

ASSUME EvidenceAssumption ==
  /\ Qualities \subseteq
       [verified : BOOLEAN, retraction : {"clean", "unchecked", "retracted"},
        cleared : BOOLEAN, redistributable : BOOLEAN, primary : BOOLEAN]
  /\ Remarks \subseteq
       [stance : {"support", "counter"}, stated : BOOLEAN, verbatim : BOOLEAN]
  /\ Judgements \subseteq
       [level : STRING, decision : {"absent", "eligible", "ineligible"}]
  /\ NoClassifier \notin Classifiers
  /\ Contexts \subseteq
       [legal : BOOLEAN, classified : BOOLEAN, clear : BOOLEAN,
        classifier : Classifiers \cup {NoClassifier}]
  /\ MaxSources \in Nat /\ MaxClaims \in Nat
  /\ MinRows \in Nat \ {0} /\ MinMarkers \in Nat /\ MaxReviews \in Nat

VARIABLES
  stage,     \* the submission that is due
  sources,   \* sources retrieved; a source's position is its marker
  claims,    \* evidence candidates
  audits,    \* the audit's judgement of each candidate
  graph,     \* the argument's nodes
  article,   \* the text in force
  reviews,   \* the hostile reviews, in their order
  context,   \* the conditions outside these submissions
  outcome    \* the status that finalise returns

vars ==
  <<stage, sources, claims, audits, graph, article, reviews, context, outcome>>

-----------------------------------------------------------------------------
(* Quality: "clean" is a retraction check that found nothing and whose date    *)
(* and source are recorded, cleared a licence that was cleared with both.    *)
(* A quotation that is not in its source does not get past                   *)
(* _validate_evidence, which compares up to white space; verbatim is one     *)
(* that occurs in it character by character.                                 *)
(*                                                                           *)
(* Judgement: the audit's support level and the eligibility that a citation  *)
(* classifier gave, when one was consulted.                                  *)
(*                                                                           *)
(* Context: a legal topic; whether a host records classifier evidence; the   *)
(* broker's classifier; whether the independence of the reviews, the image   *)
(* analysis, the critique, the diversity report, the rerank contract and the *)
(* schemas raise no objection.                                               *)

Source == [id : SourceIds, is : Qualities]

Claim == [source : SourceIds, is : Remarks]

\* The text in force: what it cites and whether the text that is released, the
\* transformed one or this one, has the length that was asked for.
Text == [markers : SUBSET Nat, inRange : BOOLEAN]

NoText == [markers |-> {}, inRange |-> FALSE]

SeqsUpTo(S, n) == UNION {[1..k -> S] : k \in 1..n}

\* _source_labels: a source's marker is its place among the sources.
Markers == DOMAIN sources

SourceOf(claim) == sources[CHOOSE i \in DOMAIN sources : sources[i].id = claim.source]

-----------------------------------------------------------------------------
(* The submissions. *)

Retrieve ==
  /\ stage = "source_retrieval"
  /\ sources' \in SeqsUpTo(Source, MaxSources)
  /\ \A i, j \in DOMAIN sources' : sources'[i].id = sources'[j].id => i = j
  /\ stage' = "evidence_extraction"
  /\ UNCHANGED <<claims, audits, graph, article, reviews, context, outcome>>

Extract ==
  /\ stage = "evidence_extraction"
  /\ claims' \in SeqsUpTo(Claim, MaxClaims)
  /\ \A i \in DOMAIN claims' :
       \E j \in DOMAIN sources :
         sources[j].id = claims'[i].source /\ sources[j].is.verified
  /\ stage' = "citation_support_audit"
  /\ UNCHANGED <<sources, audits, graph, article, reviews, context, outcome>>

\* A pair that the classifier judges needs a claim.
Classifiable == \A i \in DOMAIN claims : claims[i].is.stated

\* The broker's audit of the candidates, when the model answers with rows.
Classified(rows) ==
  LET decisions == Classify(context.classifier, rows, Len(claims))
  IN  [i \in DOMAIN claims |->
         Audited(claims[i].is.verbatim, SourceOf(claims[i]).is, decisions[i])]

\* What the stage may be given, by a host or by the broker with its classifier.
Proposals ==
  IF context.classifier = NoClassifier
    THEN [DOMAIN claims -> Judgements]
    ELSE {Classified(rows) : rows \in [DOMAIN claims -> Rows]}

\* _validate_citation_audit
AuditAccepted(proposal) ==
  \A i \in DOMAIN claims : proposal[i].level \in VALID_SUPPORT_LEVELS

AuditSupport ==
  /\ stage = "citation_support_audit"
  /\ context.classifier # NoClassifier => Classifiable
  /\ \E proposal \in Proposals :
       /\ AuditAccepted(proposal)
       /\ audits' = proposal
  /\ stage' = "argument_construction"
  /\ UNCHANGED <<sources, claims, graph, article, reviews, context, outcome>>

\* An audit with another level, or a candidate that the classifier cannot take,
\* raises: the run ends in _review_required_outcome.
AuditFails ==
  /\ stage = "citation_support_audit"
  /\ \/ context.classifier # NoClassifier /\ ~Classifiable
     \/ \E proposal \in Proposals : ~AuditAccepted(proposal)
  /\ stage' = "done"
  /\ outcome' = "REVIEW_REQUIRED"
  /\ UNCHANGED <<sources, claims, audits, graph, article, reviews, context>>

Direct(i) == audits[i].level = "directly_supports"

\* _directly_supported_indices
Supported == {i \in DOMAIN claims : Direct(i)}

Argue ==
  /\ stage = "argument_construction"
  /\ graph' \in Graphs
  /\ graph' # {}
  /\ \A n \in graph' : n.evidence \subseteq Supported
  /\ stage' = "article"
  /\ UNCHANGED <<sources, claims, audits, article, reviews, context, outcome>>

Lesser(m, n) == IF m < n THEN m ELSE n

\* A draft or a revision: its markers are known and cover enough sources.
Draft ==
  /\ stage = "article"
  /\ \E markers \in SUBSET Markers :
       /\ markers # {}
       /\ Cardinality(markers) >= Lesser(MinMarkers, Len(sources))
       /\ article' = [NoText EXCEPT !.markers = markers]
  /\ stage' = "prose_transformation"
  /\ UNCHANGED <<sources, claims, audits, graph, reviews, context, outcome>>

\* The transformed text and its semantic verification: the markers are kept.
Transform ==
  /\ stage = "prose_transformation"
  /\ \E inRange \in BOOLEAN : article' = [article EXCEPT !.inRange = inRange]
  /\ stage' = "hostile_review"
  /\ UNCHANGED <<sources, claims, audits, graph, reviews, context, outcome>>

\* A submission with no reviewer's result in it is accepted, and blocks nothing here.
Review(review) ==
  /\ stage = "hostile_review"
  /\ review # "blocking" \/ Len(reviews) + 1 < MaxReviews
  /\ reviews' = Append(reviews, review)
  /\ stage' = IF review = "blocking" THEN "article" ELSE "finalise"
  /\ UNCHANGED <<sources, claims, audits, graph, article, context, outcome>>

\* The last review that is allowed blocks as well.
ReviewFails ==
  /\ stage = "hostile_review"
  /\ Len(reviews) + 1 >= MaxReviews
  /\ reviews' = Append(reviews, "blocking")
  /\ stage' = "done"
  /\ outcome' = "REVIEW_REQUIRED"
  /\ UNCHANGED <<sources, claims, audits, graph, article, context>>

-----------------------------------------------------------------------------
(* The final judgement. *)

Fit(source) == source.is.retraction = "clean" /\ source.is.cleared

\* _evidence_matrix: the candidates that become rows.
Admitted(i) ==
  LET source == SourceOf(claims[i])
  IN  /\ source.is.verified
      /\ Fit(source)
      /\ audits[i].decision # "ineligible"
      /\ Direct(i)
      /\ claims[i].is.stated

Admissions == {i \in DOMAIN claims : Admitted(i)}

EvidenceSources == {claims[i].source : i \in Admissions}

CounterPresent == \E i \in Admissions : claims[i].is.stance = "counter"

\* _argument_graph: a node without a statement is left out.
ReleasedNodes ==
  {[local |-> n.local, evidence |-> n.evidence \cap Admissions] :
     n \in {n \in graph : n.stated}}

\* _canonical_sources, _evidence_matrix
SourceBlocks == \E i \in DOMAIN sources : ~sources[i].is.verified

ClassifierBlocks ==
  /\ context.classified \/ context.classifier # NoClassifier
  /\ \E i \in DOMAIN claims : audits[i].decision = "absent"

EvidenceBlocks ==
  \/ Cardinality(Admissions) < MinRows
  \/ ~CounterPresent
  \/ /\ context.legal
     /\ ~\E i \in DOMAIN sources :
           sources[i].is.primary /\ sources[i].id \in EvidenceSources

\* Only the last review's findings are open; a result in any review is a document.
OpenFindings == reviews # << >> /\ reviews[Len(reviews)] = "blocking"

ReviewDocuments == {i \in DOMAIN reviews : reviews[i] # "empty"}

\* Mutant: a run without a reviewer's result is not blocked.
ReviewBlocksOnFindings == ReleasedNodes = {} \/ OpenFindings

\* _argument_graph, _review_documents
ReviewBlocks == ReleasedNodes = {} \/ OpenFindings \/ ReviewDocuments = {}

\* The article's markers name sources with a row.
ArticleBlocks ==
  \/ article.markers = {}
  \/ ~(article.markers \subseteq Markers)
  \/ Cardinality(article.markers) < MinMarkers
  \/ \E m \in article.markers \cap Markers : sources[m].id \notin EvidenceSources
  \/ ~article.inRange

Blocked ==
  \/ SourceBlocks \/ ClassifierBlocks \/ EvidenceBlocks
  \/ ReviewBlocks \/ ArticleBlocks \/ ~context.clear

Finalise ==
  /\ stage = "finalise"
  /\ outcome' = IF Blocked THEN "REVIEW_REQUIRED" ELSE "APPROVED"
  /\ stage' = "done"
  /\ UNCHANGED <<sources, claims, audits, graph, article, reviews, context>>

Init ==
  /\ stage = "source_retrieval"
  /\ sources = << >> /\ claims = << >> /\ audits = << >>
  /\ graph = {}
  /\ article = NoText
  /\ reviews = << >>
  /\ context \in Contexts
  /\ outcome = "none"

Next ==
  \/ Retrieve \/ Extract \/ AuditSupport \/ AuditFails \/ Argue \/ Draft
  \/ Transform \/ ReviewFails \/ Finalise
  \/ \E review \in {"empty", "clear", "blocking"} : Review(review)

Spec == Init /\ [][Next]_vars

-----------------------------------------------------------------------------
(* Properties *)

\* Every marker of an approved article denotes, under the numbering the drafter
\* was given, a source whose metadata is verified, whose retraction and licence
\* are cleared, and from which a claim was taken that the audit found directly
\* supported and the classifier did not refuse.  When the broker has a
\* classifier, that one's artifacts are verified, it found the label itself, and
\* the claim's quotation is verbatim.
Grounded(m) ==
  /\ m \in Markers
  /\ sources[m].is.verified /\ Fit(sources[m])
  /\ \E i \in DOMAIN claims :
       /\ claims[i].source = sources[m].id
       /\ claims[i].is.stated
       /\ Direct(i) /\ audits[i].decision # "ineligible"
       /\ context.classifier # NoClassifier =>
            /\ Ready(context.classifier)
            /\ claims[i].is.verbatim

ApprovedIsGrounded ==
  outcome = "APPROVED" => \A m \in article.markers : Grounded(m)

\* The evaluation judges a released run once more, from its files (evaluation.py,
\* _subject_plane_ok): what finalise approved passes its retrieval, grounding and
\* scholarly planes.  The reviewer's result that the last of them asks for may be of
\* an earlier text.
PassesPlanes ==
  /\ sources # << >> /\ CounterPresent
  /\ Admissions # {} /\ \A i \in Admissions : Direct(i)
  /\ ReleasedNodes # {} /\ ReviewDocuments # {}

ApprovedPassesPlanes == outcome = "APPROVED" => PassesPlanes
=============================================================================
