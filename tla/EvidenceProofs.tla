---------------------------- MODULE EvidenceProofs ----------------------------
(***************************************************************************)
(* What a release's evidence rests on, text (EvidenceGate) and images      *)
(* (ImageAnalysis), for any sources, audits, classifiers, assets and       *)
(* observations, and on what evidence image analysis is enabled            *)
(* (Promotion).  The three components share no state but the clock.        *)
(***************************************************************************)
EXTENDS EvidenceGate, ImageAnalysis, Promotion, SequenceTheorems, FiniteSetTheorems,
        WellFoundedInduction, TLAPS

(***************************************************************************)
(* The evidence gate: the final judgement is made of the submissions as    *)
(* they are then; the invariant adds what only earlier stages know: that   *)
(* an identifier names one source, and that the audits of a broker with a  *)
(* classifier are what that classifier made of the candidates.             *)
(***************************************************************************)
Audit == {"argument_construction", "article", "prose_transformation",
          "hostile_review", "finalise", "done"}

OneId == \A i, j \in DOMAIN sources : sources[i].id = sources[j].id => i = j

AuditedBy(rows) == audits = Classified(rows)

Consulted ==
  context.classifier # NoClassifier => \E rows \in [DOMAIN claims -> Rows] : AuditedBy(rows)

GateInv ==
  /\ OneId
  /\ claims \in Seq(Claim)
  /\ stage \in Audit /\ outcome # "REVIEW_REQUIRED" => Consulted
  /\ outcome # "none" => stage = "done"
  /\ outcome = "APPROVED" => ~Blocked

\* The judgement depends on the submissions and the conditions around them alone.
LEMMA BlockedRests ==
  ASSUME UNCHANGED <<sources, claims, audits, graph, article, reviews, context>>
  PROVE  Blocked' <=> Blocked
<1>1. /\ \A claim : SourceOf(claim)' = SourceOf(claim)
      /\ \A i : Direct(i)' <=> Direct(i)
  BY DEF SourceOf, Direct
<1>2. \A i : Admitted(i)' <=> Admitted(i)
  BY <1>1 DEF Admitted, Fit
<1>3. Admissions' = Admissions
  BY <1>2 DEF Admissions
<1>4. EvidenceSources' = EvidenceSources /\ (CounterPresent' <=> CounterPresent)
  BY <1>3 DEF EvidenceSources, CounterPresent
<1>5. ReleasedNodes' = ReleasedNodes /\ Markers' = Markers
  BY <1>3 DEF ReleasedNodes, Markers
<1>6. (SourceBlocks' <=> SourceBlocks) /\ (ClassifierBlocks' <=> ClassifierBlocks)
  BY DEF SourceBlocks, ClassifierBlocks
<1>7. EvidenceBlocks' <=> EvidenceBlocks
  BY <1>3, <1>4 DEF EvidenceBlocks
<1>8. (ReviewBlocks' <=> ReviewBlocks) /\ (ArticleBlocks' <=> ArticleBlocks)
  BY <1>4, <1>5 DEF ReviewBlocks, OpenFindings, ReviewDocuments, ArticleBlocks
<1> QED BY <1>6, <1>7, <1>8 DEF Blocked

LEMMA InitGate == Init => GateInv
BY DEF Init, GateInv, OneId, Audit

LEMMA NextGate == GateInv /\ [Next]_vars => GateInv'
<1> SUFFICES ASSUME GateInv, [Next]_vars PROVE GateInv'
  OBVIOUS
<1> USE DEF GateInv, Audit
<1>1. CASE Retrieve
  BY <1>1 DEF Retrieve, OneId
<1>2. CASE Extract
  <2>1. claims' \in SeqsUpTo(Claim, MaxClaims)
    BY <1>2 DEF Extract
  <2>2. claims' \in Seq(Claim)
    BY <2>1, EvidenceAssumption, SeqDef DEF SeqsUpTo
  <2> QED BY <1>2, <2>2 DEF Extract, OneId
<1>3. CASE AuditSupport
  <2>1. PICK proposal \in Proposals : audits' = proposal
    BY <1>3 DEF AuditSupport
  <2>2. UNCHANGED <<sources, claims, context, outcome>> /\ outcome # "APPROVED"
    BY <1>3 DEF AuditSupport
  <2>3. Consulted'
    <3> SUFFICES ASSUME context.classifier # NoClassifier
                 PROVE  \E rows \in [DOMAIN claims -> Rows] : audits' = Classified(rows)'
      BY <2>2 DEF Consulted, AuditedBy
    <3>1. PICK rows \in [DOMAIN claims -> Rows] : audits' = Classified(rows)
      BY <2>1 DEF Proposals
    <3>2. Classified(rows)' = Classified(rows)
      BY <2>2 DEF Classified, SourceOf
    <3> QED BY <3>1, <3>2
  <2> QED BY <1>3, <2>2, <2>3 DEF OneId, AuditSupport
<1>4. CASE AuditFails
  BY <1>4 DEF AuditFails, OneId
<1>5. CASE \/ Argue \/ Draft \/ Transform \/ ReviewFails \/ Finalise
           \/ \E review \in {"empty", "clear", "blocking"} : Review(review)
  <2>1. UNCHANGED <<sources, claims, audits, context>> /\ stage \in Audit \ {"done"}
    BY <1>5 DEF Argue, Draft, Transform, Review, ReviewFails, Finalise
  <2>2. (Consulted' <=> Consulted) /\ OneId'
    BY <2>1 DEF Consulted, AuditedBy, Classified, SourceOf, OneId
  <2>3. CASE \/ Argue \/ Draft \/ Transform \/ ReviewFails
             \/ \E review \in {"empty", "clear", "blocking"} : Review(review)
    BY <2>1, <2>2, <2>3 DEF Argue, Draft, Transform, Review, ReviewFails
  <2>4. CASE Finalise
    <3>1. UNCHANGED <<sources, claims, audits, graph, article, reviews, context>>
      BY <2>4 DEF Finalise
    <3>2. Blocked' <=> Blocked
      BY <3>1, BlockedRests
    <3>3. outcome' = (IF Blocked THEN "REVIEW_REQUIRED" ELSE "APPROVED") /\ stage' = "done"
      BY <2>4 DEF Finalise
    <3>4. outcome' = "APPROVED" => ~Blocked'
      BY <3>2, <3>3
    <3>5. stage \in Audit /\ outcome # "REVIEW_REQUIRED"
      BY <2>1, <2>4 DEF Finalise
    <3> HIDE DEF Blocked
    <3> QED BY <2>2, <3>1, <3>3, <3>4, <3>5
  <2> QED BY <1>5, <2>3, <2>4
<1>6. CASE UNCHANGED vars
  <2>1. UNCHANGED <<stage, sources, claims, audits, graph, article, reviews, context, outcome>>
    BY <1>6 DEF vars
  <2>2. (Consulted' <=> Consulted) /\ OneId'
    BY <2>1 DEF Consulted, AuditedBy, Classified, SourceOf, OneId
  <2>3. Blocked' <=> Blocked
    BY <2>1, BlockedRests
  <2> QED BY <2>1, <2>2, <2>3
<1> QED BY <1>1, <1>2, <1>3, <1>4, <1>5, <1>6 DEF Next

LEMMA GateInvariant == Spec => []GateInv
BY InitGate, NextGate, PTL DEF Spec

-----------------------------------------------------------------------------
\* With one source per identifier, a candidate's source is the one that has its.
LEMMA SourceIsNamed ==
  ASSUME OneId, NEW m \in DOMAIN sources, NEW claim, claim.source = sources[m].id
  PROVE  SourceOf(claim) = sources[m]
<1>1. \A i \in DOMAIN sources : sources[i].id = claim.source => i = m
  BY DEF OneId
<1>2. (CHOOSE i \in DOMAIN sources : sources[i].id = claim.source) = m
  BY <1>1
<1> QED BY <1>2 DEF SourceOf

\* An eligible pair: its classifier is ready and its quotation verbatim.
LEMMA EligibleIsReady ==
  ASSUME NEW rows \in [DOMAIN claims -> Rows], AuditedBy(rows),
         NEW i \in DOMAIN claims, DOMAIN claims = 1..Len(claims),
         audits[i].decision # "ineligible"
  PROVE  Ready(context.classifier) /\ claims[i].is.verbatim
<1> DEFINE decisions == Classify(context.classifier, rows, Len(claims))
<1>1. audits[i] = Audited(claims[i].is.verbatim, SourceOf(claims[i]).is, decisions[i])
  BY DEF AuditedBy, Classified
<1>2. AdmissionEligible(claims[i].is.verbatim, SourceOf(claims[i]).is, decisions[i])
  <2> HIDE DEF decisions
  <2> QED BY <1>1 DEF Audited
<1>3. claims[i].is.verbatim /\ decisions[i].status = "classified"
  <2> HIDE DEF decisions
  <2> QED BY <1>2 DEF AdmissionEligible, Precheck
<1>4. ~Ready(context.classifier) => decisions[i] = Failed("abstained")
  BY DEF Classify
<1>5. Failed("abstained").status = "abstained"
  BY DEF Failed, Decided
<1> HIDE DEF decisions
<1> QED BY <1>3, <1>4, <1>5

-----------------------------------------------------------------------------
\* Every marker of an approved article denotes a source in order, with a claim that
\* the audit found directly supported; when the broker has a classifier, its
\* artifacts are verified and the claim's quotation is verbatim.
THEOREM GroundedApproved == Spec => []ApprovedIsGrounded
<1>1. GateInv => ApprovedIsGrounded
  <2> SUFFICES ASSUME GateInv, outcome = "APPROVED", NEW m \in article.markers
               PROVE  Grounded(m)
    BY DEF ApprovedIsGrounded
  <2>1. OneId /\ Consulted /\ ~Blocked
    BY DEF GateInv, Audit
  <2>2. m \in Markers /\ m \in DOMAIN sources /\ sources[m].id \in EvidenceSources
    BY <2>1 DEF Blocked, ArticleBlocks, Markers
  <2>3. PICK i \in DOMAIN claims : Admitted(i) /\ claims[i].source = sources[m].id
    BY <2>2 DEF EvidenceSources, Admissions
  <2>4. SourceOf(claims[i]) = sources[m]
    BY <2>1, <2>2, <2>3, SourceIsNamed
  <2>5. sources[m].is.verified /\ Fit(sources[m]) /\ claims[i].is.stated
        /\ Direct(i) /\ audits[i].decision # "ineligible"
    BY <2>3, <2>4 DEF Admitted
  <2>6. DOMAIN claims = 1..Len(claims)
    <3>1. claims \in Seq(Claim) BY DEF GateInv
    <3> QED BY <3>1, LenProperties
  <2>7. context.classifier # NoClassifier =>
          Ready(context.classifier) /\ claims[i].is.verbatim
    BY <2>1, <2>5, <2>6, EligibleIsReady DEF Consulted
  <2> QED BY <2>2, <2>3, <2>5, <2>7 DEF Grounded
<1> QED BY <1>1, GateInvariant, PTL

\* What finalise approves passes the planes by which the evaluation judges a
\* released run once more from its files.
THEOREM ApprovedPasses == Spec => []ApprovedPassesPlanes
<1>1. GateInv => ApprovedPassesPlanes
  <2> SUFFICES ASSUME GateInv, outcome = "APPROVED" PROVE PassesPlanes
    BY DEF ApprovedPassesPlanes
  <2>1. ~Blocked
    BY DEF GateInv
  <2>2. PICK m \in article.markers : m \in DOMAIN sources /\ sources[m].id \in EvidenceSources
    BY <2>1 DEF Blocked, ArticleBlocks, Markers
  <2>3. sources # << >> /\ Admissions # {}
    BY <2>2 DEF EvidenceSources
  <2>4. CounterPresent /\ ReleasedNodes # {} /\ ReviewDocuments # {}
    BY <2>1 DEF Blocked, EvidenceBlocks, ReviewBlocks
  <2>5. \A i \in Admissions : Direct(i)
    BY DEF Admissions, Admitted
  <2> QED BY <2>3, <2>4, <2>5 DEF PassesPlanes
<1> QED BY <1>1, GateInvariant, PTL

-----------------------------------------------------------------------------
(***************************************************************************)
(* Images: asset records never change and an observation only gains what   *)
(* it supports, so that what a judgement was made of is still there        *)
(* whenever the judgement is read.                                         *)
(***************************************************************************)
IsChain(s) == \E S : s \in Seq(S)

\* An observation is of an asset on record, and of the object that it depicts.
Recorded(o) == o.asset \in DOMAIN assets /\ o.object = assets[o.asset].object

ObservationsRecorded == \A o \in observations : Recorded(o)

\* A live provider was sent assets on record.
SentRecorded == \A sent \in pending : sent \subseteq DOMAIN assets

MediaInv ==
  /\ IsChain(assets)
  /\ ObservationsRecorded
  /\ SentRecorded
  /\ SupportedIsObserved

\* The records stay, and no observation loses what it supports.
Grows ==
  /\ DOMAIN assets \subseteq DOMAIN assets'
  /\ \A i \in DOMAIN assets : assets'[i] = assets[i]
  /\ \A o \in observations : \E x \in observations' :
       x.asset = o.asset /\ x.object = o.object /\ o.supports \subseteq x.supports

-----------------------------------------------------------------------------
LEMMA ConcatChain ==
  ASSUME NEW s, IsChain(s), NEW n \in Nat, NEW t, t = [i \in 1..n |-> t[i]]
  PROVE  /\ IsChain(s \o t) /\ DOMAIN s \subseteq DOMAIN (s \o t)
         /\ \A i \in DOMAIN s : (s \o t)[i] = s[i]
<1>1. PICK S : s \in Seq(S)
  BY DEF IsChain
<1> DEFINE T == S \cup {t[i] : i \in 1..n}
<1>2. t \in Seq(T)
  <2>1. t \in [1..n -> T]
    OBVIOUS
  <2> QED BY <2>1, SeqDef
<1>3. s \in Seq(T)
  <2>1. \A i \in 1..Len(s) : s[i] \in T
    BY <1>1, ElementOfSeq
  <2> QED BY <1>1, <2>1, LenProperties
<1> HIDE DEF T
<1>4. s \o t \in Seq(T) /\ Len(s \o t) = Len(s) + Len(t)
      /\ \A i \in 1..Len(s) : (s \o t)[i] = s[i]
  BY <1>2, <1>3, ConcatProperties
<1>5. DOMAIN s = 1..Len(s) /\ DOMAIN (s \o t) = 1..Len(s \o t)
      /\ Len(s) \in Nat /\ Len(t) \in Nat
  BY <1>2, <1>3, <1>4, LenProperties
<1>6. IsChain(s \o t)
  BY <1>4 DEF IsChain
<1>7. 1..Len(s) \subseteq 1..(Len(s) + Len(t))
  BY <1>5
<1> HIDE DEF IsChain
<1> QED BY <1>4, <1>5, <1>6, <1>7

LEMMA AppendChain ==
  ASSUME NEW s, IsChain(s), NEW e
  PROVE  /\ IsChain(Append(s, e)) /\ DOMAIN s \subseteq DOMAIN Append(s, e)
         /\ \A i \in DOMAIN s : Append(s, e)[i] = s[i]
<1>1. PICK S : s \in Seq(S)
  BY DEF IsChain
<1> DEFINE T == S \cup {e}
<1>2. s \in Seq(T) /\ e \in T
  <2>1. \A i \in 1..Len(s) : s[i] \in T
    BY <1>1, ElementOfSeq
  <2> QED BY <1>1, <2>1, LenProperties
<1> HIDE DEF T
<1>3. Append(s, e) \in Seq(T)
  BY <1>2, AppendProperties
<1> QED BY <1>2, <1>3, AppendProperties, LenProperties DEF IsChain

\* What is new in a longer chain is what was added.
LEMMA ConcatNew ==
  ASSUME NEW s, IsChain(s), NEW n \in Nat, NEW t, t = [i \in 1..n |-> t[i]]
  PROVE  \A i \in DOMAIN (s \o t) \ DOMAIN s : \E j \in 1..n : (s \o t)[i] = t[j]
<1>1. PICK S : s \in Seq(S)
  BY DEF IsChain
<1> DEFINE T == S \cup {t[i] : i \in 1..n}
<1>2. t \in Seq(T) /\ Len(t) = n
  <2>1. t \in [1..n -> T]
    OBVIOUS
  <2>2. t \in Seq(T)
    BY <2>1, SeqDef
  <2> QED BY <2>2, LenProperties
<1>3. s \in Seq(T)
  <2>1. \A i \in 1..Len(s) : s[i] \in T
    BY <1>1, ElementOfSeq
  <2> QED BY <1>1, <2>1, LenProperties
<1> HIDE DEF T
<1>4. s \o t \in Seq(T) /\ Len(s \o t) = Len(s) + n
      /\ \A i \in (Len(s) + 1)..(Len(s) + n) : (s \o t)[i] = t[i - Len(s)]
  BY <1>2, <1>3, ConcatProperties
<1>5. DOMAIN s = 1..Len(s) /\ DOMAIN (s \o t) = 1..(Len(s) + n) /\ Len(s) \in Nat
  BY <1>3, <1>4, LenProperties
<1>6. ASSUME NEW i \in 1..(Len(s) + n), i \notin 1..Len(s)
      PROVE  i \in (Len(s) + 1)..(Len(s) + n) /\ i - Len(s) \in 1..n
  BY <1>5, <1>6
<1> QED BY <1>4, <1>5, <1>6

LEMMA AppendNew ==
  ASSUME NEW s, IsChain(s), NEW e
  PROVE  \A i \in DOMAIN Append(s, e) \ DOMAIN s : Append(s, e)[i] = e
<1>1. PICK S : s \in Seq(S)
  BY DEF IsChain
<1> DEFINE T == S \cup {e}
<1>2. s \in Seq(T) /\ e \in T
  <2>1. \A i \in 1..Len(s) : s[i] \in T
    BY <1>1, ElementOfSeq
  <2> QED BY <1>1, <2>1, LenProperties
<1> HIDE DEF T
<1> QED BY <1>2, AppendProperties, LenProperties

\* Whatever a step adds, a judgement that was returned before stays true.
LEMMA GrowthKeeps ==
  ASSUME MediaInv, Grows, UNCHANGED last
  PROVE  SupportedIsObserved'
<1> SUFFICES ASSUME last'.of = "support", last'.status = "supported"
             PROVE  /\ last'.claim.kind = "visual" /\ last'.quoted
                    /\ \E o \in observations' :
                         /\ last'.claim \in o.supports
                         /\ last'.claim.object \in {"any", assets'[o.asset].object}
  BY DEF SupportedIsObserved
<1>1. last'.claim.kind = "visual" /\ last'.quoted
  BY DEF MediaInv, SupportedIsObserved
<1>2. PICK o \in observations :
        /\ last.claim \in o.supports
        /\ last.claim.object \in {"any", assets[o.asset].object}
  BY DEF MediaInv, SupportedIsObserved
<1>3. o.asset \in DOMAIN assets
  BY <1>2 DEF MediaInv, ObservationsRecorded, Recorded
<1>4. PICK x \in observations' :
        x.asset = o.asset /\ x.object = o.object /\ o.supports \subseteq x.supports
  BY <1>2 DEF Grows
<1>5. assets'[x.asset] = assets[o.asset]
  BY <1>3, <1>4 DEF Grows
<1> QED BY <1>1, <1>2, <1>4, <1>5

\* What is not about support says nothing of it.
LEMMA OtherResult ==
  ASSUME last'.of # "support"
  PROVE  SupportedIsObserved'
BY DEF SupportedIsObserved

-----------------------------------------------------------------------------
(* The records. *)

LEMMA RecordsKeep ==
  ASSUME MediaInv, IsChain(assets)', DOMAIN assets \subseteq DOMAIN assets',
         \A i \in DOMAIN assets : assets'[i] = assets[i],
         UNCHANGED <<pending, observations, last>>
  PROVE  MediaInv'
<1>1. Grows
  BY DEF Grows
<1>2. ObservationsRecorded' /\ SentRecorded'
  BY DEF MediaInv, ObservationsRecorded, Recorded, SentRecorded
<1>3. SupportedIsObserved'
  BY <1>1, GrowthKeeps
<1> QED BY <1>2, <1>3 DEF MediaInv

LEMMA RightsKeep == ASSUME MediaInv, RightsNext PROVE MediaInv'
<1>1. CASE Ingest
  <2>1. PICK n \in 1..MaxCanvases, object \in Objects, rights \in Offers :
          \E manifest \in [1..n -> Canvases] :
            assets' = assets \o
              [c \in 1..n |->
                [object |-> object, digested |-> manifest[c].digested,
                 sized |-> manifest[c].sized, rights |-> rights,
                 parent |-> 0, evidenced |-> {}, dated |-> {}]]
    BY <1>1 DEF Ingest
  <2>2. PICK t : t = [i \in 1..n |-> t[i]] /\ assets' = assets \o t
    BY <2>1
  <2>3. n \in Nat
    OBVIOUS
  <2>4. /\ IsChain(assets)' /\ DOMAIN assets \subseteq DOMAIN assets'
        /\ \A i \in DOMAIN assets : assets'[i] = assets[i]
    BY <2>2, <2>3, ConcatChain DEF MediaInv
  <2> QED BY <1>1, <2>4, RecordsKeep DEF Ingest
<1>2. ASSUME NEW i \in DOMAIN assets, Derive(i)
      PROVE  MediaInv'
  <2>1. PICK e : assets' = Append(assets, e)
    BY <1>2 DEF Derive
  <2>2. /\ IsChain(assets)' /\ DOMAIN assets \subseteq DOMAIN assets'
        /\ \A j \in DOMAIN assets : assets'[j] = assets[j]
    BY <2>1, AppendChain DEF MediaInv
  <2>3. UNCHANGED <<pending, observations, last>>
    BY <1>2 DEF Derive
  <2> QED BY <2>2, <2>3, RecordsKeep
<1>3. ASSUME NEW i \in DOMAIN assets, Export(i)
      PROVE  MediaInv'
  <2>1. SupportedIsObserved'
    BY <1>3, OtherResult DEF Export
  <2> QED BY <1>3, <2>1
          DEF Export, MediaInv, ObservationsRecorded, Recorded, SentRecorded
<1>4. CASE Tick /\ UNCHANGED <<assets, pending, observations, last>>
  BY <1>4, RecordsKeep DEF MediaInv
<1> QED BY <1>1, <1>2, <1>3, <1>4 DEF RightsNext

-----------------------------------------------------------------------------
(* Analysis. *)

\* Assets on record are looked at: their observations name their objects.
LEMMA ObservedRecorded ==
  ASSUME MediaInv, NEW selected, selected \subseteq DOMAIN assets, UNCHANGED assets,
         observations' = observations \cup Observed(selected)
  PROVE  ObservationsRecorded'
<1>1. \A o \in Observed(selected) : Recorded(o)
  BY DEF Observed, Recorded
<1> QED BY <1>1 DEF MediaInv, ObservationsRecorded, Recorded

LEMMA AnalyseKeeps ==
  ASSUME MediaInv, NEW request \in SUBSET (DOMAIN assets), NEW limit, NEW most, NEW status,
         AnalyseOffline(request, limit, most, status)
  PROVE  MediaInv'
<1>1. UNCHANGED <<assets, pending>> /\ last'.of # "support"
  BY DEF AnalyseOffline, Analysis
<1>2. ObservationsRecorded'
  <2>1. CASE UNCHANGED observations
    BY <1>1, <2>1 DEF MediaInv, ObservationsRecorded, Recorded
  <2>2. CASE ~UNCHANGED observations
    <3>1. PICK selected \in Selections(request, limit) : \E kept \in Kept(selected, most) :
            observations' = observations \cup Observed(kept)
      BY <2>2 DEF AnalyseOffline
    <3>2. PICK kept \in Kept(selected, most) :
            observations' = observations \cup Observed(kept)
      BY <3>1
    <3>3. kept \subseteq DOMAIN assets
      BY DEF Kept, Selections
    <3> QED BY <1>1, <3>2, <3>3, ObservedRecorded
  <2> QED BY <2>1, <2>2
<1>3. SupportedIsObserved'
  BY <1>1, OtherResult
<1> QED BY <1>1, <1>2, <1>3 DEF MediaInv, SentRecorded

LEMMA SendKeeps ==
  ASSUME MediaInv, NEW request \in SUBSET (DOMAIN assets), NEW limit, Send(request, limit)
  PROVE  MediaInv'
<1>1. UNCHANGED <<assets, observations>> /\ last'.of # "support"
  BY DEF Send, Analysis, Nothing
<1>2. SentRecorded'
  <2>1. CASE UNCHANGED pending
    BY <1>1, <2>1 DEF MediaInv, SentRecorded
  <2>2. CASE ~UNCHANGED pending
    <3>1. PICK selected \in Selections(request, limit) :
            pending' = {selected}
      BY <2>2 DEF Send
    <3> QED BY <1>1, <3>1 DEF SentRecorded, Selections
  <2> QED BY <2>1, <2>2
<1>3. SupportedIsObserved'
  BY <1>1, OtherResult
<1> QED BY <1>1, <1>2, <1>3 DEF MediaInv, ObservationsRecorded, Recorded

LEMMA AnswerKeeps ==
  ASSUME MediaInv, NEW most, Answer(most)
  PROVE  MediaInv'
<1>1. UNCHANGED assets /\ pending' = {} /\ last'.of # "support"
  BY DEF Answer, Analysis
<1>2. ObservationsRecorded'
  <2>1. CASE UNCHANGED observations
    BY <1>1, <2>1 DEF MediaInv, ObservationsRecorded, Recorded
  <2>2. CASE ~UNCHANGED observations
    <3>1. PICK sent \in pending : \E kept \in Kept(sent, most) :
            observations' = observations \cup Observed(kept)
      BY <2>2 DEF Answer
    <3>2. PICK kept \in Kept(sent, most) :
            observations' = observations \cup Observed(kept)
      BY <3>1
    <3>3. kept \subseteq DOMAIN assets
      BY DEF Kept, MediaInv, SentRecorded
    <3> QED BY <1>1, <3>2, <3>3, ObservedRecorded
  <2> QED BY <2>1, <2>2
<1>3. SupportedIsObserved'
  BY <1>1, OtherResult
<1> QED BY <1>1, <1>2, <1>3 DEF MediaInv, SentRecorded

LEMMA AnnotateKeeps ==
  ASSUME MediaInv, NEW o \in observations, NEW c \in Claims, Annotate(o, c)
  PROVE  MediaInv'
<1>1. UNCHANGED <<assets, pending, last>>
  BY DEF Annotate
<1>2. PICK x : x = [o EXCEPT !.supports = @ \cup {c}]
  OBVIOUS
<1>3. observations' = (observations \ {o}) \cup {x}
  BY <1>2 DEF Annotate
<1>4. x.asset = o.asset /\ x.object = o.object /\ o.supports \subseteq x.supports
  BY <1>2
<1>5. Grows
  BY <1>1, <1>3, <1>4 DEF Grows
<1>6. ObservationsRecorded'
  BY <1>1, <1>3, <1>4 DEF MediaInv, ObservationsRecorded, Recorded
<1>7. SupportedIsObserved'
  BY <1>1, <1>5, GrowthKeeps
<1> QED BY <1>1, <1>6, <1>7 DEF MediaInv, SentRecorded

\* All three legs of the claim hold.
LEMMA JudgeKeeps ==
  ASSUME MediaInv, NEW c \in Claims, NEW quoted \in BOOLEAN, Judge(c, quoted)
  PROVE  MediaInv'
<1>1. UNCHANGED <<assets, pending, observations>>
  BY DEF Judge
<1>2. last' = [of |-> "support", claim |-> c, quoted |-> quoted,
               status |-> SupportOf(c, quoted)]
  BY DEF Judge
<1>3. ASSUME SupportOf(c, quoted) = "supported"
      PROVE  /\ c.kind = "visual" /\ quoted
             /\ \E o \in observations :
                  /\ c \in o.supports
                  /\ c.object \in {"any", assets[o.asset].object}
  <2>1. Legs(c, quoted) = {"supported"}
    BY <1>3 DEF SupportOf
  <2>2. ObservationLeg(c) = "supported" /\ quoted
    BY <2>1 DEF Legs
  <2>3. c.kind = "visual" /\ \E o \in Relevant(c) : c \in o.supports
    BY <2>2 DEF ObservationLeg
  <2>4. PICK o \in Relevant(c) : c \in o.supports
    BY <2>3
  <2>5. o \in observations /\ c.object \in {"any", assets[o.asset].object}
    BY <2>4 DEF Relevant, MediaInv, ObservationsRecorded, Recorded
  <2> QED BY <2>2, <2>3, <2>4, <2>5
<1>4. SupportedIsObserved'
  BY <1>1, <1>2, <1>3 DEF SupportedIsObserved
<1> QED BY <1>1, <1>4 DEF MediaInv, ObservationsRecorded, Recorded, SentRecorded

-----------------------------------------------------------------------------
LEMMA InitMedia == MediaInit => MediaInv
<1> SUFFICES ASSUME MediaInit PROVE MediaInv
  OBVIOUS
<1>1. << >> \in Seq({})
  BY EmptySeq
<1>2. last.of # "support"
  BY DEF MediaInit, Nothing
<1> QED BY <1>1, <1>2 DEF MediaInit, MediaInv, IsChain, ObservationsRecorded, SentRecorded,
                          SupportedIsObserved

LEMMA NextMedia == MediaInv /\ [MediaNext]_mediaVars => MediaInv'
<1> SUFFICES ASSUME MediaInv, [MediaNext]_mediaVars PROVE MediaInv'
  OBVIOUS
<1>1. CASE RightsNext
  BY <1>1, RightsKeep
<1>2. CASE AnalysisNext
  <2>1. ASSUME NEW request \in SUBSET (DOMAIN assets), NEW limit \in 0..2, NEW most \in 0..2,
               NEW status \in AnalysisStatuses, AnalyseOffline(request, limit, most, status)
        PROVE  MediaInv'
    BY <2>1, AnalyseKeeps
  <2>2. ASSUME NEW request \in SUBSET (DOMAIN assets), NEW limit \in 0..2,
               Send(request, limit)
        PROVE  MediaInv'
    BY <2>2, SendKeeps
  <2>3. ASSUME NEW most \in 0..2, Answer(most)
        PROVE  MediaInv'
    BY <2>3, AnswerKeeps
  <2>4. ASSUME NEW o \in observations, NEW c \in Claims, Annotate(o, c)
        PROVE  MediaInv'
    BY <2>4, AnnotateKeeps
  <2>5. ASSUME NEW c \in Claims, NEW quoted \in BOOLEAN, Judge(c, quoted)
        PROVE  MediaInv'
    BY <2>5, JudgeKeeps
  <2> QED BY <1>2, <2>1, <2>2, <2>3, <2>4, <2>5 DEF AnalysisNext
<1>3. CASE UNCHANGED mediaVars
  BY <1>3, RecordsKeep DEF mediaVars, MediaInv
<1> QED BY <1>1, <1>2, <1>3 DEF MediaNext

\* A claim that is supported is a visual one that a text supports and an asset of
\* its own object was observed to support, for any number of assets and views
\* (evaluate_cross_modal_support).
THEOREM ObservedSupport == MediaSpec => []SupportedIsObserved
<1>1. MediaInv => SupportedIsObserved
  BY DEF MediaInv
<1> QED BY <1>1, InitMedia, NextMedia, PTL DEF MediaSpec

-----------------------------------------------------------------------------
(***************************************************************************)
(* Rights: an asset that has a right was ingested with it, derived with    *)
(* evidence for it, or derived from an earlier asset that has it, until    *)
(* the same date or one that a grant named.  Along these derivations the   *)
(* right goes back to its source, by induction on the place of the record. *)
(***************************************************************************)
Has(asset, a) == asset.rights[a].status = "allowed"

\* The asset has the right from its parent.
Passed(parent, asset, a) ==
  /\ Has(parent, a)
  /\ asset.rights[a].until = parent.rights[a].until \/ a \in asset.dated

Entitled(i, a) ==
  Has(assets[i], a) =>
    \/ assets[i].parent = 0
    \/ a \in assets[i].evidenced
    \/ Passed(assets[assets[i].parent], assets[i], a)

RightsInv ==
  /\ IsChain(assets)
  /\ \A i \in DOMAIN assets :
       assets[i].parent \in 0..(i - 1) /\ \A a \in Actions : Entitled(i, a)
  /\ last.of = "export" /\ ~last.redacted =>
       last.asset \in DOMAIN assets /\ Has(assets[last.asset], "export")

\* A set of numbers has a least one.
LEMMA Least ==
  ASSUME NEW S \in SUBSET Nat, S # {}
  PROVE  \E m \in S : \A k \in S : m <= k
<1> DEFINE R == OpToRel(<, Nat)
<1>1. PICK m \in S : \A y \in S : ~(<<y, m>> \in R)
  <2>1. IsWellFoundedOn(R, Nat)
    BY NatLessThanWellFounded DEF IsWellFoundedOn, OpToRel
  <2> HIDE DEF R
  <2> QED BY <2>1, WFMin DEF IsWellFoundedOn
<1>2. m \in Nat /\ \A k \in S : k \in Nat /\ ~(k < m)
  BY <1>1 DEF OpToRel
<1> QED BY <1>2

\* Who has a right has it from its source.
LEMMA HeldLicensed ==
  ASSUME RightsInv, NEW i \in DOMAIN assets, NEW a \in Actions, Has(assets[i], a)
  PROVE  Licensed(i, a)
<1> DEFINE Held(h, j) == /\ Has(assets[j], a)
                         /\ \/ assets[j].parent = 0
                            \/ a \in assets[j].evidenced
                            \/ /\ h[assets[j].parent]
                               /\ \/ assets[j].rights[a].until
                                       = assets[assets[j].parent].rights[a].until
                                  \/ a \in assets[j].dated
           held == CHOOSE h : h = [j \in 1..i |-> Held(h, j)]
<1>1. Licensed(i, a) <=> held[i]
  BY DEF Licensed, Has
<1>2. DOMAIN assets \subseteq Nat \ {0} /\ 1..i \subseteq DOMAIN assets
  <2>1. DOMAIN assets = 1..Len(assets) /\ Len(assets) \in Nat
    BY LenProperties DEF RightsInv, IsChain
  <2> QED BY <2>1
<1>3. i \in Nat
  BY <1>2
<1>4. \A j \in 1..i : /\ j \in Nat /\ j <= i
                      /\ assets[j].parent \in 0..(j - 1) /\ Entitled(j, a)
  BY <1>2 DEF RightsInv
<1>5. held = [j \in 1..i |-> Held(held, j)]
  <2> DEFINE h == [j \in 1..i |-> Has(assets[j], a)]
  <2>1. ASSUME NEW j \in 1..i
        PROVE  Has(assets[j], a) <=> Held(h, j)
    <3>1. assets[j].parent # 0 => assets[j].parent \in 1..i
      BY <1>3, <1>4
    <3> QED BY <1>4, <3>1 DEF Entitled, Passed
  <2>2. h = [j \in 1..i |-> Held(h, j)]
    <3> HIDE DEF h, Held
    <3>1. \A j \in 1..i : Has(assets[j], a) = Held(h, j)
      <4> SUFFICES ASSUME NEW j \in 1..i PROVE Has(assets[j], a) = Held(h, j)
        OBVIOUS
      <4>1. Has(assets[j], a) <=> Held(h, j)
        BY <2>1
      <4>2. CASE Has(assets[j], a)
        <5>1. Has(assets[j], a) = TRUE
          BY <4>2, Zenon DEF Has
        <5>2. Held(h, j) = TRUE
          BY <4>1, <4>2, SMT DEF Held
        <5> QED BY <5>1, <5>2
      <4>3. CASE ~Has(assets[j], a)
        <5>1. Has(assets[j], a) = FALSE
          BY <4>3, Zenon DEF Has
        <5>2. Held(h, j) = FALSE
          BY <4>1, <4>3, SMT DEF Held
        <5> QED BY <5>1, <5>2
      <4> QED BY <4>2, <4>3
    <3> QED BY <3>1, Zenon DEF h
  <2> QED BY <2>2
<1> HIDE DEF held
<1>6. \A j \in 1..i : Has(assets[j], a) => held[j]
  <2> DEFINE S == {j \in 1..i : Has(assets[j], a) /\ ~held[j]}
  <2> SUFFICES ASSUME S # {} PROVE FALSE
    OBVIOUS
  <2>1. PICK m \in S : \A k \in S : m <= k
    <3>1. S \in SUBSET Nat
      OBVIOUS
    <3> HIDE DEF S
    <3> QED BY <3>1, Least
  <2>2. held[m] <=> Held(held, m)
    BY <1>5
  <2>3. PICK q : q = assets[m].parent
    OBVIOUS
  <2>4. q # 0 => q \in 1..i /\ ~(m <= q)
    BY <1>3, <1>4, <2>1, <2>3
  <2>5. q # 0 /\ Has(assets[q], a) /\ ~held[q]
    BY <1>4, <2>1, <2>2, <2>3 DEF Entitled, Passed
  <2>6. q \in S
    BY <2>4, <2>5
  <2> QED BY <2>1, <2>4, <2>5, <2>6
<1>7. i \in 1..i
  BY <1>2
<1> QED BY <1>1, <1>6, <1>7

\* Records stay as they are; those that are added are entitled to their rights.
LEMMA RightsExtend ==
  ASSUME RightsInv, IsChain(assets'), DOMAIN assets \subseteq DOMAIN assets',
         \A i \in DOMAIN assets : assets'[i] = assets[i],
         \A i \in DOMAIN assets' \ DOMAIN assets :
           \/ assets'[i].parent = 0
           \/ /\ assets'[i].parent \in DOMAIN assets
              /\ \A a \in Actions :
                   Has(assets'[i], a) =>
                     \/ a \in assets'[i].evidenced
                     \/ Passed(assets[assets'[i].parent], assets'[i], a),
         \/ UNCHANGED last
         \/ last'.of # "export"
         \/ /\ last'.asset \in DOMAIN assets
            /\ last'.redacted \/ Has(assets[last'.asset], "export")
  PROVE  RightsInv'
<1>1. PICK n \in Nat, m \in Nat : DOMAIN assets = 1..n /\ DOMAIN assets' = 1..m
  BY LenProperties DEF RightsInv, IsChain
<1>2. \A i \in DOMAIN assets : /\ assets[i].parent \in 0..(i - 1)
                               /\ \A a \in Actions : Entitled(i, a)
  BY DEF RightsInv
<1>3. ASSUME NEW i \in DOMAIN assets'
      PROVE  assets'[i].parent \in 0..(i - 1) /\ \A a \in Actions : Entitled(i, a)'
  <2>1. CASE i \in DOMAIN assets
    <3>1. assets[i].parent # 0 => assets[i].parent \in DOMAIN assets
      BY <1>1, <1>2, <2>1
    <3> QED BY <1>2, <2>1, <3>1 DEF Entitled
  <2>2. CASE i \notin DOMAIN assets
    <3>1. i \in Nat /\ ~(i <= n) /\ i # 0
      BY <1>1, <2>2
    <3>2. CASE assets'[i].parent = 0
      BY <3>1, <3>2 DEF Entitled
    <3>3. CASE /\ assets'[i].parent \in DOMAIN assets
               /\ \A a \in Actions :
                    Has(assets'[i], a) =>
                      \/ a \in assets'[i].evidenced
                      \/ Passed(assets[assets'[i].parent], assets'[i], a)
      <4>1. assets'[i].parent \in 0..(i - 1)
        BY <1>1, <3>1, <3>3
      <4> QED BY <3>3, <4>1 DEF Entitled
    <3> QED BY <2>2, <3>2, <3>3
  <2> QED BY <2>1, <2>2
<1>4. last'.of = "export" /\ ~last'.redacted =>
        last'.asset \in DOMAIN assets' /\ Has(assets'[last'.asset], "export")
  BY DEF RightsInv
<1> QED BY <1>3, <1>4 DEF RightsInv

LEMMA InitRights == MediaInit => RightsInv
<1> SUFFICES ASSUME MediaInit PROVE RightsInv
  OBVIOUS
<1>1. << >> \in Seq({})
  BY EmptySeq
<1>2. last.of # "export"
  BY DEF MediaInit, Nothing
<1> QED BY <1>1, <1>2 DEF MediaInit, RightsInv, IsChain

LEMMA NextRights == RightsInv /\ [MediaNext]_mediaVars => RightsInv'
<1> SUFFICES ASSUME RightsInv, [MediaNext]_mediaVars PROVE RightsInv'
  OBVIOUS
<1>1. CASE Ingest
  <2>1. PICK n \in 1..MaxCanvases, object \in Objects, rights \in Offers :
          \E manifest \in [1..n -> Canvases] :
            assets' = assets \o
              [c \in 1..n |->
                [object |-> object, digested |-> manifest[c].digested,
                 sized |-> manifest[c].sized, rights |-> rights,
                 parent |-> 0, evidenced |-> {}, dated |-> {}]]
    BY <1>1 DEF Ingest
  <2>2. PICK t : /\ t = [i \in 1..n |-> t[i]] /\ assets' = assets \o t
                 /\ \A i \in 1..n : t[i].parent = 0
    <3>1. PICK manifest \in [1..n -> Canvases] :
            assets' = assets \o
              [c \in 1..n |->
                [object |-> object, digested |-> manifest[c].digested,
                 sized |-> manifest[c].sized, rights |-> rights,
                 parent |-> 0, evidenced |-> {}, dated |-> {}]]
      BY <2>1
    <3>2. PICK t : t = [c \in 1..n |->
                         [object |-> object, digested |-> manifest[c].digested,
                          sized |-> manifest[c].sized, rights |-> rights,
                          parent |-> 0, evidenced |-> {}, dated |-> {}]]
      OBVIOUS
    <3>3. t = [i \in 1..n |-> t[i]] /\ \A i \in 1..n : t[i].parent = 0
      BY <3>2
    <3>4. assets' = assets \o t
      BY <3>1, <3>2
    <3> QED BY <3>3, <3>4
  <2>3. n \in Nat
    OBVIOUS
  <2>4. /\ IsChain(assets') /\ DOMAIN assets \subseteq DOMAIN assets'
        /\ \A i \in DOMAIN assets : assets'[i] = assets[i]
    BY <2>2, <2>3, ConcatChain DEF RightsInv
  <2>5. \A i \in DOMAIN assets' \ DOMAIN assets : \E j \in 1..n : assets'[i] = t[j]
    BY <2>2, <2>3, ConcatNew DEF RightsInv
  <2> QED BY <1>1, <2>2, <2>4, <2>5, RightsExtend DEF Ingest
<1>2. ASSUME NEW i \in DOMAIN assets, Derive(i)
      PROVE  RightsInv'
  <2>1. PICK grants \in Grants :
          assets' = Append(assets,
            [object |-> assets[i].object, digested |-> TRUE, sized |-> FALSE,
             rights |-> [a \in Actions |-> Inherited(assets[i].rights[a], grants, a)],
             parent |-> i,
             evidenced |-> {a \in Actions : Evidenced(grants, a)},
             dated |-> {a \in Actions : Dated(grants, a)}])
    BY <1>2 DEF Derive
  <2>2. PICK e : /\ assets' = Append(assets, e) /\ e.parent = i
                 /\ e.evidenced = {a \in Actions : Evidenced(grants, a)}
                 /\ e.dated = {a \in Actions : Dated(grants, a)}
                 /\ \A a \in Actions :
                      e.rights[a] = Inherited(assets[i].rights[a], grants, a)
    BY <2>1
  <2>3. ASSUME NEW a \in Actions, Has(e, a), a \notin e.evidenced
        PROVE  Passed(assets[i], e, a)
    <3>1. Has(assets[i], a) /\ e.rights[a] = Merged(assets[i].rights[a], grants, a)
      BY <2>2, <2>3 DEF Has, Inherited
    <3>2. a \in e.dated \/ e.rights[a].until = assets[i].rights[a].until
      BY <2>2, <3>1 DEF Merged, Dated
    <3> QED BY <3>1, <3>2 DEF Passed
  <2>4. /\ IsChain(assets') /\ DOMAIN assets \subseteq DOMAIN assets'
        /\ \A j \in DOMAIN assets : assets'[j] = assets[j]
    BY <2>2, AppendChain DEF RightsInv
  <2>5. \A j \in DOMAIN assets' \ DOMAIN assets : assets'[j] = e
    BY <2>2, AppendNew DEF RightsInv
  <2> QED BY <1>2, <2>2, <2>3, <2>4, <2>5, RightsExtend DEF Derive
<1>3. ASSUME NEW i \in DOMAIN assets, Export(i)
      PROVE  RightsInv'
  <2>1. UNCHANGED assets /\ last'.of = "export" /\ last'.asset = i
        /\ last'.redacted = ~Allowed(assets[i], "export")
    BY <1>3 DEF Export
  <2>2. last'.redacted \/ Has(assets[i], "export")
    BY <2>1 DEF Allowed, ActionStatus, Has
  <2> QED BY <2>1, <2>2, RightsExtend DEF RightsInv
<1>4. ASSUME UNCHANGED assets, UNCHANGED last \/ last'.of # "export"
      PROVE  RightsInv'
  BY <1>4, RightsExtend DEF RightsInv
<1>5. CASE AnalysisNext
  <2>1. UNCHANGED assets /\ (UNCHANGED last \/ last'.of # "export")
    BY <1>5 DEF AnalysisNext, AnalyseOffline, Send, Answer, Annotate, Judge,
                Analysis, Nothing
  <2> QED BY <1>4, <2>1
<1> QED BY <1>1, <1>2, <1>3, <1>4, <1>5 DEF MediaNext, RightsNext, mediaVars

\* However an asset was derived, in any number of steps, it is exported with its
\* content only if what it was derived from may be exported too, or a grant with
\* evidence allowed it; and the right lapses when its source's does, unless a grant
\* dated it anew, with or without evidence (inherit_rights, redact_asset_for_export).
THEOREM LicensedExports == MediaSpec => []ExportIsLicensed
<1>1. RightsInv => ExportIsLicensed
  <2>1. "export" \in Actions
    BY DEF Actions
  <2> QED BY <2>1, HeldLicensed DEF RightsInv, ExportIsLicensed
<1> QED BY <1>1, InitRights, NextRights, PTL DEF MediaSpec

-----------------------------------------------------------------------------
(***************************************************************************)
(* Promotion: an assessment never changes, and an approval says which one  *)
(* it is for.  That the mean improvement is positive needs the policy's    *)
(* least improvement to be, as it is in every policy on record             *)
(* (research-grade-promotion.policy.json), and the sum of the differences  *)
(* to be a number, by induction on the number of cases.                    *)
(***************************************************************************)
TotalGain(p) == MapThenSumSet(LAMBDA c : Difference(p, c), Cases(p))

LEMMA TotalGainIsInt ==
  ASSUME NEW p, IsFiniteSet(Cases(p)), \A c \in Cases(p) : Difference(p, c) \in Int
  PROVE  TotalGain(p) \in Int
<1> DEFINE S == Cases(p)
           First(s) == CHOOSE x \in s : TRUE
           Step(g, s) == IF s = {} THEN 0 ELSE Difference(p, First(s)) + g[s \ {First(s)}]
           sum == CHOOSE g : g = [s \in SUBSET S |-> Step(g, s)]
           Small(n) == {s \in SUBSET S : Cardinality(s) <= n}
           Summed(n) == \E g \in [Small(n) -> Int] : \A s \in Small(n) : g[s] = Step(g, s)
<1>1. TotalGain(p) = sum[S]
  BY DEF TotalGain, MapThenSumSet, MapThenFoldSet
<1>2. \A s \in SUBSET S : IsFiniteSet(s) /\ Cardinality(s) \in Nat
  BY FS_Subset, FS_CardinalityType
<1>3. ASSUME NEW s \in SUBSET S, s # {}
      PROVE  /\ First(s) \in s /\ Difference(p, First(s)) \in Int
             /\ s \ {First(s)} \in SUBSET S
             /\ Cardinality(s \ {First(s)}) = Cardinality(s) - 1
  <2>1. First(s) \in s
    BY <1>3
  <2>2. Cardinality(s \ {First(s)}) = Cardinality(s) - 1
    BY <1>2, <2>1, FS_RemoveElement
  <2> QED BY <2>1, <2>2
<1> HIDE DEF First, S
<1>4. \A n \in Nat : Summed(n)
  <2> DEFINE T == {n \in Nat : ~Summed(n)}
  <2> SUFFICES ASSUME T # {} PROVE FALSE
    OBVIOUS
  <2>1. PICK m \in T : \A k \in T : m <= k
    <3>1. T \in SUBSET Nat
      OBVIOUS
    <3> HIDE DEF T
    <3> QED BY <3>1, Least
  <2>2. CASE m = 0
    <3>1. \A s \in Small(0) : s = {}
      BY <1>2, FS_EmptySet
    <3> DEFINE g == [s \in Small(0) |-> 0]
    <3>2. g \in [Small(0) -> Int] /\ \A s \in Small(0) : g[s] = Step(g, s)
      BY <3>1
    <3> HIDE DEF g, Small, Step
    <3>3. Summed(0)
      BY <3>2
    <3> QED BY <2>1, <2>2, <3>3
  <2>3. CASE m # 0
    <3>1. m \in Nat /\ m - 1 \in Nat /\ Summed(m - 1)
      <4>1. m \in Nat /\ m - 1 \in Nat /\ ~(m <= m - 1)
        BY <2>3
      <4> HIDE DEF Summed
      <4> QED BY <2>1, <4>1
    <3> DEFINE n == m - 1
    <3>2. PICK g \in [Small(n) -> Int] : \A s \in Small(n) : g[s] = Step(g, s)
      BY <3>1
    <3> DEFINE h == [s \in Small(m) |->
                       IF s \in Small(n) THEN g[s]
                       ELSE Difference(p, First(s)) + g[s \ {First(s)}]]
    <3>3. Small(n) \subseteq Small(m)
      BY <1>2, <3>1
    <3>4. ASSUME NEW s \in Small(m), s # {}
          PROVE  s \ {First(s)} \in Small(n) /\ Difference(p, First(s)) \in Int
      <4>1. /\ s \in SUBSET S /\ Cardinality(s) <= m
            /\ Cardinality(s) \in Nat
        BY <1>2
      <4>2. /\ s \ {First(s)} \in SUBSET S /\ Difference(p, First(s)) \in Int
            /\ Cardinality(s \ {First(s)}) = Cardinality(s) - 1
        BY <1>3, <3>4, <4>1
      <4> QED BY <3>1, <4>1, <4>2
    <3>5. {} \in Small(n)
      BY <3>1, FS_EmptySet
    <3> HIDE DEF Small
    <3>6. h \in [Small(m) -> Int]
      <4> HIDE DEF n
      <4> SUFFICES ASSUME NEW s \in Small(m), s \notin Small(n)
                   PROVE  Difference(p, First(s)) + g[s \ {First(s)}] \in Int
        OBVIOUS
      <4>1. s \ {First(s)} \in Small(n) /\ Difference(p, First(s)) \in Int
        BY <3>4, <3>5
      <4>2. g[s \ {First(s)}] \in Int
        BY <4>1
      <4> QED BY <4>1, <4>2
    <3>7. ASSUME NEW s \in Small(m)
          PROVE  h[s] = Step(h, s)
      <4>1. CASE s = {}
        BY <3>2, <3>5, <4>1
      <4>2. CASE s # {}
        <5>1. s \ {First(s)} \in Small(n)
          BY <3>4, <4>2
        <5>2. h[s \ {First(s)}] = g[s \ {First(s)}]
          BY <3>3, <5>1
        <5>3. h[s] = Difference(p, First(s)) + g[s \ {First(s)}]
          BY <3>2, <4>2
        <5> QED BY <4>2, <5>2, <5>3
      <4> QED BY <4>1, <4>2
    <3> HIDE DEF h, Step
    <3>8. Summed(m)
      BY <3>6, <3>7
    <3> QED BY <2>1, <3>8
  <2> QED BY <2>2, <2>3
<1>5. sum = [s \in SUBSET S |-> Step(sum, s)]
  <2> DEFINE n == Cardinality(S)
  <2>1. n \in Nat /\ Small(n) = SUBSET S
    <3>1. \A s \in SUBSET S : Cardinality(s) <= n
      BY FS_Subset DEF S
    <3> QED BY <1>2, <3>1
  <2>2. PICK g \in [SUBSET S -> Int] : \A s \in SUBSET S : g[s] = Step(g, s)
    <3> HIDE DEF Small, n, Step
    <3> QED BY <1>4, <2>1
  <2>3. g = [s \in SUBSET S |-> Step(g, s)]
    <3> HIDE DEF Step
    <3> QED BY <2>2
  <2> HIDE DEF Step
  <2> QED BY <2>3
<1> HIDE DEF sum
<1>6. \A s \in SUBSET S : sum[s] \in Int
  <2> DEFINE B == {s \in SUBSET S : sum[s] \notin Int}
             T == {Cardinality(s) : s \in B}
  <2> SUFFICES ASSUME B # {} PROVE FALSE
    OBVIOUS
  <2>1. PICK m \in T : \A k \in T : m <= k
    <3>1. T \in SUBSET Nat /\ T # {}
      BY <1>2
    <3> HIDE DEF T
    <3> QED BY <3>1, Least
  <2>2. PICK s \in B : Cardinality(s) = m
    OBVIOUS
  <2>3. s # {}
    BY <1>5
  <2>4. sum[s] = Difference(p, First(s)) + sum[s \ {First(s)}]
    BY <1>5, <2>3
  <2>5. /\ s \ {First(s)} \in SUBSET S /\ Difference(p, First(s)) \in Int
        /\ Cardinality(s \ {First(s)}) = m - 1 /\ m \in Nat
    BY <1>2, <1>3, <2>2, <2>3
  <2>6. s \ {First(s)} \in B
    BY <2>4, <2>5
  <2>7. m - 1 \in T
    BY <2>5, <2>6
  <2> QED BY <2>1, <2>5, <2>7
<1> QED BY <1>1, <1>6

Shown(i) ==
  LET p == assessments[i].pair
  IN  /\ p \in Pairs /\ assessments[i].at \in Nat
      /\ assessments[i].eligible =>
           /\ Improves(p) /\ (CaseLevel(p) => Compared(p))
           /\ p.until = 0 \/ p.until > assessments[i].at

PromotionInv ==
  /\ now \in Nat
  /\ IsChain(assessments) /\ \A i \in DOMAIN assessments : Shown(i)
  /\ approval # None => approval.at \in Nat
  /\ "state" \in DOMAIN decision
  /\ decision.state = "enabled" =>
       /\ decision.assessment \in DOMAIN assessments
       /\ assessments[decision.assessment].eligible
       /\ decision.approved = decision.assessment
       /\ decision.given \in assessments[decision.assessment].at..decision.at

LEMMA InitPromotion == PromotionInit => PromotionInv
<1> SUFFICES ASSUME PromotionInit PROVE PromotionInv
  OBVIOUS
<1>1. << >> \in Seq({})
  BY EmptySeq
<1> QED BY <1>1 DEF PromotionInit, PromotionInv, IsChain, None

LEMMA NextPromotion == PromotionInv /\ [PromotionNext]_promotionVars => PromotionInv'
<1> SUFFICES ASSUME PromotionInv, [PromotionNext]_promotionVars PROVE PromotionInv'
  OBVIOUS
<1>1. ASSUME NEW p \in Pairs, Assess(p) PROVE PromotionInv'
  <2>1. PICK e : /\ assessments' = Append(assessments, e)
                 /\ e.pair = p /\ e.at = now
                 /\ e.eligible => /\ Improves(p) /\ (CaseLevel(p) => Compared(p))
                                  /\ NotExpired(p.until)
    BY <1>1 DEF Assess
  <2>2. /\ IsChain(assessments') /\ DOMAIN assessments \subseteq DOMAIN assessments'
        /\ \A i \in DOMAIN assessments : assessments'[i] = assessments[i]
    BY <2>1, AppendChain DEF PromotionInv
  <2>3. \A i \in DOMAIN assessments' \ DOMAIN assessments : assessments'[i] = e
    BY <2>1, AppendNew DEF PromotionInv
  <2>4. UNCHANGED <<now, approval, decision>>
    BY <1>1 DEF Assess
  <2>5. ASSUME NEW i \in DOMAIN assessments' PROVE Shown(i)'
    <3>1. CASE i \in DOMAIN assessments
      BY <2>2, <3>1 DEF PromotionInv, Shown
    <3>2. CASE i \notin DOMAIN assessments
      BY <2>1, <2>3, <3>2 DEF PromotionInv, Shown, NotExpired
    <3> QED BY <3>1, <3>2
  <2> QED BY <2>2, <2>4, <2>5 DEF PromotionInv
<1>2. ASSUME NEW i \in DOMAIN assessments, Approve(i) PROVE PromotionInv'
  <2>1. UNCHANGED <<now, assessments, decision>> /\ approval'.at \in Nat
    BY <1>2, ClockAssumption DEF Approve
  <2> QED BY <2>1 DEF PromotionInv, Shown
<1>3. ASSUME NEW i \in DOMAIN assessments, Commit(i) PROVE PromotionInv'
  <2>1. UNCHANGED <<now, assessments, approval>>
    BY <1>3 DEF Commit
  <2>2. assessments[i].at \in Nat /\ now \in Nat
    BY DEF PromotionInv, Shown
  <2>3. CASE Commits(i)
    <3>1. /\ assessments[i].eligible /\ approval.assessment = i
          /\ approval.at \in assessments[i].at..now
      BY <2>2, <2>3 DEF Commits, PromotionInv
    <3>2. decision' = [state |-> "enabled", assessment |-> i, at |-> now,
                       approved |-> approval.assessment, given |-> approval.at]
      BY <1>3, <2>3 DEF Commit
    <3> QED BY <2>1, <3>1, <3>2 DEF PromotionInv, Shown
  <2>4. CASE ~Commits(i)
    <3>1. decision' = [state |-> "disabled"]
      BY <1>3, <2>4 DEF Commit
    <3> QED BY <2>1, <3>1 DEF PromotionInv, Shown
  <2> QED BY <2>3, <2>4
<1>4. CASE Rollback
  <2>1. UNCHANGED <<now, assessments, approval>> /\ decision'.state = "rolled_back"
        /\ "state" \in DOMAIN decision'
    BY <1>4 DEF Rollback, PromotionInv
  <2> QED BY <2>1 DEF PromotionInv, Shown
<1>5. ASSUME UNCHANGED <<assessments, approval, decision>>, Tick \/ UNCHANGED now
      PROVE  PromotionInv'
  <2>1. now' \in Nat
    BY <1>5 DEF Tick, PromotionInv
  <2> QED BY <1>5, <2>1 DEF PromotionInv, Shown
<1> QED BY <1>1, <1>2, <1>3, <1>4, <1>5 DEF PromotionNext, promotionVars

\* Better evidence, case by case, is better on the whole.
LEMMA ImprovementPositive ==
  ASSUME MinImprovement > 0, NEW p \in Pairs, p.gated, Improves(p),
         CaseLevel(p) => Compared(p)
  PROVE  /\ Cases(p) = DOMAIN p.cand.scores
         /\ Cases(p) \subseteq p.base.judged \cap p.cand.judged
         /\ TotalGain(p) > 0
<1>1. CaseLevel(p) /\ Compared(p)
  BY DEF CaseLevel
<1>2. /\ Cases(p) = DOMAIN p.base.scores /\ Cases(p) = DOMAIN p.cand.scores
      /\ p.base.judged = Cases(p) /\ p.cand.judged = Cases(p)
      /\ Cardinality(Cases(p)) >= 2
  BY <1>1 DEF Compared, Scored, Cases
<1>3. /\ IsFiniteSet(Cases(p))
      /\ \A c \in Cases(p) : p.base.scores[c] \in Nat /\ p.cand.scores[c] \in Nat
  BY <1>2, PromotionAssumption DEF Side
<1>4. \A c \in Cases(p) : Difference(p, c) \in Int
  BY <1>3 DEF Difference
<1>5. TotalGain(p) \in Int /\ Cardinality(Cases(p)) \in Nat
  BY <1>3, <1>4, TotalGainIsInt, FS_CardinalityType
<1>6. TotalGain(p) >= MinImprovement * Cardinality(Cases(p))
  BY <1>1 DEF Improves, TotalGain
<1>7. \A k, m, t \in Int : k >= 2 /\ m > 0 /\ t >= m * k => t > 0
  OBVIOUS
<1>8. TotalGain(p) > 0
  BY <1>2, <1>5, <1>6, <1>7, PromotionAssumption
<1> QED BY <1>2, <1>8

\* With a policy that asks for an improvement, an enabled capability was approved by
\* someone who had its assessment, after it was made and before it was committed,
\* and the candidate of that assessment was better than the baseline, case by case
\* where the metric asks for it, on evidence that had not expired when it was
\* assessed (assess_promotion, commit_promotion).
THEOREM EvidencedEnabled ==
  ASSUME MinImprovement > 0
  PROVE  PromotionSpec => []EnabledIsEvidenced
<1>1. PromotionInv => EnabledIsEvidenced
  <2> SUFFICES ASSUME PromotionInv, decision.state = "enabled"
               PROVE  LET assessed == assessments[decision.assessment]
                          p        == assessed.pair
                      IN  /\ decision.approved = decision.assessment
                          /\ decision.given \in assessed.at..decision.at
                          /\ p.gated =>
                               /\ Cases(p) = DOMAIN p.cand.scores
                               /\ Cases(p) \subseteq p.base.judged \cap p.cand.judged
                               /\ TotalGain(p) > 0
                          /\ p.until = 0 \/ p.until > assessed.at
    BY DEF EnabledIsEvidenced, TotalGain
  <2>1. Shown(decision.assessment) /\ assessments[decision.assessment].eligible
    BY DEF PromotionInv
  <2>2. PICK p : p = assessments[decision.assessment].pair
    OBVIOUS
  <2>3. /\ p \in Pairs /\ Improves(p) /\ (CaseLevel(p) => Compared(p))
        /\ p.until = 0 \/ p.until > assessments[decision.assessment].at
    BY <2>1, <2>2 DEF Shown
  <2> QED BY <2>2, <2>3, ImprovementPositive DEF PromotionInv
<1> QED BY <1>1, InitPromotion, NextPromotion, PTL DEF PromotionSpec
=============================================================================
