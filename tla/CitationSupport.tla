---------------------------- MODULE CitationSupport ----------------------------
(***************************************************************************)
(* The citation classifier (citation_classifier.py) and the audit that the *)
(* broker makes with it (broker.py, citation_support_audit): operators     *)
(* only, used by EvidenceGate.  What the model answers for a pair is a row *)
(* of one weight per label; a probability is a weight over the row's sum,  *)
(* compared in percent.  Exponentials of logits are weights as well.       *)
(***************************************************************************)
EXTENDS Naturals, Sequences

LABELS ==
  <<"directly_supports", "partially_supports", "context_only", "contradicts",
    "not_supported">>

VALID_SUPPORT_LEVELS ==
  {"directly_supports", "partially_supports", "context_only", "contradicts",
   "citation_laundering_risk", "invalid_citation"}

-----------------------------------------------------------------------------
(* The artifacts.  identified: the identifiers and digests are complete.     *)

ModelVerified(model) ==
  model.identified /\ model.labels = LABELS /\ model.intact /\ model.verified

\* The ontology's digest is only required to be there: it is compared with none.
CalibrationVerified(calibration, model) ==
  /\ calibration.identified
  /\ calibration.labels = LABELS
  /\ calibration.temperature > 0
  /\ \A label \in DOMAIN calibration.thresholds : calibration.thresholds[label] <= 100
  /\ calibration.model = model.digest
  /\ calibration.verified

Ready(classifier) ==
  /\ ModelVerified(classifier.model)
  /\ CalibrationVerified(classifier.calibration, classifier.model)
  /\ classifier.ontology = "supported"

-----------------------------------------------------------------------------
(* The decisions. *)

Decided(status, level) == [status |-> status, level |-> level]

NoLevel == "none"

Failed(status) == Decided(status, NoLevel)

Total(row) == row[1] + row[2] + row[3] + row[4] + row[5]

WellFormed(row) == Len(row) = Len(LABELS) /\ Total(row) > 0

\* max(LABELS, key=...): among equal labels the first one.
Selected(row) ==
  CHOOSE i \in DOMAIN LABELS :
    \A j \in DOMAIN LABELS : row[j] <= row[i] /\ (row[j] = row[i] => i <= j)

Threshold(calibration, label) ==
  IF label \in DOMAIN calibration.thresholds THEN calibration.thresholds[label]
  ELSE IF label = "directly_supports" THEN 95
  ELSE 0

Selective(calibration, row) ==
  LET label == LABELS[Selected(row)]
  IN  IF row[Selected(row)] * 100 < Threshold(calibration, label) * Total(row)
        THEN Failed("abstained")
        ELSE Decided("classified", label)

\* A model without a backend answers with rows that are not well formed.
Classify(classifier, rows, count) ==
  [i \in 1..count |->
     IF ~Ready(classifier) THEN Failed("abstained")
     ELSE IF Len(rows) # count THEN Failed("error")
     ELSE IF ~WellFormed(rows[i]) THEN Failed("abstained")
     ELSE Selective(classifier.calibration, rows[i])]

-----------------------------------------------------------------------------
(* The checks of the source and the quotation, and the admission.  A source  *)
(* passes here unless it is known to be retracted, and its licence is looked *)
(* at only as the permission to redistribute.                                *)

Precheck(verbatim, is) ==
  is.verified /\ is.redistributable /\ verbatim /\ is.retraction # "retracted"

\* Mutant: a direct label is enough.
AdmissionByLabel(verbatim, is, decision) ==
  decision.status = "classified" /\ decision.level = "directly_supports"

AdmissionEligible(verbatim, is, decision) ==
  /\ Precheck(verbatim, is)
  /\ decision.status = "classified"
  /\ decision.level = "directly_supports"

\* An entry of the audit; the label is kept when a check rejects the candidate.
Audited(verbatim, is, decision) ==
  [level    |-> IF decision.level = NoLevel THEN "invalid_citation" ELSE decision.level,
   decision |-> IF AdmissionEligible(verbatim, is, decision) THEN "eligible" ELSE "ineligible"]
=============================================================================
