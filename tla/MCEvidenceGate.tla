---------------------------- MODULE MCEvidenceGate ----------------------------
EXTENDS EvidenceGate

Quality(verified, retraction, cleared, redistributable, primary) ==
  [verified |-> verified, retraction |-> retraction, cleared |-> cleared,
   redistributable |-> redistributable, primary |-> primary]

\* Sources that are in order, of both kinds, and one for each reason to reject.
SomeQualities ==
  {Quality(TRUE, "clean", TRUE, TRUE, TRUE), Quality(TRUE, "clean", TRUE, FALSE, FALSE),
   Quality(TRUE, "unchecked", TRUE, TRUE, TRUE), Quality(FALSE, "clean", TRUE, TRUE, FALSE)}

Remark(stance, stated, verbatim) ==
  [stance |-> stance, stated |-> stated, verbatim |-> verbatim]

SomeRemarks ==
  {Remark("support", TRUE, TRUE), Remark("counter", TRUE, TRUE),
   Remark("counter", FALSE, TRUE), Remark("counter", TRUE, FALSE)}

SomeJudgements ==
  {[level |-> "directly_supports", decision |-> "eligible"],
   [level |-> "directly_supports", decision |-> "ineligible"],
   [level |-> "directly_supports", decision |-> "absent"],
   [level |-> "context_only", decision |-> "absent"],
   [level |-> "misquoted", decision |-> "absent"]}

Classifier(verified, thresholds) ==
  [model |-> [identified |-> TRUE, labels |-> LABELS, intact |-> TRUE,
              verified |-> verified, digest |-> "d1"],
   calibration |-> [identified |-> TRUE, labels |-> LABELS, temperature |-> 1,
                    thresholds |-> thresholds, model |-> "d1", verified |-> TRUE],
   ontology |-> "supported"]

\* A classifier with the default thresholds and one whose model is not verified.
SomeClassifiers ==
  {Classifier(TRUE, << >>), Classifier(FALSE, [directly_supports |-> 50])}

\* Sure of the first label, not sure enough of it, of the last one, no row at all.
SomeRows ==
  {<<96, 1, 1, 1, 1>>, <<60, 40, 0, 0, 0>>, <<0, 10, 0, 0, 90>>, << >>}

Context(legal, classified, classifier) ==
  [legal |-> legal, classified |-> classified, clear |-> TRUE, classifier |-> classifier]

SomeContexts ==
  {Context(TRUE, TRUE, NoClassifier), Context(FALSE, FALSE, NoClassifier)}
    \cup {Context(FALSE, FALSE, c) : c \in SomeClassifiers}

\* A node that argues from the first candidate and one that has no statement.
Node(local, evidence, stated) ==
  [local |-> local, evidence |-> evidence, stated |-> stated]

SmallGraphs == {{Node("thesis", {1}, TRUE)}, {Node("premise", {}, FALSE)}}
=============================================================================
