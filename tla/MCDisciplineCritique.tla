-------------------------- MODULE MCDisciplineCritique --------------------------
(***************************************************************************)
(* Facts about discipline critiques, for every entry that a plan and a     *)
(* draft may make for one criterion and every matrix of one row about it;  *)
(* evaluated as assumptions before the run of the final governance, which  *)
(* asks whether the recorded critique blocks.                              *)
(***************************************************************************)
EXTENDS Sequences

LOCAL Criterion(design) == [mandatory |-> TRUE, design |-> design]

LOCAL ArtHistory ==
  [c \in {"visual-anchor", "object-description"} |-> Criterion(FALSE)]

LOCAL ArtCriticism == [c \in {"description", "judgement"} |-> Criterion(FALSE)]

\* A pack with one criterion that asks for a design.
LOCAL Psychology == [c \in {"licensing"} |-> Criterion(TRUE)]

DC == INSTANCE DisciplineCritique WITH History <- ArtHistory, Criticism <- ArtCriticism

LOCAL Names == DOMAIN ArtHistory \cup DOMAIN ArtCriticism \cup DOMAIN Psychology

LOCAL Statuses == {"pass", "fail", "open"}

LOCAL Entries ==
  {DC!Nothing} \cup {DC!Bare(holds) : holds \in BOOLEAN}
  \cup {DC!Entry(holds, evidence, status) :
          holds \in BOOLEAN, evidence \in {{}, {"e"}}, status \in Statuses}

\* Subjects whose plan and draft say something of one criterion.
LOCAL Subjects(c) ==
  {[causal |-> causal, designed |-> FALSE, words |-> words,
    plan  |-> [n \in Names |-> IF n = c THEN p ELSE DC!Nothing],
    draft |-> [n \in Names |-> IF n = c THEN d ELSE DC!Nothing]] :
     causal \in BOOLEAN, words \in {{}, Names}, p \in Entries, d \in Entries}

LOCAL Rows(c) ==
  {DC!Row(c, evidence, status) : evidence \in {{}, {"e"}}, status \in Statuses}

LOCAL Matrices(c) == {<< >>} \cup {<<r>> : r \in Rows(c)}

LOCAL TwoRows(c) == {<<r, s>> : r, s \in Rows(c)}

LOCAL Seen == {[id |-> "o", anchored |-> TRUE]}

LOCAL Unseen == {[id |-> "o", anchored |-> FALSE]}

\* No row, entry or word of the draft licenses a causal claim without a design.
ASSUME UnlicensedFails ==
  \A subject \in Subjects("licensing") :
  \A rows \in Matrices("licensing") \cup TwoRows("licensing") :
    subject.causal => DC!Critique(Psychology, rows, subject).blocking

\* More evidence never fails a criterion that passed without it.
ASSUME EvidenceHelps ==
  \A subject \in Subjects("licensing") : \A rows \in Matrices("licensing") :
    DC!Failures(Psychology, Append(rows, DC!Row("licensing", {"more"}, "open")), subject)
      \subseteq DC!Failures(Psychology, rows, subject)

\* An observation with a region never makes the staged critique block.
ASSUME AnchorHelps ==
  \A c \in {"visual-anchor", "judgement"} :
  \A subject \in Subjects(c) : \A rows \in Matrices(c) :
    DC!Staged(rows, subject, Seen, {}).aggregate.blocking
      => DC!Staged(rows, subject, {}, {}).aggregate.blocking

\* A judgement passes on an observation with a region, under a history that does not
\* block, or because the plan or the draft says so itself.
ASSUME JudgementRests ==
  \A subject \in Subjects("judgement") : \A rows \in Matrices("judgement") :
  \A observations \in {{}, Seen, Unseen} :
    LET staged == DC!Staged(rows, subject, observations, {})
    IN  staged.criticism.status["judgement"] = "pass"
        => \/ observations = Seen /\ ~staged.history.blocking
           \/ \E entry \in {subject.plan["judgement"], subject.draft["judgement"]} :
                entry.kind = "record" /\ entry.status = "pass"

\* What fails in one section fails in the aggregate, and the two art packs, having no
\* criterion in common, never disagree.
ASSUME AggregateKeeps ==
  \A subject \in Subjects("judgement") : \A observations \in {Seen, Unseen} :
    LET staged == DC!Staged(<< >>, subject, observations, {"t"})
    IN  /\ staged.aggregate.blocking
             <=> (staged.history.blocking \/ staged.criticism.blocking)
        /\ staged.aggregate.disagreements = {}

\* A record that denies a criterion without a status is no failure, and evidence
\* under an unknown status passes.
ASSUME DenialPasses ==
  LET none == [n \in Names |-> DC!Nothing]
      subject == [causal |-> FALSE, designed |-> FALSE, words |-> {"judgement"},
                  plan |-> none,
                  draft |-> [none EXCEPT !["judgement"] = DC!Entry(FALSE, {}, "open")]]
  IN  /\ "judgement" \notin DC!Failures(ArtCriticism, << >>, subject)
      /\ "description" \notin
           DC!Failures(ArtCriticism, <<DC!Row("description", {"e"}, "open")>>, subject)
=============================================================================
