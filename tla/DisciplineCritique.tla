--------------------------- MODULE DisciplineCritique ---------------------------
(***************************************************************************)
(* DisciplineCritic (discipline_critique.py): the criteria of a pack       *)
(* against a plan, an evidence matrix and a draft, and the staged critique *)
(* of art history and art criticism.                                       *)
(*                                                                         *)
(* A pack is a function from criteria to [mandatory, design].  A subject   *)
(* has causal and designed (the plan claims a cause; it has a method that  *)
(* identifies one), words (the criteria whose first word stands in the     *)
(* draft's text), and plan and draft, the entries that the two make for    *)
(* criteria themselves.  A status is "pass", "fail" or "open": any word    *)
(* that the code does not know, or none.                                   *)
(***************************************************************************)
EXTENDS Integers, SequencesExt

CONSTANTS History, Criticism  \* the packs of the two art disciplines

Row(c, evidence, status) == [criterion |-> c, evidence |-> evidence, status |-> status]

\* What a container says of a criterion: nothing, a bare value, or a record that may
\* hold evidence and a status beside the value.
Nothing == [kind |-> "nothing"]
Bare(holds) == [kind |-> "bare", holds |-> holds]
Entry(holds, evidence, status) ==
  [kind |-> "record", holds |-> holds, evidence |-> evidence, status |-> status]

-----------------------------------------------------------------------------
(* _criterion_inputs: rows in their order, then the plan, then the draft. *)

\* The stand-in for evidence of an entry that holds and names none.
Mark(c) == "criterion"

Later(status, next) == IF next = "open" THEN status ELSE next

WithRow(input, row) ==
  [evidence |-> input.evidence \cup row.evidence, status |-> Later(input.status, row.status)]

WithEntry(input, c, entry) ==
  CASE entry.kind = "nothing" -> input
    [] entry.kind = "bare" ->
         IF entry.holds THEN [input EXCEPT !.evidence = @ \cup {Mark(c)}]
         ELSE [input EXCEPT !.status = "fail"]
    [] entry.kind = "record" ->
         LET read == WithRow(input, entry)
         IN  IF entry.holds /\ read.evidence = {} THEN [read EXCEPT !.evidence = {Mark(c)}]
             ELSE read

Input(c, rows, subject) ==
  LET ofRows == FoldLeft(WithRow, [evidence |-> {}, status |-> "open"],
                         SelectSeq(rows, LAMBDA r : r.criterion = c))
  IN  WithEntry(WithEntry(ofRows, c, subject.plan[c]), c, subject.draft[c])

-----------------------------------------------------------------------------
(* critique *)

\* A causal claim without a design that can license it.
Unlicensed(criterion, subject) ==
  criterion.design /\ subject.causal /\ ~subject.designed

Supported(c, input, subject) ==
  \/ input.status = "pass"
  \/ input.status = "open" /\ (input.evidence # {} \/ c \in subject.words)

\* The criteria of a pack that fail.
Failures(pack, rows, subject) ==
  {c \in DOMAIN pack : \/ Unlicensed(pack[c], subject)
                       \/ ~Supported(c, Input(c, rows, subject), subject)}

MandatoryFailures(pack, rows, subject) ==
  {c \in Failures(pack, rows, subject) : pack[c].mandatory}

\* A report: each criterion's result, and whether the pack blocks.
Critique(pack, rows, subject) ==
  [status   |-> [c \in DOMAIN pack |->
                   IF c \in Failures(pack, rows, subject) THEN "fail" ELSE "pass"],
   evidence |-> [c \in DOMAIN pack |-> Input(c, rows, subject).evidence],
   failed   |-> MandatoryFailures(pack, rows, subject),
   blocking |-> MandatoryFailures(pack, rows, subject) # {}]

\* aggregate_critiques
Disagreements(reports) ==
  {c \in UNION {DOMAIN reports[i].status : i \in DOMAIN reports} :
     \E i, j \in DOMAIN reports :
       /\ c \in DOMAIN reports[i].status \cap DOMAIN reports[j].status
       /\ reports[i].status[c] # reports[j].status[c]}

Aggregate(reports) ==
  [disagreements |-> Disagreements(reports),
   failed   |-> {<<i, c>> \in (DOMAIN reports)
                              \X UNION {reports[j].failed : j \in DOMAIN reports} :
                   c \in reports[i].failed},
   blocking |-> \E i \in DOMAIN reports : reports[i].failed # {}]

-----------------------------------------------------------------------------
(* staged_multimodal_critique.  An observation is [id, anchored]: whether its *)
(* selector names a region; texts are references to textual evidence.         *)

Anchored(observations) == {o.id : o \in {p \in observations : p.anchored}}

Unanchored(observations) == {o.id : o \in observations} \ Anchored(observations)

HistoryRows(observations, texts) ==
  LET seen == Anchored(observations)
  IN  IF seen = {} THEN << >>
      ELSE <<Row("visual-anchor", seen \cup texts, "pass"),
             Row("object-description", seen, "pass")>>

CriticismRows(observations, texts, history) ==
  LET seen == Anchored(observations)
  IN  HistoryRows(observations, texts)
      \o <<Row("description", {"critique"} \cup seen \cup texts,
               IF seen \cup texts # {} THEN "pass" ELSE "fail"),
           Row("judgement", {"critique"},
               IF seen # {} /\ ~history.blocking THEN "pass" ELSE "fail")>>

Staged(rows, subject, observations, texts) ==
  LET history   == Critique(History, rows \o HistoryRows(observations, texts), subject)
      criticism == Critique(Criticism,
                            rows \o CriticismRows(observations, texts, history), subject)
  IN  [history |-> history, criticism |-> criticism,
       aggregate |-> Aggregate(<<history, criticism>>),
       limited |-> Unanchored(observations) # {} \/ Anchored(observations) = {}]
=============================================================================
