---------------------------- MODULE ProseEditProofs ----------------------------
(***************************************************************************)
(* The safety of an edit, for any findings of the local checks, any        *)
(* replies of a verifier and any number of repairs.  The first part is     *)
(* about the report alone: one that adds no blocker and no warning shows   *)
(* the correspondence that Corresponds asks for.  The second is about one  *)
(* verification: what a PASS says of the reply it rests on.  The third is  *)
(* the invariant of the edit.                                              *)
(***************************************************************************)
EXTENDS ProseEdit, SequenceTheorems, TLAPS

(* Reports *)

Unrepeated(maps) == \A i, j \in DOMAIN maps : maps[i].of = maps[j].of => i = j

\* Without repeated entries, the entry of a key is the one that has it.
LEMMA MapOfUnique ==
  ASSUME NEW maps, Unrepeated(maps), NEW i \in DOMAIN maps, DOMAIN maps \subseteq Nat
  PROVE  MapOf(maps, maps[i].of) = maps[i]
<1> DEFINE Last(k) == maps[k].of = maps[i].of
                      /\ \A j \in DOMAIN maps : maps[j].of = maps[i].of => j <= k
<1>1. Last(i)
  BY DEF Unrepeated
<1>2. \A k \in DOMAIN maps : Last(k) => k = i
  BY DEF Unrepeated
<1>3. (CHOOSE k \in DOMAIN maps : Last(k)) = i
  BY <1>1, <1>2
<1> QED BY <1>3 DEF MapOf, LastWith

\* What a report without blockers and warnings is.
Clean(r) == ~Breaks(r) /\ ~Gaps(r) /\ ~Doubts(r)

LEMMA ForwardEntry ==
  ASSUME NEW r \in Report, Clean(r), NEW s \in Ids(r.source)
  PROVE  \E i \in DOMAIN r.forward :
           /\ r.forward[i].of = s /\ Goes(r, s) = r.forward[i]
           /\ r.forward[i].to # {} /\ r.forward[i].to \subseteq Ids(r.candidate)
<1>1. s \in Mapped(r) /\ s \in Keys(r.forward)
  BY DEF Clean, Gaps, Mapped
<1>2. PICK i \in DOMAIN r.forward : r.forward[i].of = s
  BY <1>1 DEF Keys
<1>3. r.forward \in Seq(Forward) /\ DOMAIN r.forward \subseteq Nat
  <2>1. r.forward \in Seq(Forward) BY DEF Report
  <2> QED BY <2>1, LenProperties
<1>4. Unrepeated(r.forward)
  BY DEF Clean, Doubts, Repeated, Repeats, Unrepeated
<1>5. Goes(r, s) = r.forward[i]
  BY <1>2, <1>3, <1>4, MapOfUnique DEF Goes
<1>6. r.forward[i] \in Forward
  BY <1>3, ElementOfSeq
<1>7. r.forward[i].preserved = "yes"
  <2>1. Goes(r, s).preserved # "no"
    BY <1>1 DEF Clean, Breaks
  <2>2. Goes(r, s).preserved # "unknown"
    BY <1>1 DEF Clean, Doubts
  <2> QED BY <1>5, <1>6, <2>1, <2>2 DEF Forward, Answer
<1>8. r.forward[i].to # {}
  BY <1>1, <1>5, <1>7 DEF Clean, Gaps
<1>9. r.forward[i].to \subseteq Ids(r.candidate)
  BY DEF Clean, Doubts, UnknownIds
<1> QED BY <1>2, <1>5, <1>8, <1>9

LEMMA BackwardEntry ==
  ASSUME NEW r \in Report, Clean(r), NEW c \in Ids(r.candidate)
  PROVE  \E j \in DOMAIN r.backward :
           /\ r.backward[j].of = c /\ Comes(r, c) = r.backward[j]
           /\ r.backward[j].to # {} /\ r.backward[j].to \subseteq Ids(r.source)
<1>1. c \in Licensed(r) /\ c \in Keys(r.backward)
  BY DEF Clean, Breaks, Licensed
<1>2. PICK j \in DOMAIN r.backward : r.backward[j].of = c
  BY <1>1 DEF Keys
<1>3. r.backward \in Seq(Backward) /\ DOMAIN r.backward \subseteq Nat
  <2>1. r.backward \in Seq(Backward) BY DEF Report
  <2> QED BY <2>1, LenProperties
<1>4. Unrepeated(r.backward)
  BY DEF Clean, Doubts, Repeated, Repeats, Unrepeated
<1>5. Comes(r, c) = r.backward[j]
  BY <1>2, <1>3, <1>4, MapOfUnique DEF Comes
<1>6. r.backward[j] \in Backward
  BY <1>3, ElementOfSeq
<1>7. r.backward[j].licensed = "yes" /\ r.backward[j].new = "no"
  <2>1. Comes(r, c).licensed # "no" /\ Comes(r, c).new # "yes"
    BY <1>1 DEF Clean, Breaks
  <2>2. "unknown" \notin {Comes(r, c).licensed, Comes(r, c).new}
    BY <1>1, <2>1 DEF Clean, Doubts
  <2> QED BY <1>5, <1>6, <2>1, <2>2 DEF Backward, Answer
<1>8. r.backward[j].to # {}
  BY <1>1, <1>5, <1>7 DEF Clean, Gaps
<1>9. r.backward[j].to \subseteq Ids(r.source)
  BY DEF Clean, Doubts, UnknownIds
<1> QED BY <1>2, <1>5, <1>8, <1>9

\* The pairs of a report are what its forward entries go to.
LEMMA PairsAreForward ==
  ASSUME NEW r \in Report, Clean(r), NEW s \in Ids(r.source), NEW c \in Ids(r.candidate)
  PROVE  <<s, c>> \in Pairs(r) <=> c \in Goes(r, s).to
<1>1. PICK i \in DOMAIN r.forward : r.forward[i].of = s /\ Goes(r, s) = r.forward[i]
  BY ForwardEntry
<1>2. \A k \in DOMAIN r.forward : r.forward[k].of = s => k = i
  BY <1>1 DEF Clean, Doubts, Repeated, Repeats
<1>3. <<s, c>> \in Pairs(r) <=> \E k \in DOMAIN r.forward :
                                  r.forward[k].of = s /\ c \in r.forward[k].to
  BY DEF Pairs
<1> QED BY <1>1, <1>2, <1>3

LEMMA BackwardIsComes ==
  ASSUME NEW r \in Report, Clean(r), NEW s \in Ids(r.source), NEW c \in Ids(r.candidate)
  PROVE  (\E j \in DOMAIN r.backward : r.backward[j].of = c /\ s \in r.backward[j].to)
         <=> s \in Comes(r, c).to
<1>1. PICK j \in DOMAIN r.backward : r.backward[j].of = c /\ Comes(r, c) = r.backward[j]
  BY BackwardEntry
<1>2. \A k \in DOMAIN r.backward : r.backward[k].of = c => k = j
  BY <1>1 DEF Clean, Doubts, Repeated, Repeats
<1> QED BY <1>1, <1>2

\* A report without blockers and warnings is a correspondence of the two texts.
LEMMA CleanCorresponds ==
  ASSUME NEW r \in Report, Clean(r)
  PROVE  Corresponds(r)
<1>1. ASSUME NEW s \in Ids(r.source)
      PROVE  \E c \in Ids(r.candidate) : <<s, c>> \in Pairs(r)
  <2>1. PICK c \in Ids(r.candidate) : c \in Goes(r, s).to
    BY ForwardEntry
  <2> QED BY <2>1, PairsAreForward
<1>2. ASSUME NEW c \in Ids(r.candidate)
      PROVE  \E s \in Ids(r.source), j \in DOMAIN r.backward :
               r.backward[j].of = c /\ s \in r.backward[j].to
  BY BackwardEntry
<1>3. ASSUME NEW s \in Ids(r.source), NEW c \in Ids(r.candidate)
      PROVE  <<s, c>> \in Pairs(r)
             <=> \E j \in DOMAIN r.backward : r.backward[j].of = c /\ s \in r.backward[j].to
  <2>1. s \in Mapped(r) /\ c \in Licensed(r)
    BY DEF Clean, Gaps, Breaks
  <2>2. c \in Goes(r, s).to <=> s \in Comes(r, c).to
    BY <2>1 DEF Clean, Gaps, Doubts, OneWay
  <2> QED BY <2>2, PairsAreForward, BackwardIsComes
<1> QED BY <1>1, <1>2, <1>3 DEF Corresponds

\* Two propositions with one image are sources of one candidate's entry: if nothing
\* is merged across types, they are of one type as far as both are known.
LEMMA UnmergedAgree ==
  ASSUME NEW r \in Report, Clean(r), ~Merges(r),
         NEW first \in Pairs(r), NEW second \in Pairs(r), first[2] = second[2]
  PROVE  ~TypeBreaks(FrameOf(r.source, first[1]), FrameOf(r.source, second[1]))
<1> DEFINE c == first[2]
<1>1. first[1] \in Ids(r.source) /\ second[1] \in Ids(r.source) /\ c \in Ids(r.candidate)
      /\ first = <<first[1], c>> /\ second = <<second[1], c>>
  BY DEF Pairs
<1>2. first[1] \in Comes(r, c).to /\ second[1] \in Comes(r, c).to
  BY <1>1, CleanCorresponds, BackwardIsComes DEF Corresponds
<1>3. PICK j \in DOMAIN r.backward : r.backward[j].of = c /\ Comes(r, c) = r.backward[j]
  BY <1>1, BackwardEntry
<1> QED BY <1>1, <1>2, <1>3 DEF Merges

-----------------------------------------------------------------------------
(* One verification *)

Outcomes == {"PASS", "REVIEW", "REPAIR", "REJECT"}

Doubted(ds) == \E d \in ds : d.severity \in {"warning", "blocker"}

LEMMA ClassifiedType == ASSUME NEW ds PROVE Classified(ds) \in Outcomes
BY DEF Classified, Outcomes

\* A delta of either severity stands in the way of a PASS.
LEMMA DoubtedFails ==
  ASSUME NEW ds \in SUBSET Delta, Doubted(ds)
  PROVE  Classified(ds) # "PASS"
<1>1. \A d \in ds : d.repairable \in BOOLEAN
  BY DEF Delta
<1>2. CASE \E d \in ds : d.severity = "blocker" /\ ~d.repairable
  BY <1>2 DEF Classified
<1>3. CASE /\ \A d \in ds : d.severity = "blocker" => d.repairable
           /\ \E d \in ds : d.severity = "blocker"
  <2>1. \E d \in ds : d.severity = "blocker" /\ d.repairable
    BY <1>3
  <2> QED BY <1>3, <2>1 DEF Classified
<1>4. CASE \A d \in ds : d.severity # "blocker"
  <2>1. \E d \in ds : d.severity = "warning"
    BY <1>4 DEF Doubted
  <2> QED BY <1>4, <2>1 DEF Classified
<1> QED BY <1>1, <1>2, <1>3, <1>4

LEMMA AnnotatedKeeps ==
  ASSUME NEW ds \in SUBSET Delta
  PROVE  Annotated(ds) \in SUBSET Delta /\ (Doubted(ds) => Doubted(Annotated(ds)))
<1> DEFINE Of(d) == IF d.shape = "local"
                    THEN [d EXCEPT !.severity = "blocker", !.repairable = TRUE]
                    ELSE [d EXCEPT !.repairable = FALSE]
<1>1. ASSUME NEW d \in ds
      PROVE  /\ Of(d) \in Delta
             /\ d.severity \in {"warning", "blocker"} =>
                  Of(d).severity \in {"warning", "blocker"}
  BY <1>1 DEF Delta
<1>2. Annotated(ds) = {Of(d) : d \in ds}
  BY DEF Annotated
<1> HIDE DEF Of
<1> QED BY <1>1, <1>2 DEF Doubted

LEMMA WarningTyped ==
  /\ Warning \in Delta /\ Blocker \in Delta
  /\ \A severity \in {"blocker", "warning", "info"} :
       /\ [Warning EXCEPT !.severity = severity] \in Delta
       /\ [Warning EXCEPT !.severity = severity].severity = severity
BY DEF Warning, Blocker, Delta

\* What FromReport adds, and when it adds nothing.
LEMMA FromReportKeeps ==
  ASSUME NEW reply \in Replies
  PROVE  /\ FromReport(reply) \in SUBSET Delta
         /\ ~Doubted(FromReport(reply)) =>
              /\ call.strict => reply.report # << >>
              /\ reply.report # << >> => Clean(reply.report[1])
              /\ call.strict => ~Merges(reply.report[1])
<1> DEFINE r == reply.report[1]
           severities == ReportSeverities(r, call.strict)
<1>1. severities \subseteq {"blocker", "warning"}
  BY DEF ReportSeverities
<1>2. CASE reply.report = << >>
  BY <1>2, WarningTyped DEF FromReport, Doubted, Warning
<1>3. CASE reply.report # << >>
  <2>1. FromReport(reply) = {[Warning EXCEPT !.severity = severity] : severity \in severities}
    BY <1>3 DEF FromReport
  <2>2. FromReport(reply) \in SUBSET Delta
    BY <1>1, <2>1, WarningTyped
  <2>3. severities # {} => Doubted(FromReport(reply))
    BY <1>1, <2>1, WarningTyped DEF Doubted
  <2>4. severities = {} => Clean(r) /\ (call.strict => ~Merges(r))
    BY DEF ReportSeverities, Clean
  <2> QED BY <1>3, <2>2, <2>3, <2>4
<1> QED BY <1>2, <1>3

\* What a PASS says of the reply it rests on.
RestsOn(reply) ==
  /\ reply \in Replies
  /\ reply.equivalent # "unknown"
  /\ call.strict => reply.report # << >>
  /\ reply.report # << >> => Clean(reply.report[1])
  /\ call.strict => ~Merges(reply.report[1])

LEMMA ReplyTyped ==
  ASSUME NEW reply \in Replies
  PROVE  /\ reply.equivalent \in Answer /\ reply.deltas \in SUBSET Delta
         /\ reply.report # << >> => reply.report[1] \in Report
<1>1. IsReply(reply)
  BY ProseAssumption
<1>2. reply.report # << >> => reply.report[1] \in Report
  <2> SUFFICES ASSUME reply.report # << >> PROVE reply.report[1] \in Report
    OBVIOUS
  <2>1. reply.report \in Seq(Report) /\ Len(reply.report) = 1
    BY <1>1 DEF IsReply
  <2> QED BY <2>1, ElementOfSeq
<1> QED BY <1>1, <1>2 DEF IsReply

LEMMA PassSupported ==
  ASSUME NEW found \in SUBSET Delta, NEW reply \in Replies
  PROVE  /\ WithReply(found, reply) \in SUBSET Delta
         /\ Classified(WithReply(found, reply)) = "PASS" => RestsOn(reply)
<1> DEFINE reported == reply.deltas \cup FromReport(reply)
           doubted  == CASE reply.equivalent = "unknown" -> {Warning}
                         [] reply.equivalent = "no" /\ reported = {} -> {Warning}
                         [] OTHER -> {}
           resolved == /\ reply.equivalent = "yes" /\ reply.independent
                       /\ reply.report # <<>> /\ ~reply.report[1].unresolved
                       /\ reported = {}
           heuristic == {d \in found : d.shape = "quantifier" /\ d.severity = "warning"}
           all == (found \ (IF resolved THEN heuristic ELSE {})) \cup reported \cup doubted
<1>1. WithReply(found, reply) = Annotated(all)
  BY DEF WithReply
<1>2. reported \in SUBSET Delta
  BY ReplyTyped, FromReportKeeps
<1>3. doubted \in SUBSET Delta /\ (reply.equivalent = "unknown" => Warning \in doubted)
  BY WarningTyped
<1> HIDE DEF doubted, resolved, heuristic
<1>4. all \in SUBSET Delta
  BY <1>2, <1>3
<1>5. Doubted(FromReport(reply)) \/ reply.equivalent = "unknown" => Doubted(all)
  BY <1>3 DEF Doubted, Warning
<1> HIDE DEF all
<1>6. Doubted(all) => Classified(Annotated(all)) # "PASS"
  BY <1>4, AnnotatedKeeps, DoubtedFails
<1> QED BY <1>1, <1>4, <1>5, <1>6, AnnotatedKeeps, FromReportKeeps DEF RestsOn

-----------------------------------------------------------------------------
(* The invariant *)

Steps == {"begin", "verify", "assess", "judge", "deliver", "done", "raised"}

Calls == [rewrite : Nat, verifier : Nat, repair : Nat]

TypeInv ==
  /\ call \in Call
  /\ text \in [n : Nat, kind : Kinds]
  /\ text.kind = "source" => text.n = 0
  /\ deltas \in SUBSET Delta
  /\ tries \in 0..MaxRepairs
  /\ made \in Calls
  /\ pc \in Steps

Accounted ==
  /\ made.rewrite <= 1 /\ (pc = "begin" => made.rewrite = 0)
  /\ made.repair <= tries
  /\ made.verifier <= IF pc \in {"begin", "verify", "assess"} THEN tries ELSE 1 + tries
  /\ pc # "raised" => counted = made

\* The provider is asked for prose only, in a context that is in bounds.
Asked == call.entry = "edit" => ~call.blank /\ call.context /\ ~call.known

Judged ==
  /\ verdict.status \in Outcomes
  /\ verdict.status = "PASS" =>
       verdict.of = 0 \/ call.blank \/ verdict.reason = "terminal_newline_only"
       \/ RestsOn(verdict.reply)

Withheld ==
  /\ call.entry = "edit" /\ result.status = "NONE" /\ result.text = 0
  /\ result.fallback <=> ~(call.blank \/ (call.context /\ call.known))

Delivered ==
  /\ Judged /\ Asked
  /\ result.status = verdict.status /\ result.candidate = verdict.of
  /\ result.fallback = (verdict.status # "PASS")
  /\ result.text # 0 => /\ verdict.status = "PASS" /\ result.text = verdict.of
                        /\ verdict.reason # "terminal_newline_only"

IInv ==
  /\ TypeInv
  /\ Accounted
  /\ pc \in {"verify", "assess", "judge", "deliver"} => Asked
  /\ pc \in {"judge", "deliver"} => Judged /\ verdict.of = text.n
  /\ pc = "done" => Withheld \/ Delivered

LEMMA InitIInv == Init => IInv
<1> SUFFICES ASSUME Init PROVE IInv
  OBVIOUS
<1>1. text \in [n : Nat, kind : Kinds] /\ text.n = 0
  BY DEF Init, Text, Kinds
<1>2. made \in Calls /\ counted = made /\ made.rewrite = 0 /\ made.repair = 0
      /\ made.verifier = 0 /\ tries = 0
  BY DEF Init, NoCalls, Calls
<1>3. TypeInv
  BY <1>1, <1>2, ProseAssumption DEF Init, TypeInv, Steps
<1> QED BY <1>2, <1>3 DEF Init, IInv, Accounted

\* A new text in hand.
LEMMA TextTyped ==
  ASSUME NEW n \in Nat, NEW kind \in Kinds
  PROVE  /\ Text(n, kind) \in [n : Nat, kind : Kinds]
         /\ Text(n, kind).kind = "source" => Text(n, kind).n = 0
BY DEF Text

\* A provider is called: one count goes up.
LEMMA CalledTyped ==
  ASSUME TypeInv, NEW who \in {"rewrite", "verifier", "repair"}, Called(who)
  PROVE  /\ made' \in Calls
         /\ \A w \in {"rewrite", "verifier", "repair"} :
              made'[w] = made[w] + (IF w = who THEN 1 ELSE 0)
BY DEF TypeInv, Calls, Called

LEMMA CountedAlike ==
  ASSUME TypeInv, NEW who \in {"rewrite", "verifier", "repair"}, Called(who),
         counted = made, counted' = [counted EXCEPT ![who] = @ + 1]
  PROVE  counted' = made'
BY DEF Called

\* A conclusion is about the text in hand.
LEMMA ConcludedJudges ==
  ASSUME IInv, NEW status \in Outcomes, NEW reason, NEW reply, NEW ds \in SUBSET Delta,
         Concluded(status, reason, reply, ds),
         UNCHANGED <<call, text, tries>>,
         pc \in {"verify", "assess"},
         made' \in Calls, made'.rewrite = made.rewrite, made'.repair = made.repair,
         made'.verifier <= made.verifier + 1, counted' = made',
         status = "PASS" => \/ text.n = 0 \/ call.blank
                            \/ reason = "terminal_newline_only"
                            \/ RestsOn(reply)
  PROVE  IInv'
<1>1. pc' = "judge" /\ deltas' = ds /\ verdict'.of = text.n /\ verdict'.status = status
      /\ verdict'.reason = reason /\ verdict'.reply = reply
  BY DEF Concluded
<1>2. TypeInv'
  BY <1>1 DEF IInv, TypeInv, Steps
<1>3. tries \in Nat /\ made.verifier \in Nat /\ made'.verifier \in Nat
  BY ProseAssumption DEF IInv, TypeInv, Calls
<1>4. Accounted'
  BY <1>1, <1>3 DEF IInv, Accounted
<1>5. Judged' /\ Asked'
  BY <1>1 DEF IInv, Judged, Asked, RestsOn
<1> QED BY <1>1, <1>2, <1>4, <1>5 DEF IInv

\* The checks that ask no provider.
LEMMA ChecksKeep ==
  ASSUME IInv, CheckBoundary \/ CheckLocally \/ NoVerifier
  PROVE  IInv'
<1>1. UNCHANGED <<call, text, tries, counted, made>> /\ pc \in {"verify", "assess"}
  BY DEF CheckBoundary, CheckLocally, NoVerifier
<1>2. TypeInv /\ counted = made /\ Asked
  BY <1>1 DEF IInv, Accounted
<1>3. made' \in Calls /\ made'.rewrite = made.rewrite /\ made'.repair = made.repair
      /\ made'.verifier <= made.verifier + 1 /\ counted' = made'
  BY <1>1, <1>2 DEF TypeInv, Calls
<1>4. CASE CheckBoundary
  <2>1. {} \in SUBSET Delta /\ {Blocker} \in SUBSET Delta
    BY WarningTyped
  <2>2. CASE call.blank /\ Concluded("PASS", "no_claims", NoReply, {})
    BY <1>1, <1>3, <2>1, <2>2, ConcludedJudges DEF Outcomes
  <2>3. CASE Concluded("REJECT", "claim_added", NoReply, {Blocker})
    BY <1>1, <1>3, <2>1, <2>3, ConcludedJudges DEF Outcomes
  <2>4. CASE Concluded("REJECT", "claim_removed", NoReply, {Blocker})
    BY <1>1, <1>3, <2>1, <2>4, ConcludedJudges DEF Outcomes
  <2>5. CASE Concluded("PASS", "terminal_newline_only", NoReply, {})
    BY <1>1, <1>3, <2>1, <2>5, ConcludedJudges DEF Outcomes
  <2> QED BY <1>4, <2>2, <2>3, <2>4, <2>5 DEF CheckBoundary
<1>5. CASE CheckLocally
  <2>1. PICK found \in IF text.kind = "source" THEN {{}} ELSE Findings :
          LET ds == Annotated(found) \cup (IF call.context THEN {} ELSE {Warning})
              status == Classified(ds)
          IN  \/ /\ text.kind = "source"
                 /\ Concluded(status, "source_identical", NoReply, ds)
              \/ /\ text.kind # "source" /\ status \in {"REJECT", "REPAIR"}
                 /\ Concluded(status, "deterministic", NoReply, ds)
              \/ /\ text.kind # "source"
                 /\ Concluded("REVIEW", "context_safety_rejected", NoReply, ds)
              \/ /\ deltas' = ds /\ pc' = "assess" /\ UNCHANGED verdict
    BY <1>5 DEF CheckLocally
  <2> DEFINE ds == Annotated(found) \cup (IF call.context THEN {} ELSE {Warning})
             status == Classified(ds)
  <2>2. found \in SUBSET Delta
    BY <2>1, ProseAssumption
  <2>3. ds \in SUBSET Delta
    BY <2>2, AnnotatedKeeps, WarningTyped
  <2>4. status \in Outcomes
    BY ClassifiedType
  <2>5. CASE text.kind = "source" /\ Concluded(status, "source_identical", NoReply, ds)
    <3>1. text.n = 0 BY <1>2, <2>5 DEF TypeInv
    <3> HIDE DEF ds, status
    <3> QED BY <1>1, <1>3, <2>3, <2>4, <2>5, <3>1, ConcludedJudges
  <2>6. CASE status \in {"REJECT", "REPAIR"}
             /\ Concluded(status, "deterministic", NoReply, ds)
    <3> HIDE DEF ds, status
    <3> QED BY <1>1, <1>3, <2>3, <2>4, <2>6, ConcludedJudges
  <2>7. CASE Concluded("REVIEW", "context_safety_rejected", NoReply, ds)
    <3> HIDE DEF ds, status
    <3> QED BY <1>1, <1>3, <2>3, <2>7, ConcludedJudges DEF Outcomes
  <2>8. CASE deltas' = ds /\ pc' = "assess" /\ UNCHANGED verdict
    <3> HIDE DEF ds, status
    <3>1. pc = "verify" BY <1>5 DEF CheckLocally
    <3>2. TypeInv' BY <1>1, <1>2, <2>3, <2>8 DEF TypeInv, Steps
    <3>3. Accounted' BY <1>1, <2>8, <3>1 DEF IInv, Accounted
    <3> QED BY <1>1, <1>2, <2>8, <3>2, <3>3 DEF IInv, Asked
  <2> QED BY <2>1, <2>5, <2>6, <2>7, <2>8
<1>6. CASE NoVerifier
  <2> DEFINE ds == deltas \cup {Warning}
  <2>1. ds \in SUBSET Delta /\ Doubted(ds)
    BY <1>2, WarningTyped DEF TypeInv, Doubted, Warning
  <2>2. Concluded(Classified(ds), "no_verifier_bound", NoReply, ds)
    BY <1>6 DEF NoVerifier
  <2> HIDE DEF ds
  <2>3. Classified(ds) \in Outcomes /\ Classified(ds) # "PASS"
    BY <2>1, ClassifiedType, DoubtedFails
  <2> QED BY <1>1, <1>3, <2>1, <2>2, <2>3, ConcludedJudges
<1> QED BY <1>4, <1>5, <1>6

LEMMA AssessKeeps == ASSUME IInv, Assess PROVE IInv'
<1>1. UNCHANGED <<call, text, tries>> /\ pc = "assess" /\ Called("verifier")
      /\ counted' = [counted EXCEPT !["verifier"] = @ + 1]
  BY DEF Assess
<1>2. TypeInv /\ counted = made /\ deltas \in SUBSET Delta
  BY <1>1 DEF IInv, Accounted, TypeInv
<1>3. counted' = made'
  BY <1>1, <1>2, CountedAlike
<1>4. made' \in Calls /\ made'.rewrite = made.rewrite /\ made'.repair = made.repair
      /\ made'.verifier <= made.verifier + 1
  <2>1. made' \in Calls /\ made'["rewrite"] = made["rewrite"] + 0
        /\ made'["repair"] = made["repair"] + 0 /\ made'["verifier"] = made["verifier"] + 1
    BY <1>1, <1>2, CalledTyped
  <2> QED BY <1>2, <2>1 DEF TypeInv, Calls
<1>5. ASSUME NEW reply \in Replies,
             Concluded(Classified(WithReply(deltas, reply)), "none", reply,
                       WithReply(deltas, reply))
      PROVE  IInv'
  BY <1>1, <1>2, <1>3, <1>4, <1>5, PassSupported, ClassifiedType, ConcludedJudges
<1>6. ASSUME Concluded(Classified(deltas \cup {Warning}), "malformed_reply", NoReply,
                       deltas \cup {Warning})
      PROVE  IInv'
  <2>1. deltas \cup {Warning} \in SUBSET Delta /\ Doubted(deltas \cup {Warning})
    BY <1>2, WarningTyped DEF Doubted, Warning
  <2>2. Classified(deltas \cup {Warning}) \in Outcomes \ {"PASS"}
    BY <2>1, ClassifiedType, DoubtedFails
  <2> QED BY <1>1, <1>3, <1>4, <1>6, <2>1, <2>2, ConcludedJudges
<1> QED BY <1>5, <1>6 DEF Assess

LEMMA VerifierRaisesKeeps == ASSUME IInv, VerifierRaises PROVE IInv'
<1>1. TypeInv /\ pc = "assess" /\ pc' = "raised" /\ Called("verifier")
      /\ UNCHANGED <<call, text, deltas, tries>>
  BY DEF VerifierRaises, IInv
<1>2. made' \in Calls /\ made'["rewrite"] = made["rewrite"] + 0
      /\ made'["repair"] = made["repair"] + 0 /\ made'["verifier"] = made["verifier"] + 1
  BY <1>1, CalledTyped
<1>3. TypeInv'
  BY <1>1, <1>2 DEF TypeInv, Steps
<1>4. Accounted'
  <2>1. tries \in Nat /\ made.verifier <= tries /\ made.rewrite \in Nat
        /\ made.repair \in Nat /\ made.verifier \in Nat
    BY <1>1, ProseAssumption DEF IInv, Accounted, TypeInv, Calls
  <2> QED BY <1>1, <1>2, <2>1 DEF IInv, Accounted
<1> QED BY <1>1, <1>3, <1>4 DEF IInv

LEMMA BeginKeeps ==
  ASSUME IInv, KeepSource \/ Rewrite \/ GivenCandidate
  PROVE  IInv'
<1>1. TypeInv /\ pc = "begin" /\ counted = made /\ made.rewrite = 0
      /\ made.repair <= tries /\ made.verifier <= tries /\ tries \in Nat
      /\ UNCHANGED <<call, deltas, verdict, tries>>
  <2>1. pc = "begin" /\ UNCHANGED <<call, deltas, verdict, tries>>
    BY DEF KeepSource, Rewrite, GivenCandidate
  <2>2. tries \in Nat
    BY ProseAssumption DEF IInv, TypeInv
  <2> QED BY <2>1, <2>2 DEF IInv, Accounted
<1>2. CASE KeepSource
  <2>1. TypeInv' /\ Accounted'
    BY <1>1, <1>2 DEF KeepSource, IInv, TypeInv, Accounted, Steps, Calls
  <2>2. Withheld'
    BY <1>1, <1>2 DEF KeepSource, Kept, Withheld, TypeInv, Call
  <2> QED BY <1>2, <2>1, <2>2 DEF KeepSource, IInv
<1>3. CASE Rewrite
  <2>1. Called("rewrite") /\ counted' = [counted EXCEPT !["rewrite"] = @ + 1]
    BY <1>3 DEF Rewrite
  <2>2. made' \in Calls /\ made'["rewrite"] = made["rewrite"] + 1
        /\ made'["repair"] = made["repair"] + 0
        /\ made'["verifier"] = made["verifier"] + 0
    BY <1>1, <2>1, CalledTyped
  <2>3. counted' = made'
    BY <1>1, <2>1, CountedAlike
  <2>4. pc' \in {"verify", "done"} => Accounted'
    <3>1. made.rewrite \in Nat /\ made.repair \in Nat /\ made.verifier \in Nat
      BY <1>1 DEF TypeInv, Calls
    <3> QED BY <1>1, <2>2, <2>3, <3>1 DEF Accounted
  <2>5. CASE pc' = "verify" /\ \E kind \in Kinds : text' = Text(1, kind)
    <3>1. TypeInv'
      BY <1>1, <2>2, <2>5, TextTyped DEF TypeInv, Steps
    <3>2. Asked'
      BY <1>1, <1>3 DEF Rewrite, Asked
    <3> QED BY <2>4, <2>5, <3>1, <3>2 DEF IInv
  <2>6. CASE pc' = "done" /\ text' = text /\ result' = Kept(TRUE)
    <3>1. TypeInv'
      BY <1>1, <2>2, <2>6 DEF TypeInv, Steps
    <3>2. Withheld'
      BY <1>1, <1>3, <2>6 DEF Rewrite, Kept, Withheld
    <3> QED BY <2>4, <2>6, <3>1, <3>2 DEF IInv
  <2>7. CASE pc' = "raised" /\ UNCHANGED <<text, result>>
    <3>1. TypeInv'
      BY <1>1, <2>2, <2>7 DEF TypeInv, Steps
    <3>2. Accounted'
      BY <1>1, <2>2, <2>3, <2>7 DEF Accounted, TypeInv, Calls
    <3> QED BY <2>7, <3>1, <3>2 DEF IInv
  <2> QED BY <1>3, <2>5, <2>6, <2>7 DEF Rewrite
<1>4. CASE GivenCandidate
  <2>1. TypeInv'
    BY <1>1, <1>4, TextTyped DEF GivenCandidate, TypeInv, Steps
  <2>2. Accounted' /\ Asked'
    BY <1>1, <1>4 DEF GivenCandidate, Accounted, Asked, TypeInv, Call
  <2> QED BY <1>4, <2>1, <2>2 DEF GivenCandidate, IInv
<1> QED BY <1>2, <1>3, <1>4

\* The loop: an attempt, one that fails, and the end.
LEMMA LoopKeeps ==
  ASSUME IInv, Repair \/ RepairFails \/ RepairEnds
  PROVE  IInv'
<1>1. TypeInv /\ pc = "judge" /\ counted = made /\ Judged /\ Asked /\ verdict.of = text.n
      /\ made.rewrite <= 1 /\ made.repair <= tries /\ made.verifier <= 1 + tries
      /\ UNCHANGED <<call, deltas, verdict>>
  BY DEF IInv, Accounted, Repair, RepairFails, RepairEnds
<1>2. tries \in Nat /\ MaxRepairs \in Nat /\ made.rewrite \in Nat
      /\ made.repair \in Nat /\ made.verifier \in Nat
  BY <1>1, ProseAssumption DEF TypeInv, Calls
<1>3. Judged' /\ Asked'
  BY <1>1 DEF Judged, Asked, RestsOn
<1>4. ASSUME Called("repair"), counted' = [counted EXCEPT !["repair"] = @ + 1]
      PROVE  /\ counted' = made' /\ made' \in Calls /\ made'.rewrite = made.rewrite
             /\ made'.verifier = made.verifier /\ made'.repair = made.repair + 1
  <2>1. made' \in Calls /\ made'["rewrite"] = made["rewrite"] + 0
        /\ made'["repair"] = made["repair"] + 1
        /\ made'["verifier"] = made["verifier"] + 0
    BY <1>1, <1>4, CalledTyped
  <2>2. counted' = made'
    BY <1>1, <1>4, CountedAlike
  <2> QED BY <1>2, <2>1, <2>2
<1>5. CASE Repair
  <2>1. tries' = tries + 1 /\ tries < MaxRepairs /\ pc' = "verify"
        /\ Called("repair") /\ counted' = [counted EXCEPT !["repair"] = @ + 1]
    BY <1>5 DEF Repair, Repairs
  <2>2. PICK kind \in Kinds : text' = Text(tries + 2, kind)
    BY <1>5 DEF Repair
  <2>3. TypeInv'
    BY <1>1, <1>2, <1>4, <2>1, <2>2, TextTyped DEF TypeInv, Steps
  <2>4. Accounted'
    BY <1>1, <1>2, <1>4, <2>1 DEF Accounted
  <2> QED BY <1>3, <2>1, <2>3, <2>4 DEF IInv
<1>6. CASE RepairFails
  <2>1. tries' = tries + 1 /\ tries < MaxRepairs /\ pc' \in {"deliver", "raised"}
        /\ text' = text
    BY <1>6 DEF RepairFails, Repairs
  <2>2. /\ counted' = made' /\ made' \in Calls /\ made'.rewrite = made.rewrite
        /\ made'.verifier = made.verifier /\ made'.repair <= made.repair + 1
    BY <1>1, <1>2, <1>4, <1>6 DEF RepairFails, TypeInv
  <2>3. TypeInv'
    BY <1>1, <1>2, <2>1, <2>2 DEF TypeInv, Steps
  <2>4. made'.repair \in Nat
    BY <2>2 DEF Calls
  <2>5. Accounted'
    BY <1>1, <1>2, <2>1, <2>2, <2>4 DEF Accounted
  <2> QED BY <1>1, <1>3, <2>1, <2>3, <2>5 DEF IInv
<1>7. CASE RepairEnds
  <2>1. pc' = "deliver" /\ UNCHANGED <<text, tries, counted, made>>
    BY <1>7 DEF RepairEnds
  <2>2. TypeInv' /\ Accounted'
    BY <1>1, <2>1 DEF TypeInv, Steps, Accounted
  <2> QED BY <1>1, <1>3, <2>1, <2>2 DEF IInv
<1> QED BY <1>5, <1>6, <1>7

LEMMA DeliverKeeps == ASSUME IInv, Deliver PROVE IInv'
<1>1. TypeInv /\ pc = "deliver" /\ pc' = "done" /\ Accounted /\ Judged /\ Asked
      /\ verdict.of = text.n
      /\ UNCHANGED <<call, text, deltas, verdict, tries, counted, made>>
  BY DEF IInv, Deliver
<1>2. TypeInv' /\ Accounted'
  BY <1>1 DEF TypeInv, Steps, Accounted
<1>3. Judged' /\ Asked'
  BY <1>1 DEF Judged, Asked, RestsOn
<1>4. /\ result'.text = IF /\ verdict.status = "PASS"
                           /\ verdict.reason # "terminal_newline_only"
                        THEN text.n ELSE 0
      /\ result'.candidate = text.n /\ result'.fallback = (verdict.status # "PASS")
      /\ result'.status = verdict.status
  BY DEF Deliver
<1>5. Delivered'
  BY <1>1, <1>3, <1>4 DEF Delivered
<1> QED BY <1>1, <1>2, <1>5 DEF IInv

LEMMA NextIInv == IInv /\ [Next]_vars => IInv'
<1> SUFFICES ASSUME IInv, [Next]_vars PROVE IInv'
  OBVIOUS
<1>1. CASE Done \/ UNCHANGED vars
  <2>1. UNCHANGED <<call, text, deltas, verdict, tries, counted, made, result, pc>>
    BY <1>1 DEF Done, vars
  <2>2. TypeInv' /\ Accounted'
    BY <2>1 DEF IInv, TypeInv, Accounted
  <2>3. Asked' = Asked /\ Judged' = Judged /\ Withheld' = Withheld
    BY <2>1 DEF Asked, Judged, RestsOn, Withheld
  <2>4. Delivered' = Delivered
    BY <2>1, <2>3 DEF Delivered
  <2> QED BY <2>1, <2>2, <2>3, <2>4 DEF IInv
<1>2. CASE Next /\ ~Done
  BY <1>2, BeginKeeps, ChecksKeep, AssessKeeps, VerifierRaisesKeeps, LoopKeeps,
     DeliverKeeps DEF Next
<1> QED BY <1>1, <1>2

LEMMA Invariant == Spec => []IInv
BY InitIInv, NextIInv, PTL DEF Spec

-----------------------------------------------------------------------------
\* Whatever the providers return: a text other than the source is released only on
\* the reply of a verifier that was given exactly that text, answered the question,
\* and sent a report when one was asked for.
THEOREM VerifiedReleased == Spec => []ReleasedIsVerified
<1>1. IInv => ReleasedIsVerified
  <2> SUFFICES ASSUME IInv, pc = "done", call.entry = "edit", result.text # 0
               PROVE  /\ verdict.status = "PASS" /\ verdict.of = result.text
                      /\ verdict.reply \in Replies
                      /\ verdict.reply.equivalent # "unknown"
                      /\ call.strict => verdict.reply.report # <<>>
    BY DEF ReleasedIsVerified
  <2>1. Delivered
    BY DEF IInv, Withheld
  <2>2. verdict.status = "PASS" /\ verdict.of = result.text
    BY <2>1 DEF Delivered
  <2>3. RestsOn(verdict.reply)
    BY <2>1, <2>2 DEF Delivered, Judged, Asked
  <2> QED BY <2>2, <2>3 DEF RestsOn
<1> QED BY <1>1, Invariant, PTL

\* Whatever a verifier's report says of itself: if its text is released, the
\* propositions of the two texts are in one correspondence that both halves of the
\* report give, and none changes its known type or is merged with one of another.
THEOREM MappedReleased == Spec => []ReleasedIsMapped
<1>1. IInv => ReleasedIsMapped
  <2> DEFINE r == verdict.reply.report[1]
  <2> SUFFICES ASSUME IInv, pc = "done", call.entry = "edit", result.text # 0,
                      verdict.reply.report # <<>>
               PROVE  /\ Corresponds(r)
                      /\ \A pair \in Pairs(r) :
                           ~TypeBreaks(FrameOf(r.source, pair[1]),
                                       FrameOf(r.candidate, pair[2]))
                      /\ call.strict =>
                           \A first, second \in Pairs(r) :
                             first[2] = second[2] =>
                               ~TypeBreaks(FrameOf(r.source, first[1]),
                                           FrameOf(r.source, second[1]))
    BY DEF ReleasedIsMapped
  <2>1. Delivered
    BY DEF IInv, Withheld
  <2>2. RestsOn(verdict.reply)
    BY <2>1 DEF Delivered, Judged, Asked
  <2>3. Clean(r) /\ (call.strict => ~Merges(r)) /\ r \in Report
    BY <2>2, ReplyTyped DEF RestsOn
  <2> HIDE DEF r
  <2>4. Corresponds(r)
    BY <2>3, CleanCorresponds
  <2>5. \A pair \in Pairs(r) :
          ~TypeBreaks(FrameOf(r.source, pair[1]), FrameOf(r.candidate, pair[2]))
    BY <2>3 DEF Clean, Breaks
  <2>6. call.strict =>
          \A first, second \in Pairs(r) :
            first[2] = second[2] =>
              ~TypeBreaks(FrameOf(r.source, first[1]), FrameOf(r.source, second[1]))
    BY <2>3, UnmergedAgree
  <2> QED BY <2>4, <2>5, <2>6
<1> QED BY <1>1, Invariant, PTL

\* The verdict that is returned is about the text that is returned.
THEOREM VerdictMatches == Spec => []VerdictIsOfCandidate
<1>1. IInv => VerdictIsOfCandidate
  BY DEF IInv, Withheld, Delivered, VerdictIsOfCandidate
<1> QED BY <1>1, Invariant, PTL

\* The fallback flag and the flag behind the exit status never contradict each other.
THEOREM FlagsAgree == Spec => []SafeUnlessFallback
<1>1. IInv => SafeUnlessFallback
  <2> SUFFICES ASSUME IInv, pc = "done", call.entry = "edit"
               PROVE  Safe <=> ~result.fallback
    BY DEF SafeUnlessFallback
  <2>1. CASE Withheld
    BY <2>1 DEF Withheld, Safe
  <2>2. CASE Delivered
    BY <2>2 DEF Delivered, Asked, Safe
  <2> QED BY <2>1, <2>2 DEF IInv
<1> QED BY <1>1, Invariant, PTL

\* However many repairs are allowed: the calls are bounded by them, and those of an
\* edit that finished are counted once each.
THEOREM CallsCounted == Spec => []CallsAccounted
<1>1. IInv => CallsAccounted
  <2> SUFFICES ASSUME IInv PROVE CallsAccounted
    OBVIOUS
  <2>1. tries \in Nat /\ tries <= MaxRepairs /\ MaxRepairs \in Nat
        /\ made.rewrite \in Nat /\ made.repair \in Nat /\ made.verifier \in Nat
    BY ProseAssumption DEF IInv, TypeInv, Calls
  <2> QED BY <2>1 DEF IInv, Accounted, CallsAccounted
<1> QED BY <1>1, Invariant, PTL
=============================================================================
