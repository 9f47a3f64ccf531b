------------------------------- MODULE ProseEdit -------------------------------
(***************************************************************************)
(* One edit of a paragraph (swos_prose): a rewrite provider proposes a     *)
(* text, local checks and a verifier provider look for changes of meaning, *)
(* a repair provider may mend what is local, and the source is kept unless *)
(* the text in hand passes.  Providers are models behind an interface:     *)
(* what they return, and whether they raise, is theirs to choose.          *)
(***************************************************************************)
EXTENDS PropositionReport

CONSTANTS
  Findings,    \* sets of deltas that the local checks can report of a text
  Replies,     \* assessments that a verifier can return
  MaxRepairs   \* MAX_REPAIR_ATTEMPTS, 2 in the code

VARIABLES
  call,     \* the arguments of the call
  text,     \* the candidate in hand; its number 0 is the source's
  deltas,   \* the semantic deltas found so far in the candidate in hand
  verdict,  \* the last verification that was completed
  tries,    \* attempts made by the repair loop
  counted,  \* provider calls that the result will report
  made,     \* provider calls that were made
  result,   \* what the caller gets
  pc

vars == <<call, text, deltas, verdict, tries, counted, made, result, pc>>

Delta ==
  [severity : {"blocker", "warning", "info"},
   shape : {"local", "quantifier", "other"},
   repairable : BOOLEAN]

\* A reply: the top-level judgement, the provider's own deltas, its report if it sent
\* one, and whether it claims to be independent of the rewriter.
IsReply(reply) ==
  /\ reply.equivalent \in Answer /\ reply.deltas \subseteq Delta
  /\ reply.report = <<>> \/ (reply.report \in Seq(Report) /\ Len(reply.report) = 1)
  /\ reply.independent \in BOOLEAN

ASSUME ProseAssumption ==
  /\ \A f \in Findings : f \subseteq Delta
  /\ \A reply \in Replies : IsReply(reply)
  /\ MaxRepairs \in Nat

Warning == [severity |-> "warning", shape |-> "other", repairable |-> FALSE]

Blocker == [severity |-> "blocker", shape |-> "other", repairable |-> FALSE]

Kinds == {"source", "newline", "blank", "changed"}

\* No verifier was asked, or nothing that could be read came back.
NoReply ==
  [equivalent |-> "none", deltas |-> {}, report |-> <<>>, independent |-> FALSE]

Unverified ==
  [of |-> 0, status |-> "NONE", reason |-> "none", reply |-> NoReply, deltas |-> {}]

\* A candidate that returns to the source's characters is the source.
Text(n, kind) == [n |-> IF kind = "source" THEN 0 ELSE n, kind |-> kind]

-----------------------------------------------------------------------------
(* Verification of the candidate in hand. *)

\* classify_deltas
Classified(ds) ==
  CASE \E d \in ds : d.severity = "blocker" /\ ~d.repairable -> "REJECT"
    [] \E d \in ds : d.severity = "blocker" /\ d.repairable
       /\ \A e \in ds : e.severity = "blocker" => e.repairable -> "REPAIR"
    [] (\A d \in ds : d.severity # "blocker") /\ \E d \in ds : d.severity = "warning"
       -> "REVIEW"
    [] OTHER -> "PASS"

\* annotate_local_repairability: only a reviewed shape that can be located is
\* repairable, and it blocks until it is repaired.
Annotated(ds) ==
  {IF d.shape = "local" THEN [d EXCEPT !.severity = "blocker", !.repairable = TRUE]
   ELSE [d EXCEPT !.repairable = FALSE] : d \in ds}

Repairable(ds) == \A d \in ds : d.repairable

Concluded(status, reason, reply, ds) ==
  /\ verdict' = [of |-> text.n, status |-> status, reason |-> reason,
                 reply |-> reply, deltas |-> ds]
  /\ deltas' = ds
  /\ pc' = "judge"

\* verify_rewrite up to the provider: two texts without words, one without, a
\* difference in the last line ending, and then the deterministic checks.
CheckBoundary ==
  /\ pc = "verify"
  /\ \/ /\ call.blank /\ text.kind \in {"source", "newline", "blank"}
        /\ Concluded("PASS", "no_claims", NoReply, {})
     \/ /\ call.blank /\ text.kind = "changed"
        /\ Concluded("REJECT", "claim_added", NoReply, {Blocker})
     \/ /\ ~call.blank /\ text.kind = "blank"
        /\ Concluded("REJECT", "claim_removed", NoReply, {Blocker})
     \/ /\ ~call.blank /\ text.kind = "newline" /\ call.context
        /\ Concluded("PASS", "terminal_newline_only", NoReply, {})
  /\ UNCHANGED <<call, text, tries, counted, made, result>>

Boundary ==
  call.blank \/ text.kind = "blank" \/ (text.kind = "newline" /\ call.context)

\* deterministic_deltas, their annotation, context_only_deltas and the warning that
\* context out of bounds adds.
CheckLocally ==
  /\ pc = "verify" /\ ~Boundary
  /\ \E found \in IF text.kind = "source" THEN {{}} ELSE Findings :
       LET ds == Annotated(found) \cup (IF call.context THEN {} ELSE {Warning})
           status == Classified(ds)
       IN  \/ /\ text.kind = "source"
              /\ Concluded(status, "source_identical", NoReply, ds)
           \/ /\ text.kind # "source"
              /\ status \in {"REJECT", "REPAIR"}
              /\ Concluded(status, "deterministic", NoReply, ds)
           \/ /\ text.kind # "source"
              /\ status \notin {"REJECT", "REPAIR"}
              /\ ~call.context
              /\ Concluded("REVIEW", "context_safety_rejected", NoReply, ds)
           \/ /\ text.kind # "source"
              /\ status \notin {"REJECT", "REPAIR"}
              /\ call.context
              /\ deltas' = ds
              /\ pc' = "assess"
              /\ UNCHANGED verdict
  /\ UNCHANGED <<call, text, tries, counted, made, result>>

NoVerifier ==
  /\ pc = "assess" /\ ~call.verifier
  /\ LET ds == deltas \cup {Warning}
     IN  Concluded(Classified(ds), "no_verifier_bound", NoReply, ds)
  /\ UNCHANGED <<call, text, tries, counted, made, result>>

\* The deltas that the core reads in the report, or that a missing report leaves.
\* None has a shape that a repair could mend: the local checks come before.
FromReport(reply) ==
  IF reply.report = <<>>
    THEN IF call.strict THEN {Warning} ELSE {}
    ELSE {[Warning EXCEPT !.severity = severity] :
            severity \in ReportSeverities(reply.report[1], call.strict)}

\* What the provider's reply adds to, or resolves of, the deltas found locally.
WithReply(found, reply) ==
  LET reported == reply.deltas \cup FromReport(reply)
      doubted == CASE reply.equivalent = "unknown" -> {Warning}
                   [] reply.equivalent = "no" /\ reported = {} -> {Warning}
                   [] OTHER -> {}
      resolved == /\ reply.equivalent = "yes" /\ reply.independent
                  /\ reply.report # <<>> /\ ~reply.report[1].unresolved
                  /\ reported = {}
      heuristic == {d \in found : d.shape = "quantifier" /\ d.severity = "warning"}
  IN  Annotated((found \ IF resolved THEN heuristic ELSE {}) \cup reported \cup doubted)

Called(who) ==
  made' = [made EXCEPT ![who] = @ + 1]

\* Mutant: a reply that cannot be read is no objection.
AssessLeniently ==
  /\ pc = "assess" /\ call.verifier
  /\ Called("verifier")
  /\ counted' = [counted EXCEPT !.verifier = @ + 1]
  /\ \/ \E reply \in Replies :
          LET ds == WithReply(deltas, reply)
          IN  Concluded(Classified(ds), "none", reply, ds)
     \/ Concluded(Classified(deltas), "malformed_reply", NoReply, deltas)
  /\ UNCHANGED <<call, text, tries, result>>

\* Mutant: a call whose answer cannot be read is not counted.
AssessUncounted ==
  /\ pc = "assess" /\ call.verifier
  /\ Called("verifier")
  /\ \/ /\ \E reply \in Replies :
             LET ds == WithReply(deltas, reply)
             IN  Concluded(Classified(ds), "none", reply, ds)
        /\ counted' = [counted EXCEPT !.verifier = @ + 1]
     \/ LET ds == deltas \cup {Warning}
        IN  /\ Concluded(Classified(ds), "malformed_reply", NoReply, ds)
            /\ UNCHANGED counted
  /\ UNCHANGED <<call, text, tries, result>>

\* TypeError, ValueError and KeyError count as a malformed reply.
Assess ==
  /\ pc = "assess" /\ call.verifier
  /\ Called("verifier")
  /\ counted' = [counted EXCEPT !.verifier = @ + 1]
  /\ \/ \E reply \in Replies :
          LET ds == WithReply(deltas, reply)
          IN  Concluded(Classified(ds), "none", reply, ds)
     \/ LET ds == deltas \cup {Warning}
        IN  Concluded(Classified(ds), "malformed_reply", NoReply, ds)
  /\ UNCHANGED <<call, text, tries, result>>

\* Any other exception of the verifier leaves the call.
VerifierRaises ==
  /\ pc = "assess" /\ call.verifier
  /\ Called("verifier")
  /\ pc' = "raised"
  /\ UNCHANGED <<call, text, deltas, verdict, tries, counted, result>>

-----------------------------------------------------------------------------
(* edit_text and verify_rewrite_with_repair *)

Kept(fallback) ==
  [text |-> 0, candidate |-> 0, fallback |-> fallback, status |-> "NONE"]

\* The provider is not asked: no prose, context out of bounds, or a text the
\* diagnostics know to be good.
KeepSource ==
  /\ pc = "begin" /\ call.entry = "edit"
  /\ \/ call.blank
     \/ ~call.context
     \/ call.known
  /\ result' = Kept(~call.blank /\ ~call.context)
  /\ pc' = "done"
  /\ UNCHANGED <<call, text, deltas, verdict, tries, counted, made>>

Rewrite ==
  /\ pc = "begin" /\ call.entry = "edit"
  /\ ~call.blank /\ call.context /\ ~call.known
  /\ Called("rewrite")
  /\ counted' = [counted EXCEPT !.rewrite = @ + 1]
  /\ \/ /\ \E kind \in Kinds : text' = Text(1, kind)
        /\ pc' = "verify"
        /\ UNCHANGED result
     \/ /\ result' = Kept(TRUE)      \* an exception that is caught, or no candidate text
        /\ pc' = "done"
        /\ UNCHANGED text
     \/ /\ pc' = "raised"            \* any other exception leaves the call
        /\ UNCHANGED <<text, result>>
  /\ UNCHANGED <<call, deltas, verdict, tries>>

GivenCandidate ==
  /\ pc = "begin" /\ call.entry = "verify"
  /\ \E kind \in Kinds : text' = Text(1, kind)
  /\ pc' = "verify"
  /\ UNCHANGED <<call, deltas, verdict, tries, counted, made, result>>

\* The conditions under which repair_loop makes another attempt.
Repairs ==
  /\ verdict.status # "PASS" /\ call.repairer
  /\ Repairable(deltas)
  /\ tries < MaxRepairs

\* Mutant: the attempt's text is kept with the verdict on the text before it.
RepairUnverified ==
  /\ pc = "judge" /\ Repairs
  /\ tries' = tries + 1
  /\ Called("repair")
  /\ counted' = [counted EXCEPT !.repair = @ + 1]
  /\ \E kind \in Kinds : text' = Text(tries + 2, kind)
  /\ pc' = "deliver"
  /\ UNCHANGED <<call, deltas, verdict, result>>

\* A proposal that stays within the span is verified in full.
Repair ==
  /\ pc = "judge" /\ Repairs
  /\ tries' = tries + 1
  /\ Called("repair")
  /\ counted' = [counted EXCEPT !.repair = @ + 1]
  /\ \E kind \in Kinds : text' = Text(tries + 2, kind)
  /\ pc' = "verify"
  /\ UNCHANGED <<call, deltas, verdict, result>>

\* The provider raised, returned no text, or wrote outside the span; or the span
\* was not found again, and then the provider was not called.  Here too only
\* TypeError, ValueError and RuntimeError are caught.
RepairFails ==
  /\ pc = "judge" /\ Repairs
  /\ tries' = tries + 1
  /\ \/ /\ Called("repair")
        /\ counted' = [counted EXCEPT !.repair = @ + 1]
        /\ pc' \in {"deliver", "raised"}
     \/ /\ UNCHANGED <<made, counted>>
        /\ pc' = "deliver"
  /\ UNCHANGED <<call, text, deltas, verdict, result>>

\* Mutant: a doubt for want of a verifier is put to the checks again.
RepairEndsWithVerifier ==
  /\ pc = "judge" /\ ~Repairs
  /\ pc' = IF verdict.status = "REVIEW" /\ ~call.verifier THEN "verify" ELSE "deliver"
  /\ UNCHANGED <<call, text, deltas, verdict, tries, counted, made, result>>

RepairEnds ==
  /\ pc = "judge" /\ ~Repairs
  /\ pc' = "deliver"
  /\ UNCHANGED <<call, text, deltas, verdict, tries, counted, made, result>>

Deliver ==
  /\ pc = "deliver"
  /\ result' =
       [text |-> IF /\ verdict.status = "PASS"
                    /\ verdict.reason # "terminal_newline_only"
                 THEN text.n ELSE 0,
        candidate |-> text.n,
        fallback |-> verdict.status # "PASS",
        status |-> verdict.status]
  /\ pc' = "done"
  /\ UNCHANGED <<call, text, deltas, verdict, tries, counted, made>>

\* Mutant: the source that is kept for want of a rewrite is called safe.
SafeIfUnverified ==
  call.blank \/ call.known \/ result.status \in {"PASS", "NONE"}

\* PolishResult.safe_for_automatic_use, and the exit status 0 of the command line.
Safe == call.blank \/ (call.context /\ call.known) \/ result.status = "PASS"

Done == pc \in {"done", "raised"} /\ UNCHANGED vars

Call ==
  [entry : {"edit", "verify"}, blank : BOOLEAN, context : BOOLEAN, known : BOOLEAN,
   strict : BOOLEAN, verifier : BOOLEAN, repairer : BOOLEAN]

NoCalls == [rewrite |-> 0, verifier |-> 0, repair |-> 0]

Init ==
  /\ call \in Call
  /\ text = Text(0, "source")
  /\ deltas = {}
  /\ verdict = Unverified
  /\ tries = 0
  /\ counted = NoCalls /\ made = NoCalls
  /\ result = Kept(TRUE)
  /\ pc = "begin"

Next ==
  \/ KeepSource \/ Rewrite \/ GivenCandidate
  \/ CheckBoundary \/ CheckLocally \/ NoVerifier \/ Assess \/ VerifierRaises
  \/ Repair \/ RepairFails \/ RepairEnds \/ Deliver
  \/ Done

\* Calls into a provider return or raise; the loop itself waits for nothing.
Fairness == WF_vars(Next)

Spec == Init /\ [][Next]_vars /\ Fairness

-----------------------------------------------------------------------------
(* Properties *)

\* A text other than the source is released only when the last verification was of
\* exactly that text, passed, and was made by a verifier that answered: under strict
\* assurance with a report, and never with an open judgement.  What is only a
\* candidate is never taken for its verdict.
ReleasedIsVerified ==
  pc = "done" /\ call.entry = "edit" /\ result.text # 0 =>
    /\ verdict.status = "PASS" /\ verdict.of = result.text
    /\ verdict.reply \in Replies
    /\ verdict.reply.equivalent # "unknown"
    /\ call.strict => verdict.reply.report # <<>>

\* Whatever a report says of itself, the propositions of a text that is released with
\* one and those of its source are in one correspondence, which both halves of the
\* report give; no mapped pair changes its known epistemic type; and under strict
\* assurance none is merged with one of another type.
ReleasedIsMapped ==
  pc = "done" /\ call.entry = "edit" /\ result.text # 0
  /\ verdict.reply.report # <<>> =>
    LET r == verdict.reply.report[1]
    IN  /\ Corresponds(r)
        /\ \A pair \in Pairs(r) :
             ~TypeBreaks(FrameOf(r.source, pair[1]), FrameOf(r.candidate, pair[2]))
        /\ call.strict =>
             \A first, second \in Pairs(r) :
               first[2] = second[2] =>
                 ~TypeBreaks(FrameOf(r.source, first[1]), FrameOf(r.source, second[1]))

\* The verdict that is returned is about the text that is returned, also after
\* repairs and however the loop ends.
VerdictIsOfCandidate ==
  pc = "done" /\ result.status # "NONE" => verdict.of = result.candidate

\* The two ways in which a caller learns what happened, the fallback flag and the
\* flag that decides the exit status, never contradict each other.
SafeUnlessFallback ==
  pc = "done" /\ call.entry = "edit" => (Safe <=> ~result.fallback)

\* The costs are bounded and reported: each provider call of a finished edit is
\* counted once, and no edit makes more than one rewrite, two repairs and three
\* verifications.
CallsAccounted ==
  /\ made.rewrite <= 1 /\ made.repair <= MaxRepairs
  /\ made.verifier <= 1 + MaxRepairs
  /\ pc = "done" => counted = made

\* Each edit ends, with a text or with a provider's exception.
EditEnds == <>(pc \in {"done", "raised"})
=============================================================================
