----------------------------- MODULE MCProseEdit -----------------------------
EXTENDS ProseEdit, MCRepairWindow

D(severity, shape, repairable) ==
  [severity |-> severity, shape |-> shape, repairable |-> repairable]

\* Nothing; a local defect, alone and beside one that is not; a quantifier the
\* heuristics doubt; a change that cannot be mended.
SomeFindings ==
  {{}, {D("warning", "local", FALSE)}, {D("warning", "quantifier", FALSE)},
   {D("warning", "local", FALSE), D("warning", "quantifier", FALSE)},
   {D("blocker", "other", FALSE)}}

-----------------------------------------------------------------------------
(* Reports *)

Blank ==
  [subject |-> "none", relation |-> "none", object |-> "none", sign |-> "none",
   by |-> <<>>, modality |-> "none", scope |-> "none", force |-> "none",
   time |-> "none", stance |-> "none", claim |-> "none", epistemic |-> "none"]

Plain(id) ==
  [id |-> id, by |-> <<>>, relation |-> <<>>, time |-> <<>>, context |-> "none",
   frame |-> Blank]

F(s, to) ==
  [of |-> s, to |-> to, again |-> FALSE, preserved |-> "yes", lost |-> {},
   reversed |-> FALSE]

B(c, to) == [of |-> c, to |-> to, again |-> FALSE, licensed |-> "yes", new |-> "no"]

R(source, candidate, forward, backward) ==
  [source |-> source, candidate |-> candidate, forward |-> forward,
   backward |-> backward, unresolved |-> FALSE]

\* Two propositions on each side, each mapped or left out.
Maps(Of(_, _), x, choices) == {<<>>} \cup {<<Of(x, to)>> : to \in choices}

Graphs ==
  {R(<<Plain("s1"), Plain("s2")>>, <<Plain("c1"), Plain("c2")>>, f1 \o f2, b1 \o b2) :
     f1 \in Maps(F, "s1", {{}, {"c1"}, {"c1", "c2"}}),
     f2 \in Maps(F, "s2", {{"c1", "c2"}}),
     b1 \in Maps(B, "c1", {{"s1"}, {"s1", "s2"}}),
     b2 \in Maps(B, "c2", {{"s2"}, {"s1", "s2"}})}

\* One proposition on each side, read and framed in different ways.
Linked(id, left, right, sign) ==
  [Plain(id) EXCEPT !.relation = <<left, "linked to", right, sign>>]

Framed(p) ==
  [p EXCEPT !.frame.subject = p.relation[1], !.frame.relation = p.relation[2],
            !.frame.object = p.relation[3], !.frame.sign = p.relation[4]]

Variants(id) ==
  {Linked(id, "b", "a", "neutral"), Framed(Linked(id, "a", "b", "neutral")),
   Framed(Linked(id, "b", "a", "neutral")),
   [Linked(id, "a", "b", "positive") EXCEPT !.frame.sign = "negative"],
   [Plain(id) EXCEPT !.by = <<"chen", "report">>, !.frame.by = <<"chen", "report">>],
   [Plain(id) EXCEPT !.context = "observed"],
   [Plain(id) EXCEPT !.frame.modality = "may"]}

OneToOne(p, c, f, b) == R(<<p>>, <<c>>, <<f>>, <<b>>)

Readings ==
  {OneToOne(p, c, F("s1", {"c1"}), B("c1", {"s1"})) :
     p \in Variants("s1"), c \in Variants("c1")}

\* A source of each type, merged.
Merged ==
  {R(<<[Plain("s1") EXCEPT !.frame.epistemic = e1],
       [Plain("s2") EXCEPT !.frame.epistemic = e2]>>,
     <<[Plain("c1") EXCEPT !.frame.epistemic = e3]>>,
     <<F("s1", {"c1"}), F("s2", {"c1"})>>, <<B("c1", {"s1", "s2"})>>) :
     e1, e2, e3 \in {"unknown", "normative", "empirical"}}

\* The rest of what can be wrong with a report of plain propositions.
Flawed ==
  {OneToOne(Plain("s1"), Plain("c1"), [F("s1", {"c1"}) EXCEPT !.preserved = "unknown"],
            B("c1", {"s1"})),
   OneToOne(Plain("s1"), Plain("c1"), [F("s1", {"c1"}) EXCEPT !.lost = {"scope"}],
            B("c1", {"s1"})),
   OneToOne(Plain("s1"), Plain("c1"), [F("s1", {"c1"}) EXCEPT !.reversed = TRUE],
            B("c1", {"s1"})),
   OneToOne(Plain("s1"), Plain("c1"), F("s1", {"c1"}),
            [B("c1", {"s1"}) EXCEPT !.new = "unknown"]),
   OneToOne(Plain("s1"), Plain("c1"), F("s1", {"c1", "c9"}), B("c1", {"s1"})),
   OneToOne(Plain("s1"), [Plain("c1") EXCEPT !.frame.force = "causal"],
            [F("s1", {"c1"}) EXCEPT !.again = TRUE], B("c1", {"s1"})),
   OneToOne([Plain("s1") EXCEPT !.context = "observed"], Plain("c1"), F("s1", {"c1"}),
            [B("c1", {"s1"}) EXCEPT !.again = TRUE]),
   R(<<Plain("s1"), Plain("s1")>>, <<Plain("c1")>>, <<F("s1", {"c1"})>>, <<B("c1", {"s1"})>>),
   R(<<>>, <<>>, <<>>, <<>>), R(<<>>, <<Plain("c1")>>, <<>>, <<B("c1", {})>>),
   [OneToOne(Plain("s1"), Plain("c1"), F("s1", {"c1"}), B("c1", {"s1"}))
      EXCEPT !.unresolved = TRUE]}

-----------------------------------------------------------------------------
Reply(equivalent, ds, report, independent) ==
  [equivalent |-> equivalent, deltas |-> ds, report |-> report,
   independent |-> independent]

Good == OneToOne(Plain("s1"), Plain("c1"), F("s1", {"c1"}), B("c1", {"s1"}))

\* Agreement with and without a report, doubt, and objections: of a local shape, of
\* another shape that the provider calls repairable, and as a remark.
SomeReplies ==
  {Reply("yes", {}, <<r>>, TRUE) : r \in Graphs \cup Readings \cup Merged \cup Flawed}
  \cup {Reply("yes", {}, report, FALSE) : report \in {<<>>, <<Good>>}}
  \cup {Reply(equivalent, ds, <<Good>>, TRUE) :
          equivalent \in {"no", "unknown"},
          ds \in {{}, {D("info", "local", FALSE)}, {D("info", "other", FALSE)},
                  {D("warning", "other", TRUE)}}}
=============================================================================
