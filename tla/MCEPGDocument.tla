----------------------------- MODULE MCEPGDocument -----------------------------
(***************************************************************************)
(* The graphs of small runs, and of documents that break one rule each,    *)
(* evaluated as assumptions before the run of Finalization.                *)
(***************************************************************************)
EXTENDS EPGDocument

Discipline(base) == <<base, "discipline", 0, "law">>

NamesUpTo(n) == UNION {[1..k -> {"a", "b", ""}] : k \in 0..n}

\* Two rows that may lack a claim and may cite an unknown source.
Row == [claim : {"c1", ""}, citations : {{"s1"}, {"s1", "s9"}}]

SmallRuns ==
  {[base |-> "run", sources |-> sources, rows |-> rows, arguments |-> arguments,
    stages |-> <<"research_planning", "source_retrieval">>, imaged |-> imaged,
    observations |-> observations, interpretations |-> interpretations,
    discipline |-> discipline] :
     sources \in {{}, {"s1", "s2"}}, rows \in [1..2 -> Row], arguments \in {{"", "n1"}},
     imaged \in {TRUE}, observations \in NamesUpTo(2), interpretations \in NamesUpTo(1),
     discipline \in {NoId, Discipline("law"), Discipline("")}}

Unimaged(run) == [run EXCEPT !.imaged = FALSE, !.observations = << >>, !.interpretations = << >>]

ASSUME GraphsValidExactly ==
  \A run \in SmallRuns : ValidExactly(run) /\ ValidExactly(Unimaged(run))

ASSUME ValidGraphsReadBack ==
  \A run \in SmallRuns : Valid(Build(run)) => ReadBack(Build(run))

\* A document with one relation more than a valid one.
Good ==
  Build([base |-> "run", sources |-> {"s1", "s2"}, rows |-> << >>, arguments |-> {},
         stages |-> <<"research_planning">>, imaged |-> TRUE, observations |-> <<"a">>,
         interpretations |-> << >>, discipline |-> NoId])

With(type, of) ==
  [Good EXCEPT !.relations =
     [place \in DOMAIN Good.relations \cup {<<"more">>} |->
        IF place = <<"more">> THEN Relation(type, of) ELSE Good.relations[place]]]

S(n) == <<"run", "source", 0, n>>

O(n) == <<"run", "observation", 0, n>>

Act == <<"run", "activity", 0, "image_analysis">>

ASSUME GoodIsValid == Valid(Good)

ASSUME RelationsAccepted ==
  /\ Valid(With("specializationOf", [specificEntity |-> S("s1"), generalEntity |-> S("s2")]))
  /\ Valid(With("invalidated", [entity |-> O("a")]))
  /\ Valid(With("wasStartedBy", [activity |-> Act, trigger |-> S("s1")]))
  /\ Valid(With("wasGeneratedBy", [entity |-> S("s1"), activity |-> Act]))

ASSUME RelationsRefused ==
  /\ ~Valid(With("specializationOf", [specificEntity |-> S("s1"), generalEntity |-> S("s1")]))
  /\ ~Valid(With("alternateOf", [entity1 |-> S("s2"), entity2 |-> S("s2")]))
  /\ ~Valid(With("qualifiedGeneration", [entity |-> O("a"), activity |-> Act]))
  /\ ~Valid(With("used", [entity |-> S("s1")]))
  /\ ~Valid(With("used", [entity |-> S("s1"), activity |-> S("s2")]))
  /\ ~Valid(With("used", [entity |-> S("s3"), activity |-> Act]))
  /\ ~Valid(With("wasStartedBy", [activity |-> Act, place |-> S("s3")]))
  /\ ~Valid(With("wasSeenBy", [entity |-> S("s1"), activity |-> Act]))
=============================================================================
