--------------------------- MODULE MCSourceDiversity ---------------------------
(***************************************************************************)
(* SourceDiversity evaluated on every corpus of four sources with up to    *)
(* four works, and on two larger ones.                                     *)
(***************************************************************************)
EXTENDS SourceDiversity, Sequences

Word(value, status) == [value |-> value, status |-> status]

Is(w, publisher, status, stance) ==
  [work |-> w, meta |-> [publisher |-> Word(publisher, status),
                         stance |-> Word(stance, "observed")]]

\* Works are numbered in the order in which they appear.
Numberings ==
  {f \in [1..4 -> 1..4] :
     \A i \in 1..4 : f[i] = 1 \/ \E j \in 1..(i - 1) : f[i] <= f[j] + 1}

Editions4 ==
  {<<p, "observed">> : p \in {"a", "b"}} \cup {<<"c", "inferred">>}

Corpora ==
  {[i \in 1..4 |-> Is(f[i], e[i][1], e[i][2], IF i = 4 THEN "counter" ELSE "support")] :
     f \in Numberings, e \in [1..4 -> Editions4]}

ClaimSets ==
  {<<>>, <<{1}, {2}, {3}, {4}>>, <<{1, 2, 3, 4}>>, <<{1, 2}, {1, 3}, {1, 4}>>}

Requirement ==
  [dimensions |-> Dimensions, strata |-> [publisher |-> {"a"}, stance |-> {}],
   minFamilies |-> 3, maxHHI |-> <<6, 10>>, maxShare |-> <<3, 4>>,
   maxUnknown |-> <<1, 4>>, minComposite |-> <<1, 2>>,
   counter |-> TRUE, exposure |-> FALSE]

\* Where an edition of a work that is already there is found a second time, and cited
\* by some of the claims that cite the work.
Mirrored(corpus, i) == Append(corpus, corpus[i])

CitingMirror(corpus, claims, i, also) ==
  [c \in DOMAIN claims |->
     claims[c] \cup IF c \in also THEN {Len(corpus) + 1} ELSE {}]

\* The measure is the same however many copies of a work were found and cited: what a
\* mirror says about the work must be what the report already takes it to be.
ASSUME MirrorsDoNotCount ==
  \A corpus \in Corpora, claims \in ClaimSets, i \in 1..4 :
    (\A d \in Dimensions : corpus[i].meta[d] = Metadata(corpus, corpus[i].work, d)) =>
      \A also \in SUBSET {c \in DOMAIN claims :
                            claims[c] \cap Editions(corpus, corpus[i].work) # {}} :
        Raw(Mirrored(corpus, i), CitingMirror(corpus, claims, i, also), Requirement)
          = Raw(corpus, claims, Requirement)

\* A corpus passes on its families: fewer than the minimum never do, with any number of
\* sources, and neither does one whose claims rest on one family.
ASSUME PassNeedsFamilies ==
  \A corpus \in Corpora, claims \in ClaimSets :
    Raw(corpus, claims, Requirement) = "pass" =>
      /\ Cardinality(Works(corpus)) >= 3
      /\ \A w \in Works(corpus) :
           \E c \in {{}} \cup {claims[n] : n \in DOMAIN claims} :
             c = {} \/ c \cap Editions(corpus, w) = {}
               \/ \E v \in Works(corpus) \ {w} : Exposure(corpus, claims, v) > 0

\* Both verdicts occur, so that the two facts above say something.
ASSUME BothVerdicts ==
  /\ \E corpus \in Corpora, claims \in ClaimSets :
       Raw(corpus, claims, Requirement) = "pass"
  /\ \E corpus \in Corpora, claims \in ClaimSets :
       Raw(corpus, claims, Requirement) = "fail"

Thresholds ==
  [dimensions |-> {"publisher"}, strata |-> [publisher |-> {}], minFamilies |-> 5,
   maxHHI |-> <<2, 5>>, maxShare |-> <<3, 5>>, maxUnknown |-> <<1, 10>>,
   minComposite |-> <<1, 2>>, counter |-> FALSE, exposure |-> FALSE]

\* Eleven works of three publishers, of which the first may be undeclared.
Eleven(status) ==
  [i \in 1..11 |-> Is(i, IF i <= 6 THEN "a" ELSE IF i <= 9 THEN "b" ELSE "c",
                      IF i = 1 THEN status ELSE "observed", "support")]

\* With the default thresholds a corpus that fails for its concentration passes when
\* the publisher of one work is not known.
ASSUME UnknownMayHelp ==
  /\ Raw(Eleven("observed"), <<>>, Thresholds) = "fail"
  /\ Raw(Eleven("unknown"), <<>>, Thresholds) = "pass"

\* The first settled edition speaks for a work, so the order of retrieval may decide.
ASSUME OrderMayDecide ==
  \E corpus \in Corpora : \E i, j \in 1..4 :
    Raw(corpus, <<>>, Requirement) = "pass" /\
    Raw([corpus EXCEPT ![i] = corpus[j], ![j] = corpus[i]], <<>>, Requirement) = "fail"
=============================================================================
