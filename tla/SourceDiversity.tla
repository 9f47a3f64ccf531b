---------------------------- MODULE SourceDiversity ----------------------------
(***************************************************************************)
(* source_diversity.py: sources are grouped into families, one for each    *)
(* work, whatever edition, mirror or provider they came from, and a report *)
(* measures how the families, and the claims that rest on them, are spread *)
(* over the categories of each dimension.                                  *)
(*                                                                         *)
(* A source's id is its place in the corpus.  Shares and indices are       *)
(* compared as fractions <<n, d>>, exactly.                                *)
(***************************************************************************)
EXTENDS Integers, FiniteSetsExt

CONSTANTS
  Dimensions,  \* DIMENSIONS
  HardMinimum  \* families below which a corpus fails outright

Settled == {"observed", "externally_verified"}

CounterStances == {"counter", "opposing", "rival", "contradictory"}

Lower(x, y) == x[1] * y[2] < y[1] * x[2]

Least(x, y) == IF Lower(y, x) THEN y ELSE x

ProductOver(Value(_), S) == MapThenFoldSet(LAMBDA x, y : x * y, 1, Value, LAMBDA T : CHOOSE x \in T : TRUE, S)

One == <<1, 1>>

Zero == <<0, 1>>

-----------------------------------------------------------------------------
(* Families. *)

Works(corpus) == {corpus[i].work : i \in DOMAIN corpus}

Editions(corpus, w) == {i \in DOMAIN corpus : corpus[i].work = w}

\* The first edition's word for a dimension, unless only a later one is settled.
Metadata(corpus, w, d) ==
  LET settled == {i \in Editions(corpus, w) : corpus[i].meta[d].status \in Settled}
      first == Min(IF settled = {} THEN Editions(corpus, w) ELSE settled)
  IN  corpus[first].meta[d]

Cited(claims) == UNION {claims[c] : c \in DOMAIN claims}

\* Without a cited source every family is measured.
Selected(corpus, claims) ==
  {w \in Works(corpus) :
     Cited(claims) = {} \/ Editions(corpus, w) \cap Cited(claims) # {}}

\* One edge for each claim that cites any edition of the work.
Exposure(corpus, claims, w) ==
  Cardinality({c \in DOMAIN claims : claims[c] \cap Editions(corpus, w) # {}})

-----------------------------------------------------------------------------
(* One dimension. *)

Known(corpus, works, d) ==
  {w \in works : /\ Metadata(corpus, w, d).status \in Settled
                 /\ Metadata(corpus, w, d).value # ""}

Category(corpus, w, d) == Metadata(corpus, w, d).value

\* How much of each category there is; weight: what each known family adds.
Counts(corpus, known, d, weight) ==
  LET weighed == {w \in known : weight[w] > 0}
  IN  [v \in {Category(corpus, w, d) : w \in weighed} |->
         MapThenSumSet(LAMBDA w : weight[w],
                       {w \in weighed : Category(corpus, w, d) = v})]

Total(counts) == MapThenSumSet(LAMBDA v : counts[v], DOMAIN counts)

\* _hhi: an empty count is fully concentrated.
HHI(counts) ==
  IF DOMAIN counts = {} THEN One
  ELSE <<MapThenSumSet(LAMBDA v : counts[v] * counts[v], DOMAIN counts),
         Total(counts) * Total(counts)>>

MaxShare(counts) ==
  IF DOMAIN counts = {} THEN One
  ELSE <<Max({counts[v] : v \in DOMAIN counts}), Total(counts)>>

Balance(counts) ==
  LET k == Cardinality(DOMAIN counts)
      h == HHI(counts)
  IN  IF k < 2 THEN Zero ELSE <<(h[2] - h[1]) * k, h[2] * (k - 1)>>

\* The families alone, and their edges to claims when there are claims.
DimensionCounts(corpus, claims, known, d) ==
  {Counts(corpus, known, d, [w \in known |-> 1])} \cup
  IF DOMAIN claims = {} THEN {}
  ELSE {Counts(corpus, known, d, [w \in known |-> Exposure(corpus, claims, w)])}

\* measure_source_diversity, for one dimension
Dimension(corpus, claims, req, d) ==
  LET works == Selected(corpus, claims)
      known == Known(corpus, works, d)
      counts == DimensionCounts(corpus, claims, known, d)
      balance == CHOOSE b \in {Balance(c) : c \in counts} :
                   \A other \in {Balance(c) : c \in counts} : ~Lower(other, b)
      covered == {Category(corpus, w, d) : w \in known} \cap req.strata[d]
      coverage == IF req.strata[d] = {} THEN One
                  ELSE <<Cardinality(covered), Cardinality(req.strata[d])>>
      unknown == Cardinality(works \ known)
  IN  [categories |-> {Category(corpus, w, d) : w \in known},
       balance |-> balance,
       cap |-> Least(<<Cardinality(known), Cardinality(works)>>, coverage),
       failed |->
         \/ Lower(req.maxUnknown, <<unknown, Cardinality(works)>>)
         \/ covered # req.strata[d]
         \/ \E c \in counts : Lower(req.maxShare, MaxShare(c))
         \/ \E c \in counts : Lower(req.maxHHI, HHI(c))
         \/ /\ Cardinality(works) >= req.minFamilies
            /\ Lower(balance, req.minComposite)]

-----------------------------------------------------------------------------
(* The report. *)

Applicable(req) == req.dimensions \cap Dimensions

\* Nothing to measure.
NotRun(corpus, claims, req) ==
  \/ req.exposure /\ DOMAIN claims = {}
  \/ Selected(corpus, claims) = {}
  \/ Applicable(req) = {}

\* The composite is the geometric mean of the balances, at most the lowest cap.
CompositeFails(balances, caps, minimum) ==
  LET product == <<ProductOver(LAMBDA d : balances[d][1], DOMAIN balances),
                   ProductOver(LAMBDA d : balances[d][2], DOMAIN balances)>>
      bound == <<ProductOver(LAMBDA d : minimum[1], DOMAIN balances),
                 ProductOver(LAMBDA d : minimum[2], DOMAIN balances)>>
  IN  \/ Lower(product, bound)
      \/ \E d \in DOMAIN caps : Lower(caps[d], minimum)

CounterPresent(dimension) ==
  "stance" \in DOMAIN dimension /\ dimension["stance"].categories \cap CounterStances # {}

\* raw_status
Raw(corpus, claims, req) ==
  LET families == Cardinality(Selected(corpus, claims))
      dimension == [d \in Applicable(req) |-> Dimension(corpus, claims, req, d)]
      failures == \/ req.dimensions # Applicable(req)
                  \/ \E d \in DOMAIN dimension : dimension[d].failed
                  \/ req.counter /\ ~CounterPresent(dimension)
      composite == CompositeFails([d \in DOMAIN dimension |-> dimension[d].balance],
                                  [d \in DOMAIN dimension |-> dimension[d].cap],
                                  req.minComposite)
  IN  CASE NotRun(corpus, claims, req)       -> "not_run"
        [] families < HardMinimum            -> "fail"
        [] families < req.minFamilies        -> "review_required"
        [] failures \/ composite             -> "fail"
        [] OTHER                             -> "pass"

\* A narrow-corpus exception that is valid turns a failure into a review.
Status(raw, excepted) ==
  IF excepted /\ raw = "fail" THEN "review_required" ELSE raw

DiversityReport(corpus, claims, req, excepted) ==
  Status(Raw(corpus, claims, req), excepted)
=============================================================================
