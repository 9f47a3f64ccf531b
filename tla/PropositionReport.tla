--------------------------- MODULE PropositionReport ---------------------------
(***************************************************************************)
(* The report that a semantic verifier sends with its judgement: the       *)
(* propositions it read in the source and in the candidate, what became of *)
(* each of the first and what licenses each of the second.  The core       *)
(* trusts none of it: it compares the report with itself and with what its *)
(* own narrow parsers read in the propositions' texts.                     *)
(*                                                                         *)
(* A proposition has its id, what the core reads in its text (by, relation,*)
(* time, context: empty where it reads nothing) and the frame the provider *)
(* gave it.  A mapping is of one proposition, to a set of others.  again:  *)
(* it names one of them twice, so that it is not taken for one to one.     *)
(***************************************************************************)
EXTENDS Naturals, Sequences

Answer == {"yes", "no", "unknown"}

Frame ==
  [subject : STRING, relation : STRING, object : STRING, sign : STRING,
   by : Seq(STRING), modality : STRING, scope : STRING, force : STRING,
   time : STRING, stance : STRING, claim : STRING, epistemic : STRING]

\* by = <<agent, act>>, relation = <<subject, relation, object, sign>> and
\* time = <<earlier, later>> are what the core reads.
Proposition ==
  [id : STRING, by : Seq(STRING), relation : Seq(STRING), time : Seq(STRING),
   context : STRING, frame : Frame]

\* lost: the dimensions answered with false; one that is left open is not held
\* against a mapping.
Forward ==
  [of : STRING, to : SUBSET STRING, again : BOOLEAN, preserved : Answer,
   lost : SUBSET STRING, reversed : BOOLEAN]

Backward ==
  [of : STRING, to : SUBSET STRING, again : BOOLEAN, licensed : Answer, new : Answer]

Report ==
  [source : Seq(Proposition), candidate : Seq(Proposition), forward : Seq(Forward),
   backward : Seq(Backward), unresolved : BOOLEAN]

Ids(props) == {props[i].id : i \in DOMAIN props}

Keys(maps) == {maps[i].of : i \in DOMAIN maps}

\* The last entry counts, as in a Python dictionary.
LastWith(seq, key, id) ==
  seq[CHOOSE i \in DOMAIN seq :
        seq[i][key] = id /\ \A j \in DOMAIN seq : seq[j][key] = id => j <= i]

PropOf(props, id) == LastWith(props, "id", id)

MapOf(maps, id) == LastWith(maps, "of", id)

Repeats(seq, key) == \E i, j \in DOMAIN seq : i # j /\ seq[i][key] = seq[j][key]

-----------------------------------------------------------------------------
(* A proposition's frame against the core's reading of its text. *)

\* The provider framed the report of a claim instead of the claim.
FramesReport(p) == p.by # <<>> /\ p.frame.relation = p.by[2]

SignDiffers(p) == p.relation # <<>> /\ p.relation[4] # "neutral"
                  /\ p.frame.sign # p.relation[4]

Mismatched(p) ==
  \/ /\ FramesReport(p)
     /\ \/ p.frame.subject \notin {"none", p.by[1]}
        \/ p.frame.object # "claim"
        \/ SignDiffers(p)
  \/ /\ ~FramesReport(p) /\ p.relation # <<>>
     /\ \/ p.frame.subject \notin {"none", p.relation[1]}
        \/ p.frame.relation \notin {"none", p.relation[2]}
        \/ p.frame.object \notin {"none", p.relation[3]}
        \/ SignDiffers(p)
  \/ p.by # <<>> /\ p.frame.by # p.by

SameRelation(p, q) ==
  p.relation # <<>> /\ q.relation # <<>> /\ p.relation[2] = q.relation[2]

Swapped(p, q) == p.relation[1] = q.relation[3] /\ p.relation[3] = q.relation[1]

Supports(p) ==
  (p.frame.relation = p.relation[2] \/ FramesReport(p)) /\ ~Mismatched(p)

\* All the relations that the core can read are symmetric.
SymmetricSwap(p, q) ==
  /\ SameRelation(p, q) /\ p.relation[4] = q.relation[4] /\ Swapped(p, q)
  /\ Supports(p) /\ Supports(q)

-----------------------------------------------------------------------------
(* A source proposition p and a candidate proposition q that is all p is mapped to. *)

CoreBreaks(p, q) ==
  IF p.time # <<>> /\ q.time # <<>> THEN p.time # q.time
  ELSE /\ SameRelation(p, q)
       /\ \/ p.relation[4] # q.relation[4]
          \/ Swapped(p, q) /\ p.relation[1] # p.relation[3] /\ ~SymmetricSwap(p, q)

Conflict(a, b) == a # "none" /\ b # "none" /\ a # b

FrameBreaks(f, g) ==
  \/ Conflict(f.force, g.force) \/ Conflict(f.time, g.time)
  \/ Conflict(f.stance, g.stance) \/ Conflict(f.sign, g.sign)
  \/ f.by # g.by

FrameDoubts(f, g) ==
  /\ f.modality # "none" \/ g.modality # "none"
  /\ \/ "none" \in {f.scope, g.scope}
     \/ f.scope # g.scope
     \/ f.modality # g.modality

\* Claim and epistemic types, for every mapped pair.
Unknown == {"none", "unknown"}

TypeBreaks(f, g) ==
  f.epistemic # g.epistemic /\ {f.epistemic, g.epistemic} \cap Unknown = {}

TypeDoubts(f, g) ==
  \/ f.claim # g.claim
  \/ f.epistemic # g.epistemic /\ {f.epistemic, g.epistemic} \cap Unknown # {}

-----------------------------------------------------------------------------
(* The report as a whole. *)

\* The entries whose proposition is known, by proposition, and their pairs.
Mapped(r) == Ids(r.source) \cap Keys(r.forward)

Licensed(r) == Ids(r.candidate) \cap Keys(r.backward)

Goes(r, s) == MapOf(r.forward, s)

Comes(r, c) == MapOf(r.backward, c)

UnknownIds(r) ==
  \/ \E i \in DOMAIN r.forward : r.forward[i].of \notin Ids(r.source)
                                 \/ ~(r.forward[i].to \subseteq Ids(r.candidate))
  \/ \E i \in DOMAIN r.backward : r.backward[i].of \notin Ids(r.candidate)
                                  \/ ~(r.backward[i].to \subseteq Ids(r.source))

Repeated(r) ==
  \/ Repeats(r.source, "id") \/ Repeats(r.candidate, "id")
  \/ Repeats(r.forward, "of") \/ Repeats(r.backward, "of")

\* Each direction is compared where the other has an entry; not at all when
\* there are unknown ids.
OneWay(r) ==
  /\ ~UnknownIds(r)
  /\ \/ \E s \in Mapped(r) : \E c \in Goes(r, s).to \cap Licensed(r) :
          s \notin Comes(r, c).to
     \/ \E c \in Licensed(r) : \E s \in Comes(r, c).to \cap Mapped(r) :
          c \notin Goes(r, s).to

\* One id is named, once.
Unit(mapping) == ~mapping.again /\ \E x \in mapping.to : mapping.to = {x}

Single(r, s) == Unit(Goes(r, s)) /\ Goes(r, s).to \subseteq Ids(r.candidate)

Only(r, s) == PropOf(r.candidate, CHOOSE c \in Ids(r.candidate) : Goes(r, s).to = {c})

\* A proposition in a reviewed context must be mapped one to one.
ContextSpread(r, s) ==
  LET known == Goes(r, s).to \cap Ids(r.candidate)
  IN  /\ \/ PropOf(r.source, s).context # "none"
         \/ \E c \in known : PropOf(r.candidate, c).context # "none"
      /\ ~Unit(Goes(r, s)) \/ \E c \in known \cap Keys(r.backward) : ~Unit(Comes(r, c))

\* Mutant: a source proposition without a mapping is passed over.
GapsUnseen(r) ==
  \/ (r.source = <<>>) # (r.candidate = <<>>)
  \/ OneWay(r)
  \/ \E s \in Mapped(r) : Goes(r, s).preserved = "yes" /\ Goes(r, s).to = {}
  \/ \E c \in Licensed(r) : /\ Comes(r, c).licensed = "yes" /\ Comes(r, c).new = "no"
                            /\ Comes(r, c).to = {}

\* What blocks under strict assurance and is doubtful otherwise.
Gaps(r) ==
  \/ (r.source = <<>>) # (r.candidate = <<>>)
  \/ OneWay(r)
  \/ Ids(r.source) # Mapped(r)
  \/ \E s \in Mapped(r) : Goes(r, s).preserved = "yes" /\ Goes(r, s).to = {}
  \/ \E c \in Licensed(r) : /\ Comes(r, c).licensed = "yes" /\ Comes(r, c).new = "no"
                            /\ Comes(r, c).to = {}

Pairs(r) ==
  {pair \in Ids(r.source) \X Ids(r.candidate) :
     \E i \in DOMAIN r.forward :
       r.forward[i].of = pair[1] /\ pair[2] \in r.forward[i].to}

FrameOf(props, id) == PropOf(props, id).frame

Breaks(r) ==
  \/ \E s \in Mapped(r) :
       LET p == PropOf(r.source, s)
       IN  \/ Goes(r, s).preserved = "no" \/ Goes(r, s).lost # {}
           \/ /\ Goes(r, s).reversed
              /\ Single(r, s) => ~SymmetricSwap(p, Only(r, s))
           \/ /\ Single(r, s)
              /\ CoreBreaks(p, Only(r, s)) \/ FrameBreaks(p.frame, Only(r, s).frame)
  \/ Ids(r.candidate) # Licensed(r)
  \/ \E c \in Licensed(r) : Comes(r, c).licensed = "no" \/ Comes(r, c).new = "yes"
  \/ \E pair \in Pairs(r) :
       TypeBreaks(FrameOf(r.source, pair[1]), FrameOf(r.candidate, pair[2]))

\* A candidate proposition that merges sources of different known types.
Merges(r) ==
  \E i \in DOMAIN r.backward :
    LET m == r.backward[i]
        sources == {FrameOf(r.source, s) : s \in m.to \cap Ids(r.source)}
    IN  /\ m.of \in Ids(r.candidate)
        /\ \E f, g \in sources :
             \/ f.claim # g.claim /\ {f.claim, g.claim} \cap Unknown = {}
             \/ TypeBreaks(f, g)

Doubts(r) ==
  \/ Repeated(r) \/ UnknownIds(r) \/ r.unresolved
  \/ r.source = <<>> /\ r.candidate = <<>>
  \/ \E i \in DOMAIN r.source : Mismatched(r.source[i])
  \/ \E i \in DOMAIN r.candidate : Mismatched(r.candidate[i])
  \/ \E s \in Mapped(r) :
       \/ Goes(r, s).preserved = "unknown" \/ ContextSpread(r, s)
       \/ /\ Single(r, s)
          /\ \/ PropOf(r.source, s).context # Only(r, s).context
             \/ FrameDoubts(FrameOf(r.source, s), Only(r, s).frame)
  \/ \E c \in Licensed(r) : /\ Comes(r, c).licensed # "no" /\ Comes(r, c).new # "yes"
                            /\ "unknown" \in {Comes(r, c).licensed, Comes(r, c).new}
  \/ \E pair \in Pairs(r) :
       TypeDoubts(FrameOf(r.source, pair[1]), FrameOf(r.candidate, pair[2]))

\* deltas_from_proposition_report and coverage_deltas: the severities they add.
ReportSeverities(r, strict) ==
  (IF Breaks(r) \/ (strict /\ Gaps(r)) THEN {"blocker"} ELSE {})
  \cup (IF Doubts(r) \/ (~strict /\ Gaps(r)) \/ (strict /\ Merges(r)) THEN {"warning"}
        ELSE {})

-----------------------------------------------------------------------------
(* What a report that adds nothing shows. *)

\* Each proposition of the one text corresponds to some of the other, and the two
\* directions are one and the same correspondence.
Corresponds(r) ==
  /\ \A s \in Ids(r.source) : \E c \in Ids(r.candidate) : <<s, c>> \in Pairs(r)
  /\ \A c \in Ids(r.candidate) : \E s \in Ids(r.source), j \in DOMAIN r.backward :
       r.backward[j].of = c /\ s \in r.backward[j].to
  /\ \A s \in Ids(r.source), c \in Ids(r.candidate) :
       <<s, c>> \in Pairs(r)
       <=> \E j \in DOMAIN r.backward : r.backward[j].of = c /\ s \in r.backward[j].to
=============================================================================
