------------------------------ MODULE RepairWindow ------------------------------
(***************************************************************************)
(* Which semantic delta may be repaired, and where (repair.py,             *)
(* annotate_local_repairability and the repair's confinement): operators   *)
(* on texts.  A text is a sequence of tokens, one clause with its full     *)
(* stop left out; positions are of tokens, not of characters.              *)
(*                                                                         *)
(* A delta has a type, the markers it names ("" for none), whether its     *)
(* attribution names one agent twice, whether its explanation says         *)
(* "explicit weak modal", and offsets or none.  A window is                *)
(* <<i1, i2, j1, j2>>: the tokens i1..i2 of the source, j1..j2 of the      *)
(* candidate.                                                              *)
(***************************************************************************)
EXTENDS Integers, SequencesExt

CONSTANTS
  Modals, Carriers, Quantifiers, Auxiliaries,  \* vocabularies of the code
  Negatives,  \* words with a negative prefix
  Joints,     \* tokens at which a clause ends
  Associations, Causes,  \* verbs of the two relation shapes
  Lexemes     \* pairs of inflections of one word

CONSTANT
  MaxTokens   \* MAX_REPAIR_SPAN_TOKENS

Slice(text, i, j) == SubSeq(text, i, j)

NoWindow == <<0, 0, 0, 0>>

-----------------------------------------------------------------------------
(* difflib: the longest block of equal tokens, the earliest in the source,   *)
(* then in the candidate, and so on to its left and to its right.            *)

EqualFor(a, b, i, j, k) == \A n \in 0..(k - 1) : a[i + n] = b[j + n]

\* Blocks of equal tokens of a in i1..i2 and of b in j1..j2.
BlocksIn(a, b, i1, i2, j1, j2) ==
  {<<i, j, k>> \in (i1..i2) \X (j1..j2) \X (1..Len(a)) :
     i + k - 1 <= i2 /\ j + k - 1 <= j2 /\ EqualFor(a, b, i, j, k)}

Before(x, y) ==
  \/ x[3] > y[3]
  \/ x[3] = y[3] /\ x[1] < y[1]
  \/ x[3] = y[3] /\ x[1] = y[1] /\ x[2] <= y[2]

\* The pairs of positions that difflib matches.
Matched(a, b) ==
  LET match[i1 \in 1..(Len(a) + 1), i2 \in 0..Len(a),
            j1 \in 1..(Len(b) + 1), j2 \in 0..Len(b)] ==
        LET blocks == BlocksIn(a, b, i1, i2, j1, j2)
        IN  IF blocks = {} THEN {}
            ELSE LET m == CHOOSE x \in blocks : \A y \in blocks : Before(x, y)
                 IN  {<<m[1] + n, m[2] + n>> : n \in 0..(m[3] - 1)}
                       \cup match[i1, m[1] - 1, j1, m[2] - 1]
                       \cup match[m[1] + m[3], i2, m[2] + m[3], j2]
  IN  match[1, Len(a), 1, Len(b)]

\* get_opcodes without the equal ones: the gaps between matched pairs.
Edits(a, b) ==
  LET pairs == Matched(a, b) \cup {<<0, 0>>, <<Len(a) + 1, Len(b) + 1>>}
      next(p) == {q \in pairs : q[1] > p[1]
                              /\ \A r \in pairs : r[1] > p[1] => q[1] <= r[1]}
  IN  {w \in {<<p[1] + 1, q[1] - 1, p[2] + 1, q[2] - 1>> :
                <<p, q>> \in {<<p, q>> \in pairs \X pairs : q \in next(p)}} :
         w[1] <= w[2] \/ w[3] <= w[4]}

Short(w) == w[2] - w[1] + 1 <= MaxTokens /\ w[4] - w[3] + 1 <= MaxTokens

\* _single_lexical_edit
SingleEdit(a, b) ==
  IF \E w \in Edits(a, b) : Edits(a, b) = {w} /\ Short(w)
    THEN CHOOSE w \in Edits(a, b) : TRUE
    ELSE NoWindow

-----------------------------------------------------------------------------
(* The reviewed shapes, on the tokens x that the edit takes away and the     *)
(* tokens y that it puts there.                                              *)

Among(text, words) == SelectSeq(text, LAMBDA t : t \in words)

Without(text, words) == SelectSeq(text, LAMBDA t : t \notin words)

SameLexeme(s, t) == s = t \/ <<s, t>> \in Lexemes \/ <<t, s>> \in Lexemes

SingleClause(text) == Among(text, Joints) = << >>

ModalEditOnly(delta, x, y) ==
  LET stronger == delta.type = "modality_strengthened"
      modal    == IF stronger THEN x ELSE y
      bare     == IF stronger THEN y ELSE x
      rest     == Without(modal, Modals)
      other    == Without(bare, Modals)
  IN  /\ Len(Among(modal, Modals)) = 1 /\ Among(bare, Modals) = << >>
      /\ IF rest = << >>
           THEN other = << >> \/ (Len(other) = 1 /\ other[1] \in Carriers)
           ELSE Len(rest) = 1 /\ Len(other) = 1 /\ SameLexeme(rest[1], other[1])

QuantifierEditOnly(marker, x, y) ==
  /\ x = <<marker>>
  /\ y = << >> \/ (Len(y) = 1 /\ y[1] \in Quantifiers)

Content(text) == Without(text, Auxiliaries \cup {"not"})

NegationEditOnly(x, y) ==
  /\ {Len(Among(x, {"not"})), Len(Among(y, {"not"}))} = {0, 1}
  /\ \/ Content(x) = << >> /\ Content(y) = << >>
     \/ /\ Len(Content(x)) = 1 /\ Len(Content(y)) = 1
        /\ SameLexeme(Content(x)[1], Content(y)[1])

Denials(text) ==
  {i \in 1..(Len(text) - 1) : text[i] \in Auxiliaries /\ text[i + 1] = "not"}

DoubledDenial(text) ==
  \E i \in 1..(Len(text) - 1) : text[i] = "not" /\ text[i + 1] \in Negatives

Copulas == {"is", "are", "was", "were"}

\* Subject and object of a text around the first verb of one class; before an
\* association stands a copula, before a cause there may be one.
Roles(text, verbs, passive) ==
  LET linked(i) == i > 2 /\ text[i - 1] \in Copulas
      places == {i \in 2..(Len(text) - 1) :
                   text[i] \in verbs /\ (passive => linked(i))}
  IN  IF places = {} THEN << >>
      ELSE LET v == Min(places)
               s == IF linked(v) THEN v - 2 ELSE v - 1
           IN  <<Slice(text, 1, s), Slice(text, v + 1, Len(text))>>

CausalEditOnly(source, candidate, x, y) ==
  /\ Roles(source, Associations, TRUE) # << >>
  /\ Roles(source, Associations, TRUE) = Roles(candidate, Causes, FALSE)
  /\ Among(x, Associations) # << >> /\ Among(y, Causes) # << >>

ReviewedShape(source, candidate, delta) ==
  LET w == SingleEdit(source, candidate)
      x == Slice(source, w[1], w[2])
      y == Slice(candidate, w[3], w[4])
  IN  /\ SingleClause(source) /\ SingleClause(candidate)
      /\ w # NoWindow
      /\ CASE delta.type = "modality_strengthened" ->
                delta.source \in Modals /\ delta.explicit /\ ModalEditOnly(delta, x, y)
           [] delta.type = "modality_weakened" ->
                delta.candidate \in Modals /\ delta.explicit /\ ModalEditOnly(delta, x, y)
           [] delta.type = "quantifier_changed" ->
                /\ delta.source \in Quantifiers
                /\ delta.candidate # delta.source
                /\ QuantifierEditOnly(delta.source, x, y)
           [] delta.type = "attribution_changed" ->
                /\ "" \notin {delta.source, delta.candidate}
                /\ delta.sameAgent /\ delta.source # delta.candidate
                /\ x = <<delta.source>> /\ y = <<delta.candidate>>
           [] delta.type = "negation_changed" ->
                /\ {Cardinality(Denials(source)), Cardinality(Denials(candidate))} = {0, 1}
                /\ ~DoubledDenial(source) /\ ~DoubledDenial(candidate)
                /\ \A n \in Negatives : Among(source, {n}) = Among(candidate, {n})
                /\ NegationEditOnly(x, y)
           [] delta.type = "causal_strength_changed" ->
                CausalEditOnly(source, candidate, x, y)
           [] OTHER -> FALSE

-----------------------------------------------------------------------------
(* locate_span *)

\* _unique: the one place of a marker, 0 without one.
Place(text, marker) ==
  IF marker # "" /\ Len(Among(text, {marker})) = 1 THEN SelectInSeq(text, LAMBDA t : t = marker)
  ELSE 0

\* What deletes tokens takes a neighbour that both texts have into its window.
Widened(source, candidate, w) ==
  IF w[3] <= w[4] THEN w
  ELSE IF /\ w[4] < Len(candidate) /\ w[2] < Len(source)
          /\ source[w[2] + 1] = candidate[w[4] + 1]
    THEN <<w[1], w[2] + 1, w[3], w[4] + 1>>
  ELSE IF w[3] > 1 /\ w[1] > 1 /\ source[w[1] - 1] = candidate[w[3] - 1]
    THEN <<w[1] - 1, w[2], w[3] - 1, w[4]>>
  ELSE NoWindow

\* _aligned_span: the edit around the marker at a place of the source.
Aligned(source, candidate, place) ==
  LET around == {w \in Edits(source, candidate) : w[1] <= place /\ place <= w[2]}
  IN  IF \E w \in around : around = {w} /\ Short(w)
        THEN LET w == Widened(source, candidate, CHOOSE v \in around : TRUE)
             IN  IF Short(w) THEN w ELSE NoWindow
        ELSE NoWindow

\* offsets is a window that the verifier named and that fits the texts.
LocateSpan(source, candidate, delta) ==
  LET place   == Place(source, delta.source)
      other   == Place(candidate, delta.candidate)
      aligned == IF place = 0 THEN NoWindow ELSE Aligned(source, candidate, place)
  IN  IF delta.offsets # NoWindow /\ Short(delta.offsets) THEN delta.offsets
      ELSE IF aligned # NoWindow /\ (other = 0 \/ other \in aligned[3]..aligned[4])
        THEN aligned
      ELSE IF place # 0 /\ other # 0 THEN <<place, place, other, other>>
      ELSE NoWindow

\* annotate_local_repairability: the window of a repairable delta, or none.
Annotated(source, candidate, delta) ==
  IF ReviewedShape(source, candidate, delta)
    THEN LocateSpan(source, candidate, delta)
    ELSE NoWindow

-----------------------------------------------------------------------------
(* _confined_middle: what a repaired text has in place of the window.        *)

Confined(candidate, repaired, w) ==
  LET prefix == Slice(candidate, 1, w[3] - 1)
      suffix == Slice(candidate, w[4] + 1, Len(candidate))
      middle == Slice(repaired, Len(prefix) + 1, Len(repaired) - Len(suffix))
  IN  /\ IsPrefix(prefix, repaired) /\ IsSuffix(suffix, repaired)
      /\ middle # Slice(candidate, w[3], w[4])
      /\ Len(middle) <= 2 * MaxTokens
=============================================================================
