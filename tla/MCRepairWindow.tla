----------------------------- MODULE MCRepairWindow -----------------------------
(***************************************************************************)
(* Facts about repair windows, for all texts of a few tokens of some      *)
(* words, evaluated as assumptions before the run of ProseEdit.            *)
(***************************************************************************)
EXTENDS Integers, Sequences

RW == INSTANCE RepairWindow WITH
  Modals <- {"may"}, Carriers <- {"does"}, Quantifiers <- {"all", "some"},
  Auxiliaries <- {"may", "does", "is"}, Negatives <- {"unfit"}, Joints <- {","},
  Associations <- {"linked"}, Causes <- {"causes"},
  Lexemes <- {<<"fit", "fits">>}, MaxTokens <- 2

Words == {"may", "fit", "fits", "not"}

TextsUpTo(words, n) == UNION {[1..k -> words] : k \in 1..n}

DeltaOf(type, source, candidate) ==
  [type |-> type, source |-> source, candidate |-> candidate, sameAgent |-> TRUE,
   explicit |-> TRUE, offsets |-> RW!NoWindow]

\* The text before an edit, and after it, is the same in source and candidate.
Explains(a, b, w) ==
  /\ SubSeq(a, 1, w[1] - 1) = SubSeq(b, 1, w[3] - 1)
  /\ SubSeq(a, w[2] + 1, Len(a)) = SubSeq(b, w[4] + 1, Len(b))

\* A single edit is all the difference: outside it the texts agree.
ASSUME SingleEditExplains ==
  \A a, b \in TextsUpTo({"x", "y", "may"}, 3) :
    LET w == RW!SingleEdit(a, b)
    IN  w # RW!NoWindow => Explains(a, b, w)

\* A delta of modality, quantity or negation that is repairable leaves the content
\* words as they are, up to their inflection, and its window is all that a repair
\* has to replace to restore the source.
KeepsContent(a, b) ==
  LET force == {"may", "does", "is", "not", "all", "some"}
      s == RW!Without(a, force)
      t == RW!Without(b, force)
  IN  Len(s) = Len(t) /\ \A i \in 1..Len(s) : RW!SameLexeme(s[i], t[i])

Deltas ==
  {DeltaOf("modality_strengthened", "may", ""), DeltaOf("modality_weakened", "", "may"),
   DeltaOf("negation_changed", "not", ""), DeltaOf("negation_changed", "", "not")}

ASSUME RepairableKeepsContent ==
  \A a, b \in TextsUpTo(Words, 3) : \A delta \in Deltas :
    LET w == RW!Annotated(a, b, delta)
    IN  w # RW!NoWindow => KeepsContent(a, b) /\ Explains(a, b, w)

\* One text of each shape that may be repaired, and one that may not.
ASSUME ShapesRepairable ==
  /\ RW!Annotated(<<"x", "may", "fit", "y">>, <<"x", "fits", "y">>,
                  DeltaOf("modality_strengthened", "may", "")) = <<2, 3, 2, 2>>
  /\ RW!Annotated(<<"all", "x", "fit">>, <<"some", "x", "fit">>,
                  DeltaOf("quantifier_changed", "all", "some")) = <<1, 1, 1, 1>>
  /\ RW!Annotated(<<"y", "suggests", "x">>, <<"y", "proves", "x">>,
                  DeltaOf("attribution_changed", "suggests", "proves")) = <<2, 2, 2, 2>>
  /\ RW!Annotated(<<"x", "is", "linked", "y">>, <<"x", "causes", "y">>,
                  DeltaOf("causal_strength_changed", "linked", "causes")) = <<2, 3, 2, 2>>
  /\ RW!Annotated(<<"x", "is", "linked", "y">>, <<"y", "causes", "x">>,
                  DeltaOf("causal_strength_changed", "linked", "causes")) = RW!NoWindow
  /\ RW!Annotated(<<"all", "x", ",", "y">>, <<"some", "x", ",", "y">>,
                  DeltaOf("quantifier_changed", "all", "some")) = RW!NoWindow

\* A confined repair keeps what surrounds the window, if it is long enough to.
ASSUME ConfinedKeepsRest ==
  \A b, r \in TextsUpTo({"x", "y"}, 4) : \A i \in 1..Len(b) : \A j \in i..Len(b) :
    /\ RW!Confined(b, r, <<i, j, i, j>>)
    /\ Len(r) >= Len(b) - (j - i + 1)
    => Explains(b, r, <<i, j, i, Len(r) - (Len(b) - j)>>)

\* Where prefix and suffix overlap, a shorter text passes for confined.
ASSUME OverlapPasses ==
  RW!Confined(<<"x", "a", "may", "a", "y">>, <<"x", "a", "y">>, <<3, 3, 3, 3>>)
=============================================================================
