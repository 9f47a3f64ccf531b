-------------------------- MODULE MCImageCapability --------------------------
(* Images and their analysis, rights alone with more assets, or the promotion  *)
(* of the capability: they share the clock, and a behaviour is one of them.    *)
EXTENDS ImageAnalysis, Promotion

VARIABLE part

Forever(status) == [status |-> status, until |-> 0]

Rights(look, derive, export) ==
  [a \in Actions |-> CASE a = "look"   -> look
                       [] a = "derive" -> derive
                       [] OTHER        -> export]

\* All allowed; export denied, unknown or lapsing; nothing to be looked at.
SomeOffers ==
  {Rights(Forever("allowed"), Forever("allowed"), Forever("denied")),
   Rights(Forever("allowed"), Forever("unknown"), [status |-> "allowed", until |-> 2]),
   Rights(Forever("denied"), Forever("allowed"), Forever("allowed"))}

Given(status, until, evidenced) ==
  [status |-> status, until |-> until, evidenced |-> evidenced]

\* No grant; export granted without and with evidence, longer, withdrawn, and only
\* given another date.
SomeGrants ==
  {<<>>,
   [a \in {"export"} |-> Given("allowed", 3, FALSE)],
   [a \in {"export", "derive"} |-> Given("allowed", 0, TRUE)],
   [a \in {"export"} |-> Given("denied", 0, TRUE)],
   [a \in {"export"} |-> Given("absent", 3, FALSE)]}

SomeClaims ==
  {[object |-> "urn", asset |-> 0, kind |-> "visual"],
   [object |-> "any", asset |-> 1, kind |-> "attribution"]}

SomeCanvases ==
  {[digested |-> TRUE, sized |-> TRUE], [digested |-> FALSE, sized |-> TRUE]}

-----------------------------------------------------------------------------
SideOf(one, two, judged) ==
  [scores |-> [c \in {1, 2} |-> IF c = 1 THEN one ELSE two], judged |-> judged]

NoCases == [scores |-> <<>>, judged |-> {}]

Evidence(base, cand) ==
  [gated |-> TRUE, base |-> base, cand |-> cand, drawn |-> TRUE, manifest |-> TRUE,
   paired |-> TRUE, gain |-> 0, lower |-> FALSE, sound |-> TRUE, until |-> 0]

Better == Evidence(SideOf(1, 1, {1, 2}), SideOf(3, 2, {1, 2}))

\* Better evidence, and evidence with one thing missing.
SomePairs ==
  {Better,
   [Better EXCEPT !.until = 2],
   [Better EXCEPT !.cand.judged = {1}],
   Evidence(SideOf(1, 2, {1, 2}), SideOf(3, 1, {1, 2})),
   [Evidence(NoCases, NoCases) EXCEPT !.gain = 2, !.lower = TRUE],
   [Evidence(NoCases, NoCases) EXCEPT !.gated = FALSE, !.gain = 2, !.lower = TRUE]}

-----------------------------------------------------------------------------
mcVars == <<part, mediaVars, promotionVars>>

MCInit == part \in {"media", "rights", "promotion"} /\ MediaInit /\ PromotionInit

\* Bounds: where images are analysed there are two assets and two observations,
\* and no time passes: no right to look at them lapses.
MCMedia ==
  /\ \/ /\ part = "media" /\ MediaNext
        /\ Len(assets') <= 2 /\ Cardinality(observations') <= 2
        /\ UNCHANGED now
     \/ part = "rights" /\ RightsNext
  /\ UNCHANGED <<part, assessments, approval, decision>>

MCPromotion ==
  /\ part = "promotion" /\ PromotionNext
  /\ UNCHANGED <<part, assets, pending, observations, last>>

MCSpec == MCInit /\ [][MCMedia \/ MCPromotion]_mcVars
=============================================================================
