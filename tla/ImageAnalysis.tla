---------------------------- MODULE ImageAnalysis -----------------------------
(***************************************************************************)
(* Media and what is concluded from them (media.py, image_analysis.py).    *)
(* Assets are ingested from manifests or derived from other assets, with   *)
(* rights that a clock makes lapse; they are exported, analysed offline or *)
(* by a live provider that answers later; a claim about an object is       *)
(* supported by what was observed.  The asset records never change.        *)
(***************************************************************************)
EXTENDS Clock, Sequences, FiniteSets

CONSTANTS
  Objects,     \* works that are depicted
  Offers,      \* rights with which a manifest is ingested
  Grants,      \* grants with which an asset is derived
  Claims,      \* claims about an object or one of its assets
  Canvases,    \* what a manifest says of one canvas
  MaxViews,    \* assets a claim may rest on (8 in the code)
  MaxCanvases, \* bound: canvases of a manifest
  MaxAssets    \* bound: assets

Actions == {"look", "derive", "export"}

Statuses == {"allowed", "denied", "unknown"}

\* until = 0: the right does not lapse.
Right == [status : Statuses, until : Nat]

\* until = 0, status = "absent": the grant does not name it.
Grant == [status : Statuses \cup {"absent"}, until : Nat, evidenced : BOOLEAN]

ASSUME MediaAssumption ==
  /\ Offers \subseteq [Actions -> Right]
  /\ \A g \in Grants : DOMAIN g \subseteq Actions /\ \A a \in DOMAIN g : g[a] \in Grant
  /\ Claims \subseteq [object : Objects \cup {"any"}, asset : Nat,
                       kind : {"visual", "attribution"}]
  /\ Canvases \subseteq [digested : BOOLEAN, sized : BOOLEAN]
  /\ {MaxViews, MaxCanvases, MaxAssets} \subseteq Nat

VARIABLES
  assets,        \* the asset records
  pending,       \* the assets a live provider has been sent, if any
  observations,  \* what providers observed, as reviewers annotated it
  last           \* what the latest operation returned

mediaVars == <<now, assets, pending, observations, last>>

-----------------------------------------------------------------------------
(* "look" stands for view and analyse, which the code always asks for        *)
(* together, and "derive" for transform and create_derivative, of which it   *)
(* asks for either.                                                          *)
(*                                                                           *)
(* digested: the record has a digest of its bytes, without which it is not   *)
(* valid; sized: it has their size.  evidenced, dated: the actions for which *)
(* the record was derived with a grant that names its evidence, or a date.   *)

Asset == [object : Objects, digested : BOOLEAN, sized : BOOLEAN,
          rights : [Actions -> Right], parent : Nat,
          evidenced : SUBSET Actions, dated : SUBSET Actions]

Observation == [asset : Nat, object : Objects, supports : SUBSET Claims]

\* action_status
ActionStatus(asset, a) ==
  LET right == asset.rights[a]
  IN  IF NotExpired(right.until) THEN right.status ELSE "unknown"

Allowed(asset, a) == ActionStatus(asset, a) = "allowed"

\* validate_media_asset with the actions that an analysis needs.
Analysable(asset) == asset.digested /\ Allowed(asset, "look")

\* _evidenced_grant_allows
Evidenced(grants, a) ==
  a \in DOMAIN grants /\ grants[a].status = "allowed" /\ grants[a].evidenced

Dated(grants, a) == a \in DOMAIN grants /\ grants[a].until # 0

\* What a grant names, over the parent's right.
Merged(right, grants, a) ==
  IF a \notin DOMAIN grants THEN right
  ELSE [status |-> IF grants[a].status = "absent" THEN right.status ELSE grants[a].status,
        until  |-> IF Dated(grants, a) THEN grants[a].until ELSE right.until]

\* Mutant: a grant needs no evidence.
InheritedByGrant(right, grants, a) ==
  IF right.status = "allowed" \/ (a \in DOMAIN grants /\ grants[a].status = "allowed")
  THEN Merged(right, grants, a)
  ELSE right

\* inherit_rights: what is denied or unknown stays so without evidence.
Inherited(right, grants, a) ==
  IF right.status = "allowed" \/ Evidenced(grants, a)
  THEN Merged(right, grants, a)
  ELSE right

-----------------------------------------------------------------------------
(* The records. *)

\* ingest_iiif3: each canvas becomes an asset, all with the manifest's rights.
Ingest ==
  /\ \E n \in 1..MaxCanvases, object \in Objects, rights \in Offers :
       /\ Len(assets) + n <= MaxAssets
       /\ \E manifest \in [1..n -> Canvases] :
            assets' = assets \o
              [c \in 1..n |->
                [object |-> object, digested |-> manifest[c].digested,
                 sized |-> manifest[c].sized, rights |-> rights,
                 parent |-> 0, evidenced |-> {}, dated |-> {}]]
  /\ UNCHANGED <<now, pending, observations, last>>

\* derive_asset: the record of a derivative has no size.
Derive(i) ==
  LET parent == assets[i]
  IN  /\ Len(assets) < MaxAssets
      /\ Allowed(parent, "look")
      /\ \E grants \in Grants :
           /\ Allowed(parent, "derive") \/ Evidenced(grants, "derive")
           /\ assets' = Append(assets,
                [object |-> parent.object, digested |-> TRUE, sized |-> FALSE,
                 rights |-> [a \in Actions |-> Inherited(parent.rights[a], grants, a)],
                 parent |-> i,
                 evidenced |-> {a \in Actions : Evidenced(grants, a)},
                 dated |-> {a \in Actions : Dated(grants, a)}])
      /\ UNCHANGED <<now, pending, observations, last>>

\* redact_asset_for_export
Export(i) ==
  /\ last' = [of |-> "export", asset |-> i, at |-> now,
              redacted |-> ~Allowed(assets[i], "export")]
  /\ UNCHANGED <<now, assets, pending, observations>>

-----------------------------------------------------------------------------
(* Analysis. *)

Nothing == [of |-> "nothing"]

Analysis(status) == [of |-> "analysis", status |-> status]

\* _bounded_request_assets: the first of the requested assets.
Selections(request, limit) ==
  {s \in SUBSET request :
     Cardinality(s) = IF limit < Cardinality(request) THEN limit ELSE Cardinality(request)}

\* Why a request is turned down, before anything is looked at.
Refusal(selected) ==
  CASE selected = {}                                  -> "insufficient"
    [] \E i \in selected : ~Analysable(assets[i])     -> "denied"
    [] OTHER                                          -> "none"

\* What is observed of an asset, afresh at every analysis.  The identifiers, which
\* each provider forms in its own way, decide nothing here.
Observed(selected) ==
  {[asset |-> i, object |-> assets[i].object, supports |-> {}] : i \in selected}

\* The first of the observations; the rest is dropped and the result partial.
Kept(selected, limit) ==
  {s \in SUBSET selected :
     Cardinality(s) = IF limit < Cardinality(selected) THEN limit
                      ELSE Cardinality(selected)}

AnalysisStatuses == {"complete", "partial", "insufficient", "denied", "error"}

\* DeterministicFakeImageProvider.analyze: looks at no bytes.  asked: analysis is
\* among the actions the request allows; status: what the provider was made with.
AnalyseOffline(request, limit, most, status) ==
  \E selected \in Selections(request, limit), asked \in BOOLEAN :
    LET refusal == CASE status = "error"                             -> "error"
                     [] status # "error" /\ Refusal(selected) # "none" -> Refusal(selected)
                     [] OTHER -> IF asked THEN "none" ELSE "denied"
    IN  \/ /\ refusal # "none"
           /\ last' = Analysis(refusal)
           /\ UNCHANGED <<now, assets, pending, observations>>
        \/ /\ refusal = "none"
           /\ \E kept \in Kept(selected, most) :
                /\ observations' = observations \cup Observed(kept)
                /\ last' = Analysis(IF status = "complete" /\ kept # request
                                    THEN "partial" ELSE status)
           /\ UNCHANGED <<now, assets, pending>>

\* OpenAIImageAnalysisProvider.analyze up to the call: it is enabled, and bytes
\* are captured for every selected asset, of the digest and the size on record.
Send(request, limit) ==
  /\ pending = {}
  /\ \E selected \in Selections(request, limit), asked, enabled \in BOOLEAN,
        captured \in BOOLEAN :
       LET verified == captured /\ \A i \in selected : assets[i].sized
           refusal  == CASE ~enabled        -> "error"
                         [] enabled /\ ~asked -> "denied"
                         [] enabled /\ asked /\ Refusal(selected) # "none" ->
                              Refusal(selected)
                         [] OTHER           -> IF verified THEN "none" ELSE "error"
       IN  IF refusal = "none"
           THEN /\ pending' = {selected}
                /\ last' = Nothing
           ELSE /\ last' = Analysis(refusal)
                /\ pending' = pending
  /\ UNCHANGED <<now, assets, observations>>

\* The rest of it: the one answer is an observation of every asset.  A call that
\* raises, or one without text, observes nothing.
Answer(most) ==
  \E sent \in pending :
    /\ pending' = {}
    /\ \/ /\ last' \in {Analysis("error"), Analysis("insufficient")}
          /\ UNCHANGED observations
       \/ \E kept \in Kept(sent, most) :
            /\ observations' = observations \cup Observed(kept)
            /\ last' = Analysis(IF kept = sent THEN "complete" ELSE "partial")
    /\ UNCHANGED <<now, assets>>

\* A reviewer, outside the code, notes which claim an observation supports.
Annotate(o, c) ==
  /\ observations' = (observations \ {o}) \cup {[o EXCEPT !.supports = @ \cup {c}]}
  /\ UNCHANGED <<now, assets, pending, last>>

-----------------------------------------------------------------------------
(* evaluate_cross_modal_support *)

\* Mutant: the observations of any object are looked at.
RelevantByAsset(c) == {o \in observations : c.asset \in {0, o.asset}}

Relevant(c) ==
  {o \in observations : c.object \in {"any", o.object} /\ c.asset \in {0, o.asset}}

ManyViews(c) == Cardinality({o.asset : o \in Relevant(c)}) > MaxViews

\* The legs of a claim: its asset, its observation, its text.
ObservationLeg(c) ==
  CASE ManyViews(c)                                            -> "limited"
    [] ~ManyViews(c) /\ c.kind = "visual"
         /\ (\E o \in Relevant(c) : c \in o.supports)           -> "supported"
    [] OTHER                                                   -> "blocked"

Legs(c, quoted) ==
  {IF Relevant(c) # {} THEN "supported" ELSE "blocked",
   ObservationLeg(c),
   IF quoted THEN "supported" ELSE "blocked"}

SupportOf(c, quoted) ==
  CASE Legs(c, quoted) = {"supported"} -> "supported"
    [] "limited" \in Legs(c, quoted)   -> "limited"
    [] OTHER                           -> "blocked"

\* quoted: some text supports the claim directly.
Judge(c, quoted) ==
  /\ last' = [of |-> "support", claim |-> c, quoted |-> quoted,
              status |-> SupportOf(c, quoted)]
  /\ UNCHANGED <<now, assets, pending, observations>>

-----------------------------------------------------------------------------
MediaInit ==
  /\ now = 1
  /\ assets = <<>>
  /\ pending = {}
  /\ observations = {}
  /\ last = Nothing

RightsNext ==
  \/ Ingest
  \/ \E i \in DOMAIN assets : Derive(i) \/ Export(i)
  \/ Tick /\ UNCHANGED <<assets, pending, observations, last>>

AnalysisNext ==
  \/ \E request \in SUBSET (DOMAIN assets), limit, most \in 0..2,
        status \in AnalysisStatuses :
       AnalyseOffline(request, limit, most, status)
  \/ \E request \in SUBSET (DOMAIN assets), limit \in 0..2 : Send(request, limit)
  \/ \E most \in 0..2 : Answer(most)
  \/ \E o \in observations, c \in Claims : Annotate(o, c)
  \/ \E c \in Claims, quoted \in BOOLEAN : Judge(c, quoted)

MediaNext == RightsNext \/ AnalysisNext

MediaSpec == MediaInit /\ [][MediaNext]_mediaVars

-----------------------------------------------------------------------------
(* Properties. *)

\* Whether the right that an asset has is its source's: every asset from it back
\* to the one that was ingested, or to one derived with evidence for the action,
\* has the right, until the same date unless a grant has named another.
Licensed(i, a) ==
  LET held[j \in 1..i] ==
        LET asset == assets[j]
        IN  /\ asset.rights[a].status = "allowed"
            /\ \/ asset.parent = 0
               \/ a \in asset.evidenced
               \/ /\ held[asset.parent]
                  /\ \/ asset.rights[a].until = assets[asset.parent].rights[a].until
                     \/ a \in asset.dated
  IN  held[i]

\* However an asset was derived, it is exported with its content only if what it
\* was derived from may be exported too, or a grant with evidence allowed it; and
\* the right lapses when its source's does, unless a grant dated it anew, for which
\* the code asks no evidence (inherit_rights, redact_asset_for_export).
ExportIsLicensed ==
  last.of = "export" /\ ~last.redacted => Licensed(last.asset, "export")

\* As ExportIsLicensed, but with evidence for a later date too: at the time of the
\* export, everything the asset was derived from, back to a grant with evidence, has
\* the right and it has not lapsed.  So say the interfaces of the release
\* (008-swos-v2-research-grade/contracts/interfaces.md:318-319); inherit_rights puts
\* the date of any grant over that of an allowed right.
InForce(i, a, time) ==
  LET held[j \in 1..i] ==
        LET asset == assets[j]
        IN  /\ asset.rights[a].status = "allowed"
            /\ asset.rights[a].until = 0 \/ asset.rights[a].until > time
            /\ asset.parent = 0 \/ a \in asset.evidenced \/ held[asset.parent]
  IN  held[i]

RenewalIsEvidenced ==
  last.of = "export" /\ ~last.redacted => InForce(last.asset, "export", last.at)

\* A claim that is supported is no attribution, a text supports it directly, and
\* an asset of its own object was observed to support it (evaluate_cross_modal_support).
SupportedIsObserved ==
  last.of = "support" /\ last.status = "supported" =>
    /\ last.claim.kind = "visual"
    /\ last.quoted
    /\ \E o \in observations :
         /\ last.claim \in o.supports
         /\ last.claim.object \in {"any", assets[o.asset].object}
=============================================================================
