------------------------------ MODULE EPGDocument ------------------------------
(***************************************************************************)
(* The provenance graph of a finalised run: what _build_epg_v2             *)
(* (finalizer.py) makes of a run, and the rules by which validate_prov     *)
(* (prov_validation.py) and validate_constraints (prov_constraints.py)     *)
(* judge it.  Operators only.                                              *)
(*                                                                         *)
(* An identifier is <<base, kind, number, name>>: the code digests kind    *)
(* and value into it; an empty base makes a relative identifier.  The      *)
(* relations are a family: their places stand for the positions in the     *)
(* code's list.  A relation's participants are a function of fields, with  *)
(* an absent field for None and for the empty string.                      *)
(***************************************************************************)
EXTENDS Naturals, Sequences

Kinds == {"entity", "activity", "agent"}

Absolute(iri) == iri[1] # ""

NoId == <<"", "", 0, "">>

\* Participants: field, kind of node, whether the field is mandatory.
Pair(field1, kind1, field2, kind2) == {<<field1, kind1, TRUE>>, <<field2, kind2, TRUE>>}

Event(field) ==
  {<<"activity", "activity", TRUE>>, <<"trigger", "entity", FALSE>>,
   <<field, "activity", FALSE>>}

RELATION_SIGNATURES ==
  [wasGeneratedBy    |-> Pair("entity", "entity", "activity", "activity"),
   used              |-> Pair("activity", "activity", "entity", "entity"),
   wasAssociatedWith |-> Pair("activity", "activity", "agent", "agent")
                           \cup {<<"plan", "entity", FALSE>>},
   wasAttributedTo   |-> Pair("entity", "entity", "agent", "agent"),
   wasDerivedFrom    |-> Pair("generatedEntity", "entity", "usedEntity", "entity")
                           \cup {<<"activity", "activity", FALSE>>,
                                 <<"generation", "entity", FALSE>>,
                                 <<"usage", "entity", FALSE>>},
   wasInformedBy     |-> Pair("informed", "activity", "informant", "activity"),
   actedOnBehalfOf   |-> Pair("delegate", "agent", "responsible", "agent")
                           \cup {<<"activity", "activity", FALSE>>},
   specializationOf  |-> Pair("specificEntity", "entity", "generalEntity", "entity"),
   alternateOf       |-> Pair("entity1", "entity", "entity2", "entity"),
   hadMember         |-> Pair("collection", "entity", "entity", "entity"),
   wasStartedBy      |-> Event("starter"),
   wasEndedBy        |-> Event("ender"),
   invalidated       |-> {<<"entity", "entity", TRUE>>, <<"activity", "activity", FALSE>>},
   qualifiedGeneration  |-> Pair("entity", "entity", "activity", "activity"),
   qualifiedUsage       |-> Pair("activity", "activity", "entity", "entity"),
   qualifiedAssociation |-> Pair("activity", "activity", "agent", "agent"),
   qualifiedDerivation  |-> Pair("generatedEntity", "entity", "usedEntity", "entity"),
   qualifiedAttribution |-> Pair("entity", "entity", "agent", "agent")]

KNOWN_RELATIONS == DOMAIN RELATION_SIGNATURES

-----------------------------------------------------------------------------
(* The rules.  A document has nodes (of each kind, with the type each one    *)
(* declares), relations, statements of its bundle and extensions.            *)

Ids(d, kind) == DOMAIN d.nodes[kind]

KnownIds(d) == UNION {Ids(d, kind) : kind \in Kinds} \cup d.bundles

\* An entity may be an agent as well.
Disjoint(d) == Ids(d, "entity") \cap Ids(d, "activity") = {}

Typed(d) ==
  \A kind \in Kinds : \A n \in Ids(d, kind) : d.nodes[kind][n] \in {kind, "none"}

Participates(d, r, p) ==
  IF p[1] \in DOMAIN r.of
    THEN Absolute(r.of[p[1]]) /\ r.of[p[1]] \in Ids(d, p[2])
    ELSE ~p[3]

Formed(d, r) ==
  /\ r.type \in KNOWN_RELATIONS
  /\ \A p \in RELATION_SIGNATURES[r.type] : Participates(d, r, p)
  /\ r.id = NoId \/ Absolute(r.id)

\* Relations with one type and identifier are one relation.
KeysUnique(d) ==
  \A i, j \in DOMAIN d.relations :
    LET r == d.relations[i]
        q == d.relations[j]
    IN  r.type = q.type /\ r.id = q.id /\ r.id # NoId => r.of = q.of

\* An entity comes to be, and ceases to be, once.
OnceEach(d, types) ==
  \A i, j \in DOMAIN d.relations :
    LET r == d.relations[i]
        q == d.relations[j]
    IN  r.type \in types /\ q.type \in types /\ r.of.entity = q.of.entity => i = j

Irreflexive(d) ==
  \A i \in DOMAIN d.relations :
    LET r == d.relations[i]
    IN  /\ r.type = "specializationOf" => r.of.specificEntity # r.of.generalEntity
        /\ r.type = "alternateOf" => r.of.entity1 # r.of.entity2

StatementsKnown(d) ==
  \A s \in d.statements :
    \/ s[1] \in Kinds /\ s[2] \in Ids(d, s[1])
    \/ s[1] = "relation" /\ s[2] \in DOMAIN d.relations
    \/ s[1] \in KNOWN_RELATIONS

ConstraintsHold(d) ==
  /\ Disjoint(d) /\ Typed(d)
  /\ \A i \in DOMAIN d.relations : Formed(d, d.relations[i])
  /\ KeysUnique(d)
  /\ OnceEach(d, {"wasGeneratedBy", "qualifiedGeneration"})
  /\ OnceEach(d, {"invalidated"})
  /\ Irreflexive(d)
  /\ StatementsKnown(d)

\* validate_prov: local references resolve, also those of other fields.
ReferencesResolve(d) ==
  \A i \in DOMAIN d.relations : \A field \in DOMAIN d.relations[i].of :
    LET iri == d.relations[i].of[field]
    IN  Absolute(iri) /\ iri[1] = d.base => iri \in KnownIds(d)

ExtensionsHold(d) ==
  \A e \in d.extensions : e.kind = "iri" => Absolute(e.object)

Valid(d) ==
  /\ \A iri \in KnownIds(d) : Absolute(iri)
  /\ ReferencesResolve(d)
  /\ ExtensionsHold(d)
  /\ ConstraintsHold(d)

\* document_from_epg: what can be read back from the file.
ReadBack(d) ==
  /\ d.base # ""
  /\ \A iri \in KnownIds(d) : Absolute(iri)
  /\ \A i \in DOMAIN d.relations : \A field \in DOMAIN d.relations[i].of :
       Absolute(d.relations[i].of[field])
  /\ \A e \in d.extensions : Absolute(e.subject) /\ (e.kind = "iri" => Absolute(e.object))

-----------------------------------------------------------------------------
(* _build_epg_v2.  A run has sources, rows (a claim and the sources it      *)
(* cites), arguments, stages, and, when images were analysed, observations  *)
(* and interpretations; "" is a missing identifier.                         *)

Iri(run, kind, number, name) == <<run.base, kind, number, name>>

Orchestrator(run) == Iri(run, "agent", 0, "swos-orchestrator")

StageActivity(run, i) == Iri(run, "activity", i, run.stages[i])

Extraction(run) == Iri(run, "activity", 0, "evidence_extraction")

ImageActivity(run) == Iri(run, "activity", 0, "image_analysis")

Entities(run) ==
  {Iri(run, "source", 0, s) : s \in run.sources}
    \cup {Iri(run, "claim", 0, run.rows[i].claim) :
            i \in {i \in DOMAIN run.rows : run.rows[i].claim # ""}}
    \cup {Iri(run, "argument", 0, a) : a \in run.arguments \ {""}}
    \cup {Iri(run, "observation", 0, run.observations[i]) :
            i \in {i \in DOMAIN run.observations : run.observations[i] # ""}}
    \cup {Iri(run, "interpretation", 0, run.interpretations[i]) :
            i \in {i \in DOMAIN run.interpretations : run.interpretations[i] # ""}}

Activities(run) ==
  {StageActivity(run, i) : i \in DOMAIN run.stages}
    \cup {Extraction(run)} \cup (IF run.imaged THEN {ImageActivity(run)} ELSE {})

\* A citation of a source that is not among the run's gives no relation.
Cited(run) ==
  {<<i, s>> \in (DOMAIN run.rows) \X run.sources :
     run.rows[i].claim # "" /\ s \in run.rows[i].citations}

Places(run) ==
  {<<"stage", i>> : i \in DOMAIN run.stages}
    \cup {<<"use", c[1], c[2]>> : c \in Cited(run)}
    \cup {<<"derivation", c[1], c[2]>> : c \in Cited(run)}
    \cup (IF run.imaged THEN {<<"image">>} ELSE {})
    \cup {<<"observation", i>> :
            i \in {i \in DOMAIN run.observations : run.observations[i] # ""}}
    \cup {<<"interpretation", i>> :
            i \in {i \in DOMAIN run.interpretations : run.interpretations[i] # ""}}

Relation(type, of) == [type |-> type, id |-> NoId, of |-> of]

Associated(run, activity) ==
  Relation("wasAssociatedWith", [activity |-> activity, agent |-> Orchestrator(run)])

Seen(run, entity) ==
  Relation("wasGeneratedBy", [entity |-> entity, activity |-> ImageActivity(run)])

RelationAt(run, place) ==
  CASE place[1] = "stage" -> Associated(run, StageActivity(run, place[2]))
    [] place[1] = "image" -> Associated(run, ImageActivity(run))
    [] place[1] = "use" ->
         Relation("used", [activity |-> Extraction(run),
                           entity   |-> Iri(run, "source", 0, place[3])])
    [] place[1] = "derivation" ->
         Relation("wasDerivedFrom",
                  [generatedEntity |-> Iri(run, "claim", 0, run.rows[place[2]].claim),
                   usedEntity      |-> Iri(run, "source", 0, place[3])])
    [] place[1] = "observation" ->
         Seen(run, Iri(run, "observation", 0, run.observations[place[2]]))
    [] place[1] = "interpretation" ->
         Seen(run, Iri(run, "interpretation", 0, run.interpretations[place[2]]))

NodesOf(run) ==
  [entity   |-> [n \in Entities(run) |-> "entity"],
   activity |-> [n \in Activities(run) |-> "activity"],
   agent    |-> [n \in {Orchestrator(run)} |-> "agent"]]

\* run.discipline is the bound discipline's identifier, NoId without one.
ExtensionsOf(run) ==
  {[subject |-> Iri(run, "run", 0, ""), kind |-> "literal", object |-> NoId]}
    \cup (IF run.discipline = NoId THEN {}
          ELSE {[subject |-> Iri(run, "run", 0, ""), kind |-> "iri",
                 object |-> run.discipline]})

Build(run) ==
  [base       |-> run.base,
   nodes      |-> NodesOf(run),
   relations  |-> [place \in Places(run) |-> RelationAt(run, place)],
   bundles    |-> {Iri(run, "bundle", 0, "finalized-output")},
   statements |-> UNION {{<<kind, n>> : n \in DOMAIN NodesOf(run)[kind]} : kind \in Kinds}
                    \cup {<<"relation", place>> : place \in Places(run)},
   extensions |-> ExtensionsOf(run)]

-----------------------------------------------------------------------------
(* What a graph owes to its run. *)

\* No two observations, nor two interpretations, have one identifier.
Distinct(names) ==
  \A i, j \in DOMAIN names : names[i] = names[j] /\ names[i] # "" => i = j

\* Nothing but repeated identifiers and a relative discipline makes the graph of
\* a run invalid: that is when finalise blocks the release and binds no graph.
ValidExactly(run) ==
  Valid(Build(run)) <=>
    /\ Distinct(run.observations) /\ Distinct(run.interpretations)
    /\ run.discipline = NoId \/ Absolute(run.discipline)
=============================================================================
