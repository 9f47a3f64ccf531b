---------------------------- MODULE MCRPMExchange ----------------------------
EXTENDS RPMExchange, TLC

CONSTANTS p1, i1

ClientSymmetry == Permutations(Clients)

Origin(item, status, digest) ==
  [item |-> item, status |-> status, digest |-> digest, own |-> TRUE,
   restricted |-> FALSE]

\* An item written and deleted, and an item of another project above the ceiling.
SomeOriginEvents ==
  {Origin(i1, "active", "d1"),
   Origin(i1, "deleted", None),
   [Origin(i1, "active", "d1") EXCEPT !.own = FALSE, !.restricted = TRUE]}

Local(type, status, candidate, digest) ==
  [operation |-> <<"local", type, digest>>, type |-> type, project |-> p1, item |-> i1,
   candidate |-> candidate, expiry |-> 9, disposition |-> None,
   status |-> status, digest |-> digest]

\* The same item, written with the same and with another content.
SomeLocalEvents ==
  {Local("write", "active", i1, "d1"), Local("write", "active", i1, "d2")}
=============================================================================
