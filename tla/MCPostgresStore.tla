--------------------------- MODULE MCPostgresStore ---------------------------
(***************************************************************************)
(* Instances of PostgresStore: documents of services with an endpoint each *)
(* and the one row of settings.                                            *)
(***************************************************************************)
EXTENDS PostgresStore, TLC

CONSTANTS a, b, one, i1, i2

Symmetry == Permutations(Instances)

SomeDeletions == <<"endpoints", "services", "settings">>
SomeSelections == <<"settings", "services", "endpoints">>
ServiceReferences == {<<"endpoints", "services">>}

Document(services, endpoints) ==
  [t \in Tables |->
     CASE t = "settings" -> {one}
       [] t = "services" -> services
       [] t = "endpoints" -> endpoints]

\* A start puts in service a; administrators add b, whose endpoint comes instead
\* of a's, or leave b alone and without an endpoint.
FirstDocument == Document({a}, {a})
GrownDocument == {Document({a, b}, {b})}
BareDocument == {Document({b}, {})}
=============================================================================
