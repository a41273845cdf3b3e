-------------------------- MODULE MCSchemaController --------------------------
(* Small instances of SchemaController for TLC. *)
EXTENDS SchemaController

CONSTANTS dev, app, n1, o1, s1, s2

\* A schema with an owner in a database of its own, one in dev, and public.
SomeSpecs ==
    {[name |-> n1, database |-> app, owner |-> o1],
     [name |-> n1, database |-> dev, owner |-> NoOwner],
     [name |-> Public, database |-> app, owner |-> o1]}

\* The same schema in two databases.
TwoDatabases == [name: {n1}, database: {dev, app}, owner: {NoOwner}]

NoAnnotations == [policy |-> "none", paused |-> FALSE]

DropOrNot ==
    {NoAnnotations, [NoAnnotations EXCEPT !.policy = "delete"]}

\* With the policies of the documentation.
Policies ==
    {[NoAnnotations EXCEPT !.policy = p] : p \in {"none", "abandon", "delete"}}

===============================================================================
