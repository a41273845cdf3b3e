--------------------------- MODULE MCPrivilegeSync ---------------------------
(* Small instances of PrivilegeSync for TLC. *)
EXTENDS PrivilegeSync

CONSTANTS dev, app, s1, t1, t2, c1

Table(d, n) == Object(d, "TABLE", s1, n)

\* The privileges of a spec on one database, one schema and some tables.
OneSchema(d, onDatabase, onSchema, onTables) ==
    [o \in {Database(d), Schema(d, s1)} \cup DOMAIN onTables |->
        CASE o = Database(d)   -> onDatabase
          [] o = Schema(d, s1) -> onSchema
          [] OTHER             -> onTables[o]]

OnTables(tables, privs) == [o \in tables |-> privs]

\* One table; a wildcard; a table with ALL beside a wildcard; nothing on the
\* schema; no database at all.
SomeGrants ==
    {OneSchema(dev, {"CONNECT"}, {"USAGE"}, OnTables({Table(dev, t1)}, {"SELECT"})),
     OneSchema(dev, {"CONNECT"}, {"USAGE"},
               OnTables({Table(dev, "*")}, {"SELECT"})),
     OneSchema(dev, {"CONNECT"}, {"USAGE"},
               [o \in {Table(dev, "*"), Table(dev, t1)} |->
                  IF o = Table(dev, t1) THEN {"INSERT"} ELSE {"SELECT"}]),
     OneSchema(dev, {"CONNECT"}, {}, OnTables({Table(dev, t1)}, {"ALL"})),
     OnTables({}, {})}

CreatedLater == {Table(dev, t2)}

\* The same schema with the same table in two databases.
TwoDatabases ==
    LET inOne(d) == OneSchema(d, {"CONNECT"}, {"USAGE"},
                               OnTables({Table(d, t1)}, {"SELECT"}))
    IN  {[o \in DOMAIN inOne(dev) \cup DOMAIN inOne(app) |->
            inOne(o.db)[o]]}

===============================================================================
