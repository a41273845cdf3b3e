-------------------------- MODULE PrivilegeSyncProofs --------------------------
(***************************************************************************)
(* Proofs about PrivilegeSync for any databases, schemas, objects, letters *)
(* and grants, and any budget of edits, faults and foreign changes.        *)
(***************************************************************************)
EXTENDS PrivilegeSync, TLAPS

-------------------------------------------------------------------------------
(* Lemmas about Privileges. *)

AllKinds == ObjectKinds \cup {"DATABASE", "SCHEMA"}

LEMMA MapCharType ==
    ASSUME NEW k, NEW c \in DOMAIN MapChar(k)
    PROVE  MapChar(k)[c] \in PrivilegeTypes
BY DEF MapChar, MapCharToTablePrivilege, MapCharToDatabasePrivilege,
       MapCharToSchemaPrivilege, MapCharToSourcePrivilege,
       MapCharToSinkPrivilege, MapCharToSecretPrivilege,
       MapCharToFunctionPrivilege, PrivilegeTypes

LEMMA ParseACLType ==
    ASSUME NEW letters, NEW k
    PROVE  ParseACL(letters, k) \subseteq PrivilegeTypes
BY MapCharType DEF ParseACL

LEMMA PrivilegesOfType ==
    ASSUME NEW k
    PROVE  PrivilegesOf(k) \subseteq PrivilegeTypes
BY MapCharType DEF PrivilegesOf

LEMMA AllIsNoPrivilege == "ALL" \notin PrivilegeTypes
BY DEF PrivilegeTypes

LEMMA LettersForType ==
    ASSUME NEW privs, NEW k \in AllKinds
    PROVE  LettersFor(privs, k) \subseteq AnyLetter
BY DEF LettersFor, AnyLetter, AllKinds

\* What statements can be on, by kind.
LEMMA ItemShape ==
    ASSUME NEW o \in Securables \cup Wildcards
    PROVE  /\ o.db \in Databases
           /\ Kind(o) \in AllKinds
           /\ o = [db |-> o.db, on |-> o.on]
           /\ Kind(o) = "DATABASE" <=> o \in DatabaseItems
           /\ Kind(o) = "SCHEMA" <=> o \in SchemaItems
           /\ Kind(o) \in ObjectKinds <=> o \in ObjectItems \cup Wildcards
<1>1. \A d \in Databases :
        LET x == Database(d)
        IN  x.db = d /\ Kind(x) = "DATABASE" /\ x = [db |-> x.db, on |-> x.on]
  BY DEF Database, Kind
<1>2. \A d \in Databases, s \in Schemas :
        LET x == Schema(d, s)
        IN  x.db = d /\ Kind(x) = "SCHEMA" /\ x = [db |-> x.db, on |-> x.on]
  BY DEF Schema, Kind
<1>3. \A d \in Databases, k \in Kinds, s \in Schemas, n \in Names \cup {"*"} :
        LET x == Object(d, k, s, n)
        IN  x.db = d /\ Kind(x) = k /\ x = [db |-> x.db, on |-> x.on]
  BY DEF Object, Kind
<1>4. /\ \A x \in DatabaseItems :
            x.db \in Databases /\ Kind(x) = "DATABASE"
              /\ x = [db |-> x.db, on |-> x.on]
      /\ \A x \in SchemaItems :
            x.db \in Databases /\ Kind(x) = "SCHEMA"
              /\ x = [db |-> x.db, on |-> x.on]
      /\ \A x \in ObjectItems \cup Wildcards :
            x.db \in Databases /\ Kind(x) \in ObjectKinds
              /\ x = [db |-> x.db, on |-> x.on]
  BY <1>1, <1>2, <1>3, PrivilegesAssumption
     DEF DatabaseItems, SchemaItems, ObjectItems, Wildcards
<1>5. "DATABASE" \notin ObjectKinds /\ "SCHEMA" \notin ObjectKinds
  BY DEF ObjectKinds
<1>. QED  BY <1>4, <1>5 DEF Securables, AllKinds

\* An object is not a wildcard, and what it is called tells it apart from its
\* wildcard.
LEMMA WildcardShape ==
    ASSUME NEW o \in ObjectItems, NEW x \in Securables \cup Wildcards
    PROVE  /\ WildcardOf(o) \in Wildcards /\ WildcardOf(o).db = o.db
           /\ x \in Securables => x.on # WildcardOf(o).on
<1>1. PICK d \in Databases, k \in Kinds, s \in Schemas, n \in Names :
        o = Object(d, k, s, n)
  BY DEF ObjectItems
<1>2. WildcardOf(o) = Object(d, k, s, "*")
  BY <1>1 DEF WildcardOf, Object
<1>3. WildcardOf(o) \in Wildcards /\ WildcardOf(o).db = o.db
  BY <1>1, <1>2 DEF Wildcards, Object
<1>4. ASSUME x \in Securables, x.on = WildcardOf(o).on PROVE FALSE
  <2>1. Kind(x) \in ObjectKinds
    BY <1>2, <1>4, PrivilegesAssumption DEF Kind, Object
  <2>2. x \in ObjectItems
    BY <1>4, <2>1, ItemShape DEF Securables, AllKinds, ObjectKinds
  <2>3. PICK n2 \in Names : x.on[3] = n2
    BY <2>2 DEF ObjectItems, Object
  <2>4. x.on[3] = "*"
    BY <1>2, <1>4 DEF Object
  <2>. QED  BY <2>3, <2>4, PrivilegesAssumption
<1>. QED  BY <1>3, <1>4

\* A statement asks for, or takes away, what the difference is made of.
IsChange(e, g) ==
    \E o \in Securables \cup Wildcards, p \in SUBSET (PrivilegeTypes \cup {"ALL"}) :
        \/ /\ o \in DOMAIN g /\ p \subseteq g[o]
           /\ e = Entry(o, "GRANT", p)
        \/ /\ o \in DOMAIN g \cap Securables
           /\ p \cap g[o] = {} /\ "ALL" \notin p
           /\ e = Entry(o, "REVOKE", p)
        \/ /\ o \in Securables \ DOMAIN g
           /\ o \in ObjectItems => WildcardOf(o) \notin DOMAIN g
           /\ e = Entry(o, "REVOKE", {"ALL"})

Snapshots == [Securables -> SUBSET PrivilegeTypes]

LEMMA SpecPrivileges ==
    ASSUME NEW g, IsGrantSpec(g), NEW o \in DOMAIN g
    PROVE  /\ o \in Securables \cup Wildcards
           /\ g[o] \subseteq PrivilegeTypes \cup {"ALL"}
BY PrivilegesOfType DEF IsGrantSpec

LEMMA ChangesAreChanges ==
    ASSUME NEW g, IsGrantSpec(g), NEW snap \in Snapshots,
           NEW e \in PrivilegeChanges(snap, g)
    PROVE  IsChange(e, g)
<1>1. CASE \E o \in DOMAIN g : e \in CalculateDiff(snap, g, o)
  <2>1. PICK o \in DOMAIN g : e \in CalculateDiff(snap, g, o)
    BY <1>1
  <2>. DEFINE actual == findObjectPrivilege(snap, o)
  <2>2. o \in Securables \cup Wildcards
        /\ g[o] \subseteq PrivilegeTypes \cup {"ALL"}
    BY SpecPrivileges
  <2>3. actual \subseteq PrivilegeTypes /\ (actual # {} => o \in Securables)
    BY DEF findObjectPrivilege, Snapshots
  <2>4. \/ e = Entry(o, "GRANT", g[o] \ actual)
        \/ e = Entry(o, "REVOKE", actual \ g[o]) /\ actual \ g[o] # {}
    BY <2>1 DEF CalculateDiff
  <2>5. CASE e = Entry(o, "GRANT", g[o] \ actual)
    <3>1. g[o] \ actual \in SUBSET (PrivilegeTypes \cup {"ALL"})
          /\ g[o] \ actual \subseteq g[o]
      BY <2>2
    <3>. QED  BY <2>2, <2>5, <3>1 DEF IsChange
  <2>6. CASE e = Entry(o, "REVOKE", actual \ g[o]) /\ actual \ g[o] # {}
    <3>1. /\ actual \ g[o] \in SUBSET (PrivilegeTypes \cup {"ALL"})
          /\ (actual \ g[o]) \cap g[o] = {}
          /\ "ALL" \notin actual \ g[o]
          /\ o \in DOMAIN g \cap Securables
      BY <2>2, <2>3, <2>6, AllIsNoPrivilege
    <3>. QED  BY <2>2, <2>6, <3>1 DEF IsChange
  <2>. QED  BY <2>4, <2>5, <2>6
<1>2. CASE \E o \in OrphanObjects(snap, g) \cup OrphanDatabases(snap, g) :
             e = Entry(o, "REVOKE", {"ALL"})
  <2>1. PICK o \in OrphanObjects(snap, g) \cup OrphanDatabases(snap, g) :
          e = Entry(o, "REVOKE", {"ALL"})
    BY <1>2
  <2>2. o \in Securables \ DOMAIN g
    BY <2>1 DEF OrphanObjects, OrphanDatabases, Securables
  <2>3. ASSUME o \in ObjectItems PROVE WildcardOf(o) \notin DOMAIN g
    <3>1. o \notin DatabaseItems
      BY <2>3, ItemShape DEF Securables, ObjectKinds
    <3>. QED  BY <2>1, <3>1 DEF OrphanObjects, OrphanDatabases
  <2>. QED  BY <2>1, <2>2, <2>3 DEF IsChange
<1>. QED  BY <1>1, <1>2 DEF PrivilegeChanges

LEMMA EntryType ==
    ASSUME NEW g, NEW e, IsChange(e, g)
    PROVE  e \in Entries
<1>1. PICK o \in Securables \cup Wildcards,
           p \in SUBSET (PrivilegeTypes \cup {"ALL"}),
           verb \in {"GRANT", "REVOKE"} : e = Entry(o, verb, p)
  <2>1. {"ALL"} \in SUBSET (PrivilegeTypes \cup {"ALL"})
    OBVIOUS
  <2>. QED  BY <2>1 DEF IsChange
<1>2. Group(o) \in Databases \cup {NoDatabase}
  BY ItemShape DEF Group
<1>3. Statement(verb, p, o.on) \in Statements
  BY DEF Statement, Statements
<1>. QED  BY <1>1, <1>2, <1>3 DEF Entry, Entries

-------------------------------------------------------------------------------
(* The invariant. *)

\* The statements are those of the snapshot and the grants of the call, until
\* it returns.
PlanIsDifference ==
    pc \in {"next", "execute"} => planned = PrivilegeChanges(snapshot, local)

CurrentIsPlanned ==
    pc = "execute" => \E e \in planned : current = e.stmt

IInv == TypeOK /\ PlanIsDifference /\ CurrentIsPlanned

\* The variables of a call and the rest of the state have their types.
CallTypeOK ==
    /\ pc \in {"idle", "databases", "schemas", "next", "execute"}
    /\ local \in GrantSpecs \cup {NoGrants}
    /\ pc # "idle" => local # NoGrants
    /\ snapshot \in Snapshots
    /\ unlisted \subseteq Databases
    /\ unread \subseteq [db: Databases, kind: Kinds, schema: Schemas]
    /\ planned \subseteq Entries
    /\ pending \subseteq planned
    /\ current \in Statements \cup {NoStatement}
    /\ currentDB \in Databases \cup {NoDatabase}

ClusterTypeOK ==
    /\ acl \in [Securables -> SUBSET AnyLetter]
    /\ present \subseteq Securables
    /\ sessions \in [Sessions -> Databases]

BudgetTypeOK ==
    /\ edits \in 0..MaxEdits /\ faults \in 0..MaxFaults
    /\ drift \in 0..MaxDrift
    /\ disturbed \in BOOLEAN

LEMMA TypeParts ==
    TypeOK <=> /\ CallTypeOK /\ ClusterTypeOK /\ BudgetTypeOK
               /\ grants \in GrantSpecs \cup {NoGrants}
BY DEF TypeOK, CallTypeOK, ClusterTypeOK, BudgetTypeOK, Snapshots

LEMMA TypePartsNext ==
    TypeOK' <=> /\ CallTypeOK' /\ ClusterTypeOK' /\ BudgetTypeOK'
                /\ (grants \in GrantSpecs \cup {NoGrants})'
BY DEF TypeOK, CallTypeOK, ClusterTypeOK, BudgetTypeOK, Snapshots

CallInv == CallTypeOK /\ PlanIsDifference /\ CurrentIsPlanned

LEMMA EmptyType == Empty \in Snapshots
BY DEF Empty, Snapshots

\* A call that returned leaves nothing behind.
LEMMA ReturnKeeps == Return => CallInv'
<1>. SUFFICES ASSUME Return PROVE CallInv'
  OBVIOUS
<1>1. CallTypeOK'
  BY EmptyType DEF Return, CallTypeOK
<1>2. PlanIsDifference' /\ CurrentIsPlanned'
  BY DEF Return, PlanIsDifference, CurrentIsPlanned
<1>. QED  BY <1>1, <1>2 DEF CallInv

LEMMA CallKeeps ==
    ASSUME CallInv, UNCHANGED <<pc, callVars>>
    PROVE  CallInv'
<1>1. CallTypeOK'
  BY DEF CallInv, CallTypeOK, callVars
<1>2. PlanIsDifference' /\ CurrentIsPlanned'
  BY DEF CallInv, PlanIsDifference, CurrentIsPlanned, callVars
<1>. QED  BY <1>1, <1>2 DEF CallInv

LEMMA FaultType ==
    ASSUME BudgetTypeOK, Fault \/ UNCHANGED faults,
           UNCHANGED <<edits, drift>>, disturbed' \in BOOLEAN
    PROVE  BudgetTypeOK'
BY SyncAssumption DEF BudgetTypeOK, Fault

LEMMA ReadsType ==
    ASSUME NEW rows, NEW all, Reads(rows, all)
    PROVE  Fault \/ UNCHANGED faults
BY DEF Reads

\* What the queries add to the snapshot has the type of a snapshot.
LEMMA RecordedType ==
    ASSUME CallTypeOK, NEW items, NEW here
    PROVE  Recorded(items, here) \in Snapshots
<1>1. \A o \in Securables :
        /\ snapshot[o] \subseteq PrivilegeTypes
        /\ ParseACL(acl[[o EXCEPT !.db = here]], Kind(o)) \subseteq PrivilegeTypes
  BY ParseACLType DEF CallTypeOK, Snapshots
<1>. QED  BY <1>1 DEF Recorded, Snapshots

\* An acl stays a set of letters for every securable.
LEMMA ApplyType ==
    ASSUME ClusterTypeOK, NEW stmt, NEW targets
    PROVE  Apply(stmt, targets, acl) \in [Securables -> SUBSET AnyLetter]
<1>1. \A o \in Securables :
        /\ acl[o] \subseteq AnyLetter
        /\ LettersFor(stmt.privs, Kind(o)) \subseteq AnyLetter
  BY ItemShape, LettersForType DEF ClusterTypeOK
<1>. QED  BY <1>1 DEF Apply

LEMMA GrantsAreSpecs ==
    ASSUME CallTypeOK, pc # "idle"
    PROVE  IsGrantSpec(local) /\ local \in GrantSpecs
BY SyncAssumption DEF CallTypeOK

GrantsTypeOK == grants \in GrantSpecs \cup {NoGrants}

LEMMA InvParts ==
    IInv <=> CallInv /\ ClusterTypeOK /\ BudgetTypeOK /\ GrantsTypeOK
BY TypeParts DEF IInv, CallInv, GrantsTypeOK

LEMMA InvPartsNext ==
    IInv' <=> CallInv' /\ ClusterTypeOK' /\ BudgetTypeOK' /\ GrantsTypeOK'
BY TypePartsNext DEF IInv, CallInv, GrantsTypeOK

LEMMA InitInv == Init => IInv
<1>. SUFFICES ASSUME Init PROVE IInv
  OBVIOUS
<1>1. CallTypeOK
  BY EmptyType DEF Init, CallTypeOK
<1>2. PlanIsDifference /\ CurrentIsPlanned
  BY DEF Init, PlanIsDifference, CurrentIsPlanned
<1>3. ClusterTypeOK
  BY SyncAssumption DEF Init, ClusterTypeOK, Empty
<1>4. BudgetTypeOK /\ GrantsTypeOK
  <2>1. 0 \in 0..MaxEdits /\ 0 \in 0..MaxFaults /\ 0 \in 0..MaxDrift
    BY SyncAssumption
  <2>2. disturbed \in BOOLEAN
    BY DEF Init
  <2>. QED  BY <2>1, <2>2 DEF Init, BudgetTypeOK, GrantsTypeOK
<1>. QED  BY <1>1, <1>2, <1>3, <1>4, InvParts DEF CallInv

LEMMA ClusterKeeps ==
    ASSUME ClusterTypeOK, UNCHANGED clusterVars
    PROVE  ClusterTypeOK'
BY DEF ClusterTypeOK, clusterVars

LEMMA BudgetKeeps ==
    ASSUME BudgetTypeOK, UNCHANGED <<edits, faults, drift, disturbed>>
    PROVE  BudgetTypeOK'
BY DEF BudgetTypeOK

LEMMA StepInv == IInv /\ [Next]_vars => IInv'
<1>. SUFFICES ASSUME IInv, [Next]_vars PROVE IInv'
  OBVIOUS
<1>. USE InvParts, InvPartsNext
<1>t. CallInv /\ CallTypeOK /\ ClusterTypeOK /\ BudgetTypeOK /\ GrantsTypeOK
  BY DEF CallInv
<1>1. CASE Start
  <2>1. CallTypeOK'
    BY <1>1, <1>t DEF Start, CallTypeOK, GrantsTypeOK
  <2>2. PlanIsDifference' /\ CurrentIsPlanned'
    BY <1>1 DEF Start, PlanIsDifference, CurrentIsPlanned
  <2>3. ClusterTypeOK' /\ GrantsTypeOK'
    BY <1>1, <1>t, ClusterKeeps DEF Start, GrantsTypeOK
  <2>4. BudgetTypeOK'
    BY <1>1, <1>t DEF Start, BudgetTypeOK
  <2>. QED  BY <2>1, <2>2, <2>3, <2>4 DEF CallInv
<1>2. CASE Fail
  <2>1. CallInv'
    BY <1>2, ReturnKeeps DEF Fail
  <2>2. ClusterTypeOK' /\ GrantsTypeOK'
    BY <1>2, <1>t, ClusterKeeps DEF Fail, GrantsTypeOK
  <2>3. BudgetTypeOK'
    BY <1>2, <1>t, FaultType DEF Fail, BudgetTypeOK
  <2>. QED  BY <2>1, <2>2, <2>3
<1>3. CASE fetchDatabasePrivileges /\ ~Fail
  <2>1. PICK all \in {{d \in Databases : acl[Database(d)] # {}}} :
        \E dbs \in SUBSET all :
          /\ Reads(dbs, all)
          /\ snapshot' = [o \in Securables |->
                           IF \E d \in dbs : o = Database(d)
                           THEN ParseACL(acl[o], "DATABASE") ELSE {}]
          /\ unlisted' = dbs
    BY <1>3 DEF fetchDatabasePrivileges
  <2>2. PICK dbs \in SUBSET all :
          /\ Reads(dbs, all)
          /\ snapshot' = [o \in Securables |->
                           IF \E d \in dbs : o = Database(d)
                           THEN ParseACL(acl[o], "DATABASE") ELSE {}]
          /\ unlisted' = dbs
    BY <2>1
  <2>3. /\ pc = "databases" /\ pc' = "schemas"
        /\ UNCHANGED <<clusterVars, grants, local, unread, planned, pending,
                       current, currentDB, edits, drift, disturbed>>
    BY <1>3 DEF fetchDatabasePrivileges
  <2>4. snapshot' \in Snapshots
    BY <2>2, ParseACLType DEF Snapshots
  <2>5. CallTypeOK'
    BY <1>t, <2>1, <2>2, <2>3, <2>4 DEF CallTypeOK
  <2>6. PlanIsDifference' /\ CurrentIsPlanned'
    BY <2>3 DEF PlanIsDifference, CurrentIsPlanned
  <2>7. ClusterTypeOK' /\ GrantsTypeOK'
    BY <1>t, <2>3, ClusterKeeps DEF GrantsTypeOK
  <2>8. BudgetTypeOK'
    <3>1. disturbed' \in BOOLEAN
      BY <1>t, <2>3 DEF BudgetTypeOK
    <3>. QED  BY <1>t, <2>2, <2>3, <3>1, ReadsType, FaultType
  <2>. QED  BY <2>5, <2>6, <2>7, <2>8 DEF CallInv
<1>4. CASE fetchSchemaPrivs /\ ~Fail
  <2>1. PICK d \in unlisted, s \in Sessions, all \in SUBSET Schemas :
          /\ \E names \in SUBSET all :
                /\ Reads(names, all)
                /\ snapshot' = Recorded({Schema(d, n) : n \in names}, sessions[s])
                /\ unread' = [db: {d}, kind: Kinds, schema: names]
          /\ unlisted' = unlisted \ {d}
          /\ UNCHANGED <<clusterVars, grants, pc, local, planned, pending,
                         current, currentDB, edits, drift, disturbed>>
    <3>1. PICK d \in unlisted, s \in Sessions :
           \E all \in {{n \in Schemas :
                  ParseACL(acl[Schema(sessions[s], n)], "SCHEMA") # {}}} :
          /\ \E names \in SUBSET all :
                /\ Reads(names, all)
                /\ snapshot' = Recorded({Schema(d, n) : n \in names}, sessions[s])
                /\ unread' = [db: {d}, kind: Kinds, schema: names]
          /\ unlisted' = unlisted \ {d}
          /\ UNCHANGED <<clusterVars, grants, pc, local, planned, pending,
                         current, currentDB, edits, drift, disturbed>>
      BY <1>4 DEF fetchSchemaPrivs
    <3>. QED  BY <3>1
  <2>2. PICK names \in SUBSET all :
          /\ Reads(names, all)
          /\ snapshot' = Recorded({Schema(d, n) : n \in names}, sessions[s])
          /\ unread' = [db: {d}, kind: Kinds, schema: names]
    BY <2>1
  <2>3. pc = "schemas" /\ pc' = "schemas"
    BY <1>4, <2>1 DEF fetchSchemaPrivs
  <2>4. snapshot' \in Snapshots
    BY <1>t, <2>2, RecordedType
  <2>5. CallTypeOK'
    BY <1>t, <2>1, <2>2, <2>3, <2>4 DEF CallTypeOK
  <2>6. PlanIsDifference' /\ CurrentIsPlanned'
    BY <2>3 DEF PlanIsDifference, CurrentIsPlanned
  <2>7. ClusterTypeOK' /\ GrantsTypeOK'
    BY <1>t, <2>1, ClusterKeeps DEF GrantsTypeOK
  <2>8. BudgetTypeOK'
    <3>1. disturbed' \in BOOLEAN
      BY <1>t, <2>1 DEF BudgetTypeOK
    <3>. QED  BY <1>t, <2>1, <2>2, <3>1, ReadsType, FaultType
  <2>. QED  BY <2>5, <2>6, <2>7, <2>8 DEF CallInv
<1>5. CASE fetchObjectPrivsCustom /\ ~Fail
  <2>1. PICK q \in unread, s \in Sessions, all \in SUBSET Names :
          /\ \E names \in SUBSET all :
                /\ Reads(names, all)
                /\ snapshot' =
                     Recorded({Object(q.db, q.kind, q.schema, n) : n \in names},
                              sessions[s])
          /\ unread' = unread \ {q}
          /\ UNCHANGED <<clusterVars, grants, pc, local, unlisted, planned,
                         pending, current, currentDB, edits, drift, disturbed>>
    <3>1. PICK q \in unread, s \in Sessions :
           \E all \in {{n \in Names :
                  acl[Object(sessions[s], q.kind, q.schema, n)] # {}}} :
          /\ \E names \in SUBSET all :
                /\ Reads(names, all)
                /\ snapshot' =
                     Recorded({Object(q.db, q.kind, q.schema, n) : n \in names},
                              sessions[s])
          /\ unread' = unread \ {q}
          /\ UNCHANGED <<clusterVars, grants, pc, local, unlisted, planned,
                         pending, current, currentDB, edits, drift, disturbed>>
      BY <1>5 DEF fetchObjectPrivsCustom
    <3>. QED  BY <3>1
  <2>2. PICK names \in SUBSET all :
          /\ Reads(names, all)
          /\ snapshot' =
               Recorded({Object(q.db, q.kind, q.schema, n) : n \in names},
                        sessions[s])
    BY <2>1
  <2>3. pc = "schemas" /\ pc' = "schemas"
    BY <1>5, <2>1 DEF fetchObjectPrivsCustom
  <2>4. snapshot' \in Snapshots
    BY <1>t, <2>2, RecordedType
  <2>5. CallTypeOK'
    BY <1>t, <2>1, <2>3, <2>4 DEF CallTypeOK
  <2>6. PlanIsDifference' /\ CurrentIsPlanned'
    BY <2>3 DEF PlanIsDifference, CurrentIsPlanned
  <2>7. ClusterTypeOK' /\ GrantsTypeOK'
    BY <1>t, <2>1, ClusterKeeps DEF GrantsTypeOK
  <2>8. BudgetTypeOK'
    <3>1. disturbed' \in BOOLEAN
      BY <1>t, <2>1 DEF BudgetTypeOK
    <3>. QED  BY <1>t, <2>1, <2>2, <3>1, ReadsType, FaultType
  <2>. QED  BY <2>5, <2>6, <2>7, <2>8 DEF CallInv
<1>6. CASE Plan
  <2>1. IsGrantSpec(local)
    BY <1>6, <1>t, GrantsAreSpecs DEF Plan
  <2>2. PrivilegeChanges(snapshot, local) \subseteq Entries
    BY <1>t, <2>1, ChangesAreChanges, EntryType DEF CallTypeOK
  <2>3. CallTypeOK'
    BY <1>6, <1>t, <2>2 DEF Plan, CallTypeOK
  <2>4. PlanIsDifference' /\ CurrentIsPlanned'
    BY <1>6 DEF Plan, PlanIsDifference, CurrentIsPlanned
  <2>5. ClusterTypeOK' /\ GrantsTypeOK' /\ BudgetTypeOK'
    BY <1>6, <1>t, ClusterKeeps, BudgetKeeps DEF Plan, GrantsTypeOK
  <2>. QED  BY <2>3, <2>4, <2>5 DEF CallInv
<1>n. ASSUME pc = "next", pc' = "execute",
             NEW e \in NextEntries, pending' = pending \ {e},
             current' = e.stmt, UNCHANGED <<local, snapshot, unlisted, unread,
                                           planned>>,
             currentDB' \in Databases \cup {NoDatabase}
      PROVE  CallInv'
  <2>1. e \in planned /\ e \in Entries
    BY <1>n, <1>t DEF NextEntries, CallTypeOK
  <2>2. e.stmt \in Statements
    BY <2>1 DEF Entries
  <2>3. CallTypeOK'
    BY <1>n, <1>t, <2>1, <2>2 DEF CallTypeOK
  <2>4. PlanIsDifference' /\ CurrentIsPlanned'
    BY <1>n, <1>t, <2>1 DEF CallInv, PlanIsDifference, CurrentIsPlanned
  <2>. QED  BY <2>3, <2>4 DEF CallInv
<1>7. CASE NextStatement
  <2>1. PICK e \in NextEntries : pending' = pending \ {e} /\ current' = e.stmt
    BY <1>7 DEF NextStatement
  <2>2. CallInv'
    BY <1>7, <1>t, <1>n, <2>1 DEF NextStatement, CallTypeOK
  <2>3. ClusterTypeOK' /\ GrantsTypeOK' /\ BudgetTypeOK'
    BY <1>7, <1>t, ClusterKeeps, BudgetKeeps DEF NextStatement, GrantsTypeOK
  <2>. QED  BY <2>2, <2>3
<1>8. CASE SwitchDatabase
  <2>1. PICK e \in NextEntries :
          /\ pending' = pending \ {e} /\ current' = e.stmt
          /\ \E t \in TargetDBs(e.stmt) \ {NoDatabase, currentDB} :
              \/ /\ \E s \in Sessions :
                      sessions' = [sessions EXCEPT ![s] = t]
                 /\ \/ currentDB' = t /\ UNCHANGED <<faults, disturbed>>
                    \/ Fault /\ disturbed' = TRUE /\ UNCHANGED currentDB
              \/ /\ Fault /\ disturbed' = TRUE
                 /\ UNCHANGED <<sessions, currentDB>>
    BY <1>8 DEF SwitchDatabase
  <2>2. TargetDBs(e.stmt) \ {NoDatabase} \subseteq Databases
    <3>1. \A f \in planned : f.group \in Databases \cup {NoDatabase}
      BY <1>t DEF CallTypeOK, Entries
    <3>. QED  BY <3>1 DEF TargetDBs
  <2>3. /\ currentDB' \in Databases \cup {NoDatabase}
        /\ sessions' \in [Sessions -> Databases]
        /\ Fault \/ UNCHANGED faults
        /\ disturbed' \in BOOLEAN
    BY <1>t, <2>1, <2>2 DEF CallTypeOK, ClusterTypeOK, BudgetTypeOK
  <2>4. CallInv'
    BY <1>8, <1>t, <1>n, <2>1, <2>3 DEF SwitchDatabase
  <2>5. ClusterTypeOK' /\ GrantsTypeOK'
    BY <1>8, <1>t, <2>3 DEF SwitchDatabase, ClusterTypeOK, GrantsTypeOK
  <2>6. BudgetTypeOK'
    BY <1>8, <1>t, <2>3, FaultType DEF SwitchDatabase
  <2>. QED  BY <2>4, <2>5, <2>6
<1>9. CASE ExecuteStatement
  <2>1. PICK s \in Sessions :
          \/ acl' = Apply(current, Targets(current.on, sessions[s]) \cap present,
                          acl)
          \/ UNCHANGED acl
    BY <1>9 DEF ExecuteStatement
  <2>2. acl' \in [Securables -> SUBSET AnyLetter]
    BY <1>t, <2>1, ApplyType DEF ClusterTypeOK
  <2>3. ClusterTypeOK' /\ GrantsTypeOK'
    BY <1>9, <1>t, <2>2 DEF ExecuteStatement, ClusterTypeOK, GrantsTypeOK
  <2>4. /\ Fault \/ UNCHANGED faults
        /\ disturbed' = TRUE \/ UNCHANGED disturbed
        /\ UNCHANGED <<edits, drift>>
        /\ \/ Return
           \/ /\ pc' = "next" /\ current' = NoStatement
              /\ UNCHANGED <<local, snapshot, unlisted, unread, planned,
                             pending, currentDB>>
    BY <1>9 DEF ExecuteStatement
  <2>5. BudgetTypeOK'
    <3>1. disturbed' \in BOOLEAN
      BY <1>t, <2>4 DEF BudgetTypeOK
    <3>. QED  BY <1>t, <2>4, <3>1, FaultType
  <2>6. CASE /\ pc' = "next" /\ current' = NoStatement
             /\ UNCHANGED <<local, snapshot, unlisted, unread, planned,
                            pending, currentDB>>
    <3>1. pc = "execute"
      BY <1>9 DEF ExecuteStatement
    <3>2. CallTypeOK'
      BY <1>t, <2>6, <3>1 DEF CallTypeOK
    <3>3. PlanIsDifference' /\ CurrentIsPlanned'
      BY <1>t, <2>6, <3>1 DEF CallInv, PlanIsDifference, CurrentIsPlanned
    <3>. QED  BY <2>3, <2>5, <3>2, <3>3 DEF CallInv
  <2>. QED  BY <2>3, <2>4, <2>5, <2>6, ReturnKeeps
<1>10. CASE Finish
  <2>1. CallInv'
    BY <1>10, ReturnKeeps DEF Finish
  <2>2. ClusterTypeOK' /\ GrantsTypeOK' /\ BudgetTypeOK'
    BY <1>10, <1>t, ClusterKeeps, BudgetKeeps DEF Finish, GrantsTypeOK
  <2>. QED  BY <2>1, <2>2
<1>11. CASE EditGrants
  <2>1. CallInv' /\ ClusterTypeOK'
    BY <1>11, <1>t, CallKeeps, ClusterKeeps DEF EditGrants
  <2>2. GrantsTypeOK'
    BY <1>11 DEF EditGrants, GrantsTypeOK
  <2>3. BudgetTypeOK'
    BY <1>11, <1>t, SyncAssumption DEF EditGrants, BudgetTypeOK
  <2>. QED  BY <2>1, <2>2, <2>3
<1>12. CASE Crash
  <2>1. CallInv'
    BY <1>12, ReturnKeeps DEF Crash
  <2>2. ClusterTypeOK' /\ GrantsTypeOK'
    BY <1>12, <1>t, SyncAssumption DEF Crash, ClusterTypeOK, GrantsTypeOK
  <2>3. BudgetTypeOK'
    BY <1>12, <1>t, FaultType DEF Crash, BudgetTypeOK
  <2>. QED  BY <2>1, <2>2, <2>3
<1>13. CASE OtherClients
  <2>1. Drift
    BY <1>13 DEF OtherClients, OtherGrant, OtherDrop, OtherCreate, OtherUse
  <2>2. CallInv' /\ GrantsTypeOK'
    BY <1>t, <2>1, CallKeeps DEF Drift, GrantsTypeOK
  <2>3. BudgetTypeOK'
    BY <1>t, <2>1, SyncAssumption DEF Drift, BudgetTypeOK
  <2>4. CASE OtherGrant
    <3>1. Letters \subseteq AnyLetter
      BY DEF AnyLetter
    <3>2. acl' \in [Securables -> SUBSET AnyLetter]
      BY <1>t, <2>4, <3>1 DEF OtherGrant, ClusterTypeOK
    <3>. QED  BY <1>t, <2>2, <2>3, <2>4, <3>2 DEF OtherGrant, ClusterTypeOK
  <2>5. CASE OtherDrop
    <3>1. ClusterTypeOK'
      BY <1>t, <2>5 DEF OtherDrop, ClusterTypeOK
    <3>. QED  BY <2>2, <2>3, <3>1
  <2>6. CASE OtherCreate
    <3>1. ClusterTypeOK'
      BY <1>t, <2>6 DEF OtherCreate, ClusterTypeOK
    <3>. QED  BY <2>2, <2>3, <3>1
  <2>7. CASE OtherUse
    <3>1. ClusterTypeOK'
      BY <1>t, <2>7 DEF OtherUse, ClusterTypeOK
    <3>. QED  BY <2>2, <2>3, <3>1
  <2>. QED  BY <1>13, <2>4, <2>5, <2>6, <2>7 DEF OtherClients
<1>14. CASE UNCHANGED vars
  <2>1. CallInv' /\ ClusterTypeOK' /\ BudgetTypeOK'
    BY <1>14, <1>t, CallKeeps, ClusterKeeps, BudgetKeeps DEF vars
  <2>. QED  BY <1>14, <1>t, <2>1 DEF vars, GrantsTypeOK
<1>15. fetchDatabasePrivileges \/ fetchSchemaPrivs \/ fetchObjectPrivsCustom
         => Fail \/ (fetchDatabasePrivileges /\ ~Fail)
              \/ (fetchSchemaPrivs /\ ~Fail)
              \/ (fetchObjectPrivsCustom /\ ~Fail)
  OBVIOUS
<1>. QED
  BY <1>1, <1>2, <1>3, <1>4, <1>5, <1>6, <1>7, <1>8, <1>9, <1>10, <1>11, <1>12,
     <1>13, <1>14, <1>15 DEF Next, syncPrivileges

\* Everything a call works on has the type it should, from the snapshot to
\* the statement it executes, and its statements can be taken apart again.
THEOREM TypeCorrect == Spec => []TypeOK
<1>1. IInv => TypeOK
  BY DEF IInv
<1>. QED  BY <1>1, InitInv, StepInv, PTL DEF Spec

-------------------------------------------------------------------------------
(* No statement takes away what the spec asks for, or gives more.          *)

LEMMA LettersForGrows ==
    ASSUME NEW p, NEW q, p \subseteq q, NEW k
    PROVE  LettersFor(p, k) \subseteq LettersFor(q, k)
BY DEF LettersFor

LEMMA LettersForDiffer ==
    ASSUME NEW p, NEW q, p \cap q = {}, "ALL" \notin p, "ALL" \notin q, NEW k
    PROVE  LettersFor(p, k) \cap LettersFor(q, k) = {}
BY DEF LettersFor

\* With one database a statement is about what the spec names with it, or
\* about the objects of the wildcard it names.
LEMMA TargetsShape ==
    ASSUME Databases = {Default}, NEW o \in Securables \cup Wildcards,
           NEW x \in Targets(o.on, Default)
    PROVE  x \in Securables /\ (x = o \/ (x \in ObjectItems /\ o = WildcardOf(x)))
<1>1. /\ x \in Securables
      /\ x.on = o.on \/ (x \in ObjectItems /\ o.on = WildcardOf(x).on)
  <2>1. CASE o.on[1] = "DATABASE"
    BY <2>1 DEF Targets, Securables
  <2>2. CASE o.on[1] = "SCHEMA"
    BY <2>2 DEF Targets, Securables
  <2>3. CASE o.on[1] \notin {"DATABASE", "SCHEMA"}
    BY <2>3 DEF Targets, Securables
  <2>. QED  BY <2>1, <2>2, <2>3
<1>2. o.db = Default /\ o = [db |-> o.db, on |-> o.on]
  BY ItemShape
<1>3. x.db = Default /\ x = [db |-> x.db, on |-> x.on]
  BY <1>1, ItemShape
<1>4. CASE x.on = o.on
  BY <1>1, <1>2, <1>3, <1>4
<1>5. CASE x \in ObjectItems /\ o.on = WildcardOf(x).on
  <2>1. WildcardOf(x) \in Wildcards /\ WildcardOf(x).db = x.db
    BY <1>5, WildcardShape
  <2>2. WildcardOf(x) = [db |-> WildcardOf(x).db, on |-> WildcardOf(x).on]
    BY <2>1, ItemShape
  <2>. QED  BY <1>1, <1>2, <1>3, <1>5, <2>1, <2>2
<1>. QED  BY <1>1, <1>4, <1>5

LEMMA NamedIsWanted ==
    ASSUME NEW g, NEW o \in DOMAIN g, NEW x \in Securables,
           x = o \/ (x \in ObjectItems /\ o = WildcardOf(x))
    PROVE  LettersFor(g[o], Kind(x)) \subseteq Wanted(g, x)
BY DEF Wanted, Naming

\* Of a plain spec, a named thing is wanted by one entry alone.
LEMMA WantedByOne ==
    ASSUME NEW g, NEW o \in Securables,
           o \in ObjectItems => WildcardOf(o) \notin DOMAIN g
    PROVE  Wanted(g, o) = IF o \in DOMAIN g THEN LettersFor(g[o], Kind(o)) ELSE {}
BY DEF Wanted, Naming

\* What executing one of the changes does to one thing.
LEMMA ChangeStep ==
    ASSUME Databases = {Default}, NEW g, IsGrantSpec(g), NEW e, IsChange(e, g),
           NEW some, some \subseteq Targets(e.stmt.on, Default),
           NEW x \in Securables
    PROVE  /\ Apply(e.stmt, some, acl)[x] \ acl[x] \subseteq Wanted(g, x)
           /\ Plain(g) => acl[x] \cap Wanted(g, x)
                            \subseteq Apply(e.stmt, some, acl)[x]
<1>. DEFINE after == Apply(e.stmt, some, acl)[x]
<1>1. PICK o \in Securables \cup Wildcards, p \in SUBSET (PrivilegeTypes \cup {"ALL"}) :
        \/ /\ o \in DOMAIN g /\ p \subseteq g[o]
           /\ e = Entry(o, "GRANT", p)
        \/ /\ o \in DOMAIN g \cap Securables
           /\ p \cap g[o] = {} /\ "ALL" \notin p
           /\ e = Entry(o, "REVOKE", p)
        \/ /\ o \in Securables \ DOMAIN g
           /\ o \in ObjectItems => WildcardOf(o) \notin DOMAIN g
           /\ e = Entry(o, "REVOKE", {"ALL"})
  BY DEF IsChange
<1>2. e.stmt.on = o.on
  BY <1>1 DEF Entry, Statement
<1>3. CASE x \notin some
  BY <1>3 DEF Apply
<1>4. ASSUME x \in some PROVE x = o \/ (x \in ObjectItems /\ o = WildcardOf(x))
  BY <1>2, <1>4, TargetsShape
<1>5. ASSUME x \in some, o \in Securables PROVE x = o
  BY <1>4, <1>5, WildcardShape
<1>6. CASE /\ x \in some /\ o \in DOMAIN g /\ p \subseteq g[o]
           /\ e = Entry(o, "GRANT", p)
  <2>1. after = acl[x] \cup LettersFor(p, Kind(x))
    BY <1>6 DEF Apply, Entry, Statement
  <2>2. LettersFor(p, Kind(x)) \subseteq Wanted(g, x)
    BY <1>4, <1>6, LettersForGrows, NamedIsWanted
  <2>. QED  BY <2>1, <2>2
<1>7. CASE /\ x \in some /\ o \in DOMAIN g \cap Securables
           /\ p \cap g[o] = {} /\ "ALL" \notin p
           /\ e = Entry(o, "REVOKE", p)
  <2>1. after = acl[x] \ LettersFor(p, Kind(x))
    BY <1>7 DEF Apply, Entry, Statement
  <2>2. ASSUME Plain(g) PROVE LettersFor(p, Kind(x)) \cap Wanted(g, x) = {}
    <3>1. x = o /\ "ALL" \notin g[o]
      BY <1>5, <1>7, <2>2 DEF Plain
    <3>2. o \in ObjectItems => WildcardOf(o) \notin DOMAIN g
      BY <1>7, <2>2 DEF Plain
    <3>3. Wanted(g, x) = LettersFor(g[o], Kind(x))
      BY <1>7, <3>1, <3>2, WantedByOne
    <3>. QED  BY <1>7, <3>1, <3>3, LettersForDiffer
  <2>. QED  BY <2>1, <2>2
<1>8. CASE /\ x \in some /\ o \in Securables \ DOMAIN g
           /\ o \in ObjectItems => WildcardOf(o) \notin DOMAIN g
           /\ e = Entry(o, "REVOKE", {"ALL"})
  <2>1. after = {}
    BY <1>8 DEF Apply, Entry, Statement
  <2>2. Wanted(g, x) = {}
    BY <1>5, <1>8, WantedByOne
  <2>. QED  BY <2>1, <2>2
<1>. QED  BY <1>1, <1>3, <1>6, <1>7, <1>8

\* With one database, whatever the snapshot missed and whenever statements
\* fail: no statement of syncPrivileges gives the user a privilege the spec
\* does not ask for, and none takes away, not even for a moment, what a spec
\* without ALL and without a wildcard beside a named object asks for. With
\* two databases it is not so: the session decides which one is meant.
THEOREM StatementsTowardsSpec ==
    ASSUME Databases = {Default}
    PROVE  Spec => StepsTowardsSpec
<1>. DEFINE Step == pc = "execute" /\ drift' = drift =>
         \A o \in Securables :
             /\ acl'[o] \ acl[o] \subseteq Wanted(local, o)
             /\ Plain(local) => acl[o] \cap Wanted(local, o) \subseteq acl'[o]
<1>1. IInv /\ [Next]_vars => Step
  <2>. SUFFICES ASSUME IInv, [Next]_vars, pc = "execute", drift' = drift,
                       NEW x \in Securables
                PROVE  /\ acl'[x] \ acl[x] \subseteq Wanted(local, x)
                       /\ Plain(local) => acl[x] \cap Wanted(local, x)
                                            \subseteq acl'[x]
    OBVIOUS
  <2>1. CASE UNCHANGED acl
    BY <2>1
  <2>2. CASE ExecuteStatement /\ ~UNCHANGED acl
    <3>1. PICK s \in Sessions :
            acl' = Apply(current, Targets(current.on, sessions[s]) \cap present,
                         acl)
      BY <2>2 DEF ExecuteStatement
    <3>2. sessions[s] = Default
      BY TypeParts DEF IInv, ClusterTypeOK
    <3>3. CallTypeOK
      BY TypeParts DEF IInv
    <3>4. IsGrantSpec(local)
      BY <3>3, GrantsAreSpecs
    <3>5. PICK e \in planned : current = e.stmt
      BY DEF IInv, CurrentIsPlanned
    <3>6. IsChange(e, local)
      BY <3>3, <3>4, <3>5, ChangesAreChanges
         DEF IInv, PlanIsDifference, CallTypeOK
    <3>. QED  BY <3>1, <3>2, <3>4, <3>5, <3>6, ChangeStep
  <2>3. UNCHANGED acl \/ ExecuteStatement
    <3>1. MaxDrift \in Nat /\ drift \in Nat
      BY SyncAssumption, TypeParts DEF IInv, BudgetTypeOK
    <3>2. ~OtherClients
      BY <3>1 DEF OtherClients, OtherGrant, OtherDrop, OtherCreate, OtherUse,
                  Drift
    <3>. QED
      BY <3>2 DEF Next, syncPrivileges, vars, clusterVars, Start, Fail,
         fetchDatabasePrivileges, fetchSchemaPrivs, fetchObjectPrivsCustom,
         Plan, NextStatement, SwitchDatabase, Finish, EditGrants, Crash
  <2>. QED  BY <2>1, <2>2, <2>3
<1>. QED  BY <1>1, InitInv, StepInv, PTL DEF Spec, StepsTowardsSpec

-------------------------------------------------------------------------------
(* A call that reports success has granted everything.                     *)

\* This statement gives the user letter c on o.
Gives(stmt, o, c) ==
    /\ stmt.verb = "GRANT"
    /\ o \in Targets(stmt.on, Default)
    /\ c \in LettersFor(stmt.privs, Kind(o))

\* A statement that the call has yet to execute does.
Due(o, c) ==
    \/ \E e \in pending : Gives(e.stmt, o, c)
    \/ pc = "execute" /\ Gives(current, o, c)

NothingReadYet == pc \in {"idle", "databases"} => snapshot = Empty

\* What the snapshot shows is there: rows may be missing, but none are made up.
ShowsOnly(snap, letters) ==
    \A o \in Securables : snap[o] \subseteq ParseACL(letters[o], Kind(o))

SnapshotIsTrue == pc = "schemas" /\ ~disturbed => ShowsOnly(snapshot, acl)

\* As long as there is a REVOKE to execute, no GRANT has been.
RevokesFirst ==
    (\/ \E e \in pending : e.stmt.verb = "REVOKE"
     \/ pc = "execute" /\ current.verb = "REVOKE")
    => \A e \in planned : e.stmt.verb = "GRANT" => e \in pending

\* What the spec asks for is granted, or a GRANT of it is still to come.
WantedComes ==
    pc \in {"next", "execute"} /\ ~disturbed =>
      \A o \in present : \A c \in Wanted(local, o) : c \in acl[o] \/ Due(o, c)

\* A privilege has one letter.
LEMMA LettersDiffer ==
    ASSUME NEW k, NEW c \in DOMAIN MapChar(k), NEW d \in DOMAIN MapChar(k),
           MapChar(k)[c] = MapChar(k)[d]
    PROVE  c = d
BY DEF MapChar, MapCharToTablePrivilege, MapCharToDatabasePrivilege,
       MapCharToSchemaPrivilege, MapCharToSourcePrivilege,
       MapCharToSinkPrivilege, MapCharToSecretPrivilege,
       MapCharToFunctionPrivilege

\* With one database a statement on a thing, or on its wildcard, reaches it.
LEMMA Reaches ==
    ASSUME Databases = {Default}, NEW x \in Securables,
           NEW o, o = x \/ (x \in ObjectItems /\ o = WildcardOf(x))
    PROVE  x \in Targets(o.on, Default)
<1>1. x.db = Default /\ Kind(x) \in AllKinds
  BY ItemShape
<1>2. CASE x \in DatabaseItems
  <2>1. Kind(x) = "DATABASE" /\ x \notin ObjectItems
    BY <1>2, ItemShape DEF Securables, ObjectKinds
  <2>. QED  BY <1>2, <2>1 DEF Targets, Kind
<1>3. CASE x \in SchemaItems
  <2>1. Kind(x) = "SCHEMA" /\ x \notin ObjectItems
    BY <1>3, ItemShape DEF Securables, ObjectKinds
  <2>. QED  BY <1>1, <1>3, <2>1 DEF Targets, Kind
<1>4. CASE x \in ObjectItems
  <2>1. Kind(x) \in ObjectKinds
    BY <1>4, ItemShape
  <2>2. WildcardOf(x).on[1] = Kind(x)
    BY DEF WildcardOf, Object, Kind
  <2>3. o.on[1] \notin {"DATABASE", "SCHEMA"}
    BY <2>1, <2>2 DEF Kind, ObjectKinds
  <2>. QED  BY <1>1, <1>4, <2>3 DEF Targets
<1>. QED  BY <1>2, <1>3, <1>4 DEF Securables

\* The entry of the spec that asks for a letter.
LEMMA WantedByEntry ==
    ASSUME NEW g, NEW x \in Securables, NEW c \in Wanted(g, x)
    PROVE  \E o \in DOMAIN g :
             /\ o = x \/ (x \in ObjectItems /\ o = WildcardOf(x))
             /\ c \in LettersFor(g[o], Kind(x))
BY DEF Wanted, Naming

\* The difference has a GRANT of every letter an entry of the spec asks for,
\* unless the snapshot shows that privilege there.
LEMMA DifferenceGrants ==
    ASSUME Databases = {Default}, NEW g, NEW snap \in Snapshots,
           NEW x \in Securables, NEW o \in DOMAIN g,
           o = x \/ (x \in ObjectItems /\ o = WildcardOf(x)),
           NEW c \in LettersFor(g[o], Kind(x)),
           o = x => "ALL" \in g[o] \/ MapChar(Kind(x))[c] \notin snap[x]
    PROVE  \E e \in PrivilegeChanges(snap, g) : Gives(e.stmt, x, c)
<1>. DEFINE p == g[o] \ findObjectPrivilege(snap, o)
            e == Entry(o, "GRANT", p)
<1>1. c \in LettersFor(p, Kind(x))
  <2>1. c \in DOMAIN MapChar(Kind(x))
        /\ ("ALL" \in g[o] \/ MapChar(Kind(x))[c] \in g[o])
    BY DEF LettersFor
  <2>2. CASE "ALL" \in g[o]
    <3>1. "ALL" \notin findObjectPrivilege(snap, o)
      BY AllIsNoPrivilege DEF findObjectPrivilege, Snapshots
    <3>. QED  BY <2>1, <2>2, <3>1 DEF LettersFor
  <2>3. CASE "ALL" \notin g[o] /\ o = x
    <3>1. MapChar(Kind(x))[c] \in p
      BY <2>1, <2>3 DEF findObjectPrivilege
    <3>. QED  BY <2>1, <3>1 DEF LettersFor
  <2>4. CASE "ALL" \notin g[o] /\ o # x
    <3>1. findObjectPrivilege(snap, o) = {}
      BY <2>4, WildcardShape DEF findObjectPrivilege
    <3>. QED  BY <2>1, <2>4, <3>1 DEF LettersFor
  <2>. QED  BY <2>2, <2>3, <2>4
<1>2. p # {}
  BY <1>1 DEF LettersFor
<1>3. e \in PrivilegeChanges(snap, g)
  <2>1. e \in CalculateDiff(snap, g, o)
    BY <1>2 DEF CalculateDiff
  <2>. QED  BY <2>1 DEF PrivilegeChanges
<1>4. Gives(e.stmt, x, c)
  BY <1>1, Reaches DEF Gives, Entry, Statement
<1>. QED  BY <1>3, <1>4

\* What the snapshot lacks is planned.
LEMMA PlanCovers ==
    ASSUME Databases = {Default}, NEW g, NEW snap \in Snapshots,
           ShowsOnly(snap, acl), NEW x \in Securables,
           NEW c \in Wanted(g, x), c \notin acl[x]
    PROVE  \E e \in PrivilegeChanges(snap, g) : Gives(e.stmt, x, c)
<1>1. PICK o \in DOMAIN g :
        /\ o = x \/ (x \in ObjectItems /\ o = WildcardOf(x))
        /\ c \in LettersFor(g[o], Kind(x))
  BY WantedByEntry
<1>2. MapChar(Kind(x))[c] \notin ParseACL(acl[x], Kind(x))
  <2>1. c \in DOMAIN MapChar(Kind(x))
    BY <1>1 DEF LettersFor
  <2>. QED  BY <2>1, LettersDiffer DEF ParseACL
<1>3. MapChar(Kind(x))[c] \notin snap[x]
  BY <1>2 DEF ShowsOnly
<1>. QED  BY <1>1, <1>3, DifferenceGrants

\* What a REVOKE takes away although the spec asks for it, a GRANT gives back.
LEMMA RevokedIsGranted ==
    ASSUME Databases = {Default}, NEW g, IsGrantSpec(g),
           NEW snap \in Snapshots, NEW e \in PrivilegeChanges(snap, g),
           e.stmt.verb = "REVOKE",
           NEW some, some \subseteq Targets(e.stmt.on, Default),
           NEW x \in Securables, NEW c \in Wanted(g, x),
           c \in acl[x], c \notin Apply(e.stmt, some, acl)[x]
    PROVE  \E f \in PrivilegeChanges(snap, g) : Gives(f.stmt, x, c)
<1>1. PICK o \in Securables, p \in SUBSET (PrivilegeTypes \cup {"ALL"}) :
        \/ /\ o \in DOMAIN g /\ p \cap g[o] = {} /\ "ALL" \notin p
           /\ e = Entry(o, "REVOKE", p)
        \/ /\ o \notin DOMAIN g
           /\ o \in ObjectItems => WildcardOf(o) \notin DOMAIN g
           /\ e = Entry(o, "REVOKE", {"ALL"})
  <2>1. IsChange(e, g)
    BY ChangesAreChanges
  <2>2. \A y, q : e # Entry(y, "GRANT", q)
    BY DEF Entry, Statement
  <2>. QED  BY <2>1, <2>2 DEF IsChange
<1>2. e.stmt.on = o.on
  BY <1>1 DEF Entry, Statement
<1>3. x \in some
  BY DEF Apply
<1>4. x = o
  BY <1>2, <1>3, TargetsShape, WildcardShape
<1>5. CASE /\ o \in DOMAIN g /\ p \cap g[o] = {} /\ "ALL" \notin p
           /\ e = Entry(o, "REVOKE", p)
  <2>1. c \in LettersFor(p, Kind(x))
    BY <1>3, <1>5 DEF Apply, Entry, Statement
  <2>2. c \in DOMAIN MapChar(Kind(x)) /\ MapChar(Kind(x))[c] \notin g[x]
    BY <1>4, <1>5, <2>1 DEF LettersFor
  <2>3. PICK y \in DOMAIN g :
          /\ y = x \/ (x \in ObjectItems /\ y = WildcardOf(x))
          /\ c \in LettersFor(g[y], Kind(x))
    BY WantedByEntry
  <2>4. y = x => "ALL" \in g[y]
    BY <2>2, <2>3 DEF LettersFor
  <2>. QED  BY <2>3, <2>4, DifferenceGrants
<1>6. CASE /\ o \notin DOMAIN g
           /\ o \in ObjectItems => WildcardOf(o) \notin DOMAIN g
  BY <1>4, <1>6, WantedByOne
<1>. QED  BY <1>1, <1>5, <1>6

\* What the invariant needs beside IInv.
CallParts == NothingReadYet /\ SnapshotIsTrue /\ RevokesFirst /\ WantedComes

LEMMA ReturnKeepsParts == Return => CallParts'
BY DEF Return, CallParts, NothingReadYet, SnapshotIsTrue, RevokesFirst,
       WantedComes

LEMMA InitParts == Init => CallParts
BY DEF Init, CallParts, NothingReadYet, SnapshotIsTrue, RevokesFirst,
       WantedComes

\* Queries do not touch the statements.
LEMMA QueryKeepsParts ==
    ASSUME CallParts, pc \in {"idle", "databases", "schemas"},
           pc' \in {"databases", "schemas"},
           UNCHANGED <<planned, pending>>,
           pc' = "databases" => snapshot' = Empty,
           pc' = "schemas" /\ ~disturbed' => ShowsOnly(snapshot', acl')
    PROVE  CallParts'
<1>1. NothingReadYet' /\ SnapshotIsTrue' /\ WantedComes'
  BY DEF NothingReadYet, SnapshotIsTrue, WantedComes
<1>2. RevokesFirst'
  BY DEF CallParts, RevokesFirst
<1>. QED  BY <1>1, <1>2 DEF CallParts

LEMMA EmptyShowsNothing ==
    ASSUME NEW letters PROVE ShowsOnly(Empty, letters)
BY DEF ShowsOnly, Empty

\* With one database a query reads what it records.
LEMMA RecordedIsTrue ==
    ASSUME Databases = {Default}, ShowsOnly(snapshot, acl), NEW items
    PROVE  ShowsOnly(Recorded(items, Default), acl)
<1>. SUFFICES ASSUME NEW o \in Securables
              PROVE  Recorded(items, Default)[o]
                       \subseteq ParseACL(acl[o], Kind(o))
  BY DEF ShowsOnly
<1>1. [o EXCEPT !.db = Default] = o
  BY ItemShape
<1>2. snapshot[o] \subseteq ParseACL(acl[o], Kind(o))
  BY DEF ShowsOnly
<1>. QED  BY <1>1, <1>2 DEF Recorded

\* Taking the next statement up.
LEMMA TakeKeepsParts ==
    ASSUME CallInv, CallParts, pc = "next", pc' = "execute",
           NEW e \in NextEntries, pending' = pending \ {e}, current' = e.stmt,
           UNCHANGED <<acl, present, local, snapshot, planned>>,
           disturbed' = TRUE \/ UNCHANGED disturbed
    PROVE  CallParts'
<1>1. NothingReadYet' /\ SnapshotIsTrue'
  BY DEF NothingReadYet, SnapshotIsTrue
<1>2. e \in pending
  BY DEF NextEntries
<1>3. RevokesFirst'
  <2>1. CASE e.stmt.verb = "REVOKE"
    BY <1>2, <2>1 DEF CallParts, RevokesFirst
  <2>2. CASE e.stmt.verb # "REVOKE"
    <3>1. \A f \in pending : f.stmt.verb # "REVOKE"
      BY <2>2 DEF NextEntries
    <3>. QED  BY <2>2, <3>1 DEF RevokesFirst
  <2>. QED  BY <2>1, <2>2
<1>4. WantedComes'
  <2>. SUFFICES ASSUME ~disturbed', NEW o \in present,
                       NEW c \in Wanted(local, o), c \notin acl[o]
                PROVE  Due(o, c)'
    BY DEF WantedComes
  <2>1. PICK f \in pending : Gives(f.stmt, o, c)
    BY DEF CallParts, WantedComes, Due
  <2>2. CASE f = e
    BY <2>1, <2>2 DEF Due, Gives
  <2>3. CASE f # e
    BY <2>1, <2>3 DEF Due, Gives
  <2>. QED  BY <2>2, <2>3
<1>. QED  BY <1>1, <1>3, <1>4 DEF CallParts

\* Executing a statement that is neither lost nor followed by a return.
LEMMA ExecuteKeepsParts ==
    ASSUME Databases = {Default}, CallInv, ClusterTypeOK, CallParts,
           pc = "execute", pc' = "next",
           \/ disturbed' = TRUE
           \/ /\ UNCHANGED disturbed
              /\ acl' = Apply(current, Targets(current.on, Default) \cap present,
                              acl),
           UNCHANGED <<present, local, snapshot, planned, pending>>
    PROVE  CallParts'
<1>1. NothingReadYet' /\ SnapshotIsTrue'
  BY DEF NothingReadYet, SnapshotIsTrue
<1>2. RevokesFirst'
  BY DEF CallParts, RevokesFirst
<1>3. WantedComes'
  <2>. SUFFICES ASSUME ~disturbed', NEW o \in present,
                       NEW c \in Wanted(local, o), c \notin acl'[o]
                PROVE  \E f \in pending : Gives(f.stmt, o, c)
    BY DEF WantedComes, Due, Gives
  <2>1. PICK some \in {Targets(current.on, Default) \cap present} :
          acl' = Apply(current, some, acl) /\ ~disturbed
    OBVIOUS
  <2>2. CallTypeOK /\ IsGrantSpec(local) /\ o \in Securables
        /\ planned = PrivilegeChanges(snapshot, local)
    <3>1. CallTypeOK /\ planned = PrivilegeChanges(snapshot, local)
      BY DEF CallInv, PlanIsDifference
    <3>2. IsGrantSpec(local)
      BY <3>1, GrantsAreSpecs
    <3>3. o \in Securables
      BY DEF ClusterTypeOK
    <3>. QED  BY <3>1, <3>2, <3>3
  <2>3. PICK e \in planned : current = e.stmt
    BY DEF CallInv, CurrentIsPlanned
  <2>4. e.stmt.verb \in {"GRANT", "REVOKE"}
    BY <2>2 DEF CallTypeOK, Entries, Statements
  <2>5. c \in acl[o] \/ Due(o, c)
    BY <2>1 DEF CallParts, WantedComes
  <2>6. ASSUME Gives(current, o, c) PROVE FALSE
    BY <2>1, <2>2, <2>6 DEF Gives, Apply
  <2>7. CASE c \in acl[o]
    <3>1. current.verb = "REVOKE"
      BY <2>1, <2>2, <2>3, <2>4, <2>7 DEF Apply
    <3>2. PICK f \in planned : Gives(f.stmt, o, c)
      BY <2>1, <2>2, <2>3, <2>7, <3>1, RevokedIsGranted DEF CallTypeOK
    <3>. QED  BY <3>1, <3>2 DEF CallParts, RevokesFirst, Gives
  <2>. QED  BY <2>5, <2>6, <2>7 DEF Due
<1>. QED  BY <1>1, <1>2, <1>3 DEF CallParts

LEMMA StepParts ==
    ASSUME Databases = {Default}, IInv, CallParts, [Next]_vars
    PROVE  CallParts'
<1>t. CallInv /\ CallTypeOK /\ ClusterTypeOK
  BY InvParts DEF CallInv
<1>s. \A s \in Sessions : sessions[s] = Default
  BY <1>t DEF ClusterTypeOK
<1>1. CASE Start
  BY <1>1, <1>t, QueryKeepsParts
     DEF Start, CallParts, NothingReadYet, clusterVars
<1>2. CASE Fail
  BY <1>2, ReturnKeepsParts DEF Fail
<1>3. CASE fetchDatabasePrivileges /\ ~Fail
  <2>1. PICK dbs :
          snapshot' = [o \in Securables |->
                        IF \E d \in dbs : o = Database(d)
                        THEN ParseACL(acl[o], "DATABASE") ELSE {}]
          /\ dbs \subseteq Databases
    BY <1>3 DEF fetchDatabasePrivileges
  <2>2. ShowsOnly(snapshot', acl)
    <3>. SUFFICES ASSUME NEW o \in Securables, NEW d \in dbs, o = Database(d)
                  PROVE  Kind(o) = "DATABASE"
      BY <2>1 DEF ShowsOnly
    <3>. QED  BY DEF Database, Kind
  <2>. QED
    BY <1>3, <2>2, QueryKeepsParts DEF fetchDatabasePrivileges, clusterVars
<1>4. CASE fetchSchemaPrivs /\ ~Fail
  <2>1. PICK items : snapshot' = Recorded(items, Default)
    BY <1>4, <1>s DEF fetchSchemaPrivs
  <2>2. ~disturbed' => ShowsOnly(snapshot', acl)
    BY <1>4, <2>1, RecordedIsTrue
       DEF fetchSchemaPrivs, CallParts, SnapshotIsTrue
  <2>. QED
    BY <1>4, <2>2, QueryKeepsParts DEF fetchSchemaPrivs, clusterVars
<1>5. CASE fetchObjectPrivsCustom /\ ~Fail
  <2>1. PICK items : snapshot' = Recorded(items, Default)
    BY <1>5, <1>s DEF fetchObjectPrivsCustom
  <2>2. ~disturbed' => ShowsOnly(snapshot', acl)
    BY <1>5, <2>1, RecordedIsTrue
       DEF fetchObjectPrivsCustom, CallParts, SnapshotIsTrue
  <2>. QED
    BY <1>5, <2>2, QueryKeepsParts DEF fetchObjectPrivsCustom, clusterVars
<1>6. CASE Plan
  <2>1. NothingReadYet' /\ SnapshotIsTrue' /\ RevokesFirst'
    BY <1>6 DEF Plan, NothingReadYet, SnapshotIsTrue, RevokesFirst
  <2>2. WantedComes'
    <3>. SUFFICES ASSUME ~disturbed, NEW o \in present,
                         NEW c \in Wanted(local, o), c \notin acl[o]
                  PROVE  \E e \in PrivilegeChanges(snapshot, local) :
                           Gives(e.stmt, o, c)
      BY <1>6 DEF Plan, WantedComes, Due, Gives, clusterVars
    <3>1. ShowsOnly(snapshot, acl)
      BY <1>6 DEF Plan, CallParts, SnapshotIsTrue
    <3>. QED  BY <1>t, <3>1, PlanCovers DEF CallTypeOK, ClusterTypeOK
  <2>. QED  BY <2>1, <2>2 DEF CallParts
<1>7. CASE NextStatement
  BY <1>7, <1>t, TakeKeepsParts DEF NextStatement, clusterVars
<1>8. CASE SwitchDatabase
  BY <1>8, <1>t, TakeKeepsParts DEF SwitchDatabase
<1>9. CASE ExecuteStatement
  <2>1. PICK s \in Sessions :
          \E some \in {Targets(current.on, sessions[s]) \cap present} :
            \/ Return
            \/ /\ pc' = "next"
               /\ UNCHANGED <<local, snapshot, planned, pending>>
               /\ \/ disturbed' = TRUE
                  \/ UNCHANGED disturbed /\ acl' = Apply(current, some, acl)
    BY <1>9 DEF ExecuteStatement
  <2>2. PICK some \in {Targets(current.on, Default) \cap present} :
            \/ Return
            \/ /\ pc' = "next"
               /\ UNCHANGED <<local, snapshot, planned, pending>>
               /\ \/ disturbed' = TRUE
                  \/ UNCHANGED disturbed /\ acl' = Apply(current, some, acl)
    BY <1>s, <2>1
  <2>3. CASE Return
    BY <2>3, ReturnKeepsParts
  <2>4. CASE ~Return
    <3>1. pc = "execute" /\ UNCHANGED present
      BY <1>9 DEF ExecuteStatement
    <3>. QED  BY <1>t, <2>2, <2>4, <3>1, ExecuteKeepsParts
  <2>. QED  BY <2>3, <2>4
<1>10. CASE Finish \/ Crash
  BY <1>10, ReturnKeepsParts DEF Finish, Crash
<1>11. CASE EditGrants \/ UNCHANGED vars
  <2>1. UNCHANGED <<acl, present, pc, local, snapshot, planned, pending,
                    current, disturbed>>
    BY <1>11 DEF EditGrants, vars, clusterVars, callVars
  <2>. QED
    BY <2>1 DEF CallParts, NothingReadYet, SnapshotIsTrue, RevokesFirst,
                WantedComes, Due, Gives
<1>12. CASE OtherClients
  <2>1. disturbed' = TRUE
        /\ UNCHANGED <<pc, snapshot, planned, pending, current>>
    BY <1>12 DEF OtherClients, OtherGrant, OtherDrop, OtherCreate, OtherUse,
                 Drift, callVars
  <2>. QED
    BY <2>1 DEF CallParts, NothingReadYet, SnapshotIsTrue, RevokesFirst,
                WantedComes
<1>. QED
  BY <1>1, <1>2, <1>3, <1>4, <1>5, <1>6, <1>7, <1>8, <1>9, <1>10, <1>11, <1>12
     DEF Next, syncPrivileges

\* With one database, any schemas, objects, grants and sessions: if a call is
\* not disturbed, then even if its snapshot lacks rows it reports
\* PrivilegesSynced only when the user has all the spec asks for, what its
\* own REVOKEs took away included.
THEOREM CompleteCallsGrant ==
    ASSUME Databases = {Default}
    PROVE  Spec => CompleteMeansGranted
<1>. DEFINE Step == Synced /\ pc' = "idle" /\ faults' = faults /\ ~disturbed
                      => Granted(local)
<1>1. Init => IInv /\ CallParts
  BY InitInv, InitParts
<1>2. IInv /\ CallParts /\ [Next]_vars => (IInv /\ CallParts)'
  BY StepInv, StepParts
<1>3. IInv /\ CallParts => [Step]_vars
  BY DEF CallParts, WantedComes, Due, Synced, Granted
<1>. QED  BY <1>1, <1>2, <1>3, PTL DEF Spec, CompleteMeansGranted

===============================================================================
