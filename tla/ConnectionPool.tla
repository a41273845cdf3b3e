---------------------------- MODULE ConnectionPool ----------------------------
(***************************************************************************)
(* rwclient.Pool (internal/rwclient/pool.go): a sync.Map from clusters to  *)
(* *sql.DB handles that the workers of all controllers and the health      *)
(* checker share. There is no lock around a whole operation: each map      *)
(* access, ping and Close is a step of its own, and the entry a thread     *)
(* loaded may have been replaced when it acts on it.                       *)
(*                                                                         *)
(* Handles that neither the map nor a thread refers to are out of reach of *)
(* the program and may be used again for a new sql.Open, so that no run is *)
(* too long for the model.                                                 *)
(***************************************************************************)
EXTENDS FiniteSets, Naturals

CONSTANTS
    Reconcilers,    \* workers of the three controllers
    Janitor,        \* the goroutine of startHealthChecker
    Keys,           \* ConnectionKeys: namespace/host:port
    Handles,        \* *sql.DB values
    None            \* no handle

ASSUME PoolAssumption == Janitor \notin Reconcilers /\ None \notin Handles

Threads == Reconcilers \cup {Janitor}

VARIABLES
    connections,    \* the sync.Map
    open,           \* handles on which Close has not been called
    fresh,          \* handles whose lastUsed is within idleConnectionTTL
    pc,             \* thread -> its next step
    key,            \* thread -> key it works on
    conn,           \* thread -> handle in its local variable
    todo            \* keys the Janitor's Range has yet to visit

vars == <<connections, open, fresh, pc, key, conn, todo>>

GetSteps == {"touch", "ping", "delete", "open", "pingNew", "store"}

RemoveSteps == {"removeClose", "removeDelete"}

JanitorSteps ==
    {"wait", "health", "healthPing", "healthDelete", "healthClose",
     "cleanup", "isStale", "cleanupDelete", "cleanupClose"}

InMap(h) == \E k \in Keys : connections[k] = h

Unreachable(h) == ~InMap(h) /\ \A t \in Threads : conn[t] # h

Init ==
    /\ connections = [k \in Keys |-> None]
    /\ open = {} /\ fresh = {} /\ todo = {}
    /\ pc = [t \in Threads |-> IF t = Janitor THEN "wait" ELSE "idle"]
    /\ key \in [Threads -> Keys]
    /\ conn = [t \in Threads |-> None]

Goto(t, step) == pc' = [pc EXCEPT ![t] = step]

Take(t, h) == conn' = [conn EXCEPT ![t] = h]

\* Mutant: the key does not compare equal to the one the handle is stored by.
MapDeleteNothing(t) == UNCHANGED connections

\* connections.Delete(key) removes whatever the key maps to by now.
MapDelete(t) == connections' = [connections EXCEPT ![key[t]] = None]

-------------------------------------------------------------------------------
(* Pool.Get, called by a Reconcile call for the cluster of its resource.   *)

\* Mutant: the result of Load is used although there is none.
LoadBlindly(r) ==
    /\ pc[r] = "idle"
    /\ \E k \in Keys :
         /\ key' = [key EXCEPT ![r] = k]
         /\ Take(r, connections[k])
         /\ Goto(r, "touch")
    /\ UNCHANGED <<connections, open, fresh, todo>>

Load(r) ==
    /\ pc[r] = "idle"
    /\ \E k \in Keys :
         /\ key' = [key EXCEPT ![r] = k]
         /\ Take(r, connections[k])
         /\ Goto(r, IF connections[k] = None THEN "open" ELSE "touch")
    /\ UNCHANGED <<connections, open, fresh, todo>>

UpdateLastUsed(r) ==
    /\ pc[r] = "touch"
    /\ fresh' = fresh \cup {conn[r]}
    /\ Goto(r, "ping")
    /\ UNCHANGED <<connections, open, key, conn, todo>>

\* PingContext fails on a closed handle and may fail on any other.
Ping(r) ==
    /\ pc[r] = "ping"
    /\ \/ conn[r] \in open /\ Goto(r, "use")
       \/ Goto(r, "delete")
    /\ UNCHANGED <<connections, open, fresh, key, conn, todo>>

\* The dead handle is taken out of the map and not closed.
DeleteDead(r) ==
    /\ pc[r] = "delete"
    /\ MapDelete(r)
    /\ Take(r, None)
    /\ Goto(r, "open")
    /\ UNCHANGED <<open, fresh, key, todo>>

\* Mutant: the new handle is stored before it has answered a ping.
OpenAndStore(r) ==
    /\ pc[r] = "open"
    /\ \E h \in Handles :
         /\ Unreachable(h)
         /\ Take(r, h)
         /\ connections' = [connections EXCEPT ![key[r]] = h]
         /\ open' = open \cup {h}
         /\ fresh' = fresh \ {h}
    /\ Goto(r, "pingNew")
    /\ UNCHANGED <<key, todo>>

Open(r) ==
    /\ pc[r] = "open"
    /\ \E h \in Handles :
         /\ Unreachable(h)
         /\ Take(r, h)
         /\ open' = open \cup {h}
         /\ fresh' = fresh \ {h}
    /\ Goto(r, "pingNew")
    /\ UNCHANGED <<connections, key, todo>>

\* A new handle that does not answer is closed, and Get fails.
PingNew(r) ==
    /\ pc[r] = "pingNew"
    /\ \/ Goto(r, "store") /\ UNCHANGED <<open, conn>>
       \/ /\ open' = open \ {conn[r]}
          /\ Take(r, None)
          /\ Goto(r, "idle")
    /\ UNCHANGED <<connections, fresh, key, todo>>

Store(r) ==
    /\ pc[r] = "store"
    /\ connections' = [connections EXCEPT ![key[r]] = conn[r]]
    /\ fresh' = fresh \cup {conn[r]}
    /\ Goto(r, "use")
    /\ UNCHANGED <<open, key, conn, todo>>

\* The Reconcile call runs its statements on the handle and ends, or it was
\* a finalization, which calls Remove when it has succeeded.
Return(r) ==
    /\ pc[r] = "use"
    /\ Take(r, None)
    /\ Goto(r, "idle")
    /\ UNCHANGED <<connections, open, fresh, key, todo>>

-------------------------------------------------------------------------------
(* Pool.Remove. *)

RemoveLoad(r) ==
    /\ pc[r] = "use"
    /\ Take(r, connections[key[r]])
    /\ Goto(r, IF connections[key[r]] = None THEN "idle" ELSE "removeClose")
    /\ UNCHANGED <<connections, open, fresh, key, todo>>

\* Mutant: Remove closes the handle and leaves it in the map.
RemoveKeepsEntry(r) ==
    /\ pc[r] = "removeClose"
    /\ open' = open \ {conn[r]}
    /\ Take(r, None)
    /\ Goto(r, "idle")
    /\ UNCHANGED <<connections, fresh, key, todo>>

RemoveClose(r) ==
    /\ pc[r] = "removeClose"
    /\ open' = open \ {conn[r]}
    /\ Goto(r, "removeDelete")
    /\ UNCHANGED <<connections, fresh, key, conn, todo>>

RemoveDelete(r) ==
    /\ pc[r] = "removeDelete"
    /\ MapDelete(r)
    /\ Take(r, None)
    /\ Goto(r, "idle")
    /\ UNCHANGED <<open, fresh, key, todo>>

-------------------------------------------------------------------------------
(* The health checker: healthCheck, then cleanupStaleConnections, each a   *)
(* Range over the map, on every tick.                                      *)

Tick ==
    /\ pc[Janitor] = "wait"
    /\ todo' = Keys
    /\ Goto(Janitor, "health")
    /\ UNCHANGED <<connections, open, fresh, key, conn>>

\* Range calls its function for an entry of the map; the two Ranges differ
\* in what the function does first.
Visit(range, first) ==
    /\ pc[Janitor] = range
    /\ \E k \in todo :
         /\ todo' = todo \ {k}
         /\ key' = [key EXCEPT ![Janitor] = k]
         /\ Take(Janitor, connections[k])
         /\ Goto(Janitor, IF connections[k] = None THEN range ELSE first)
    /\ UNCHANGED <<connections, open, fresh>>

EndRange ==
    /\ todo = {}
    /\ \/ /\ pc[Janitor] = "health"
          /\ todo' = Keys
          /\ Goto(Janitor, "cleanup")
       \/ /\ pc[Janitor] = "cleanup"
          /\ Goto(Janitor, "wait") /\ UNCHANGED todo
    /\ UNCHANGED <<connections, open, fresh, key, conn>>

HealthPing ==
    /\ pc[Janitor] = "healthPing"
    /\ \/ conn[Janitor] \in open /\ Take(Janitor, None) /\ Goto(Janitor, "health")
       \/ Goto(Janitor, "healthDelete") /\ UNCHANGED conn
    /\ UNCHANGED <<connections, open, fresh, key, todo>>

\* Mutant: no handle is ever stale.
IsNeverStale ==
    /\ pc[Janitor] = "isStale"
    /\ Take(Janitor, None) /\ Goto(Janitor, "cleanup")
    /\ UNCHANGED <<connections, open, fresh, key, todo>>

IsStale ==
    /\ pc[Janitor] = "isStale"
    /\ IF conn[Janitor] \in fresh
       THEN Take(Janitor, None) /\ Goto(Janitor, "cleanup")
       ELSE Goto(Janitor, "cleanupDelete") /\ UNCHANGED conn
    /\ UNCHANGED <<connections, open, fresh, key, todo>>

JanitorDelete(from, to) ==
    /\ pc[Janitor] = from
    /\ MapDelete(Janitor)
    /\ Goto(Janitor, to)
    /\ UNCHANGED <<open, fresh, key, conn, todo>>

JanitorClose(from, range) ==
    /\ pc[Janitor] = from
    /\ open' = open \ {conn[Janitor]}
    /\ Take(Janitor, None)
    /\ Goto(Janitor, range)
    /\ UNCHANGED <<connections, fresh, key, todo>>

\* idleConnectionTTL has passed since the last use of a handle.
Age ==
    /\ \E h \in fresh : ~Unreachable(h) /\ fresh' = fresh \ {h}
    /\ UNCHANGED <<connections, open, pc, key, conn, todo>>

-------------------------------------------------------------------------------
\* Get after its first step, and Remove.
Get(r) ==
    \/ UpdateLastUsed(r) \/ Ping(r) \/ DeleteDead(r)
    \/ Open(r) \/ PingNew(r) \/ Store(r)

Remove(r) == RemoveLoad(r) \/ RemoveClose(r) \/ RemoveDelete(r)

healthCheck ==
    \/ Visit("health", "healthPing")
    \/ HealthPing
    \/ JanitorDelete("healthDelete", "healthClose")
    \/ JanitorClose("healthClose", "health")

cleanupStaleConnections ==
    \/ Visit("cleanup", "isStale")
    \/ IsStale
    \/ JanitorDelete("cleanupDelete", "cleanupClose")
    \/ JanitorClose("cleanupClose", "cleanup")

Worker(r) == Get(r) \/ Return(r) \/ Remove(r)

HealthChecker == Tick \/ healthCheck \/ cleanupStaleConnections \/ EndRange

Next ==
    \/ \E r \in Reconcilers : Load(r) \/ Worker(r)
    \/ HealthChecker
    \/ Age

Spec == Init /\ [][Next]_vars

\* Goroutines are scheduled, and pings and statements end (lib/pq and the
\* operating system time out); nobody has to call Reconcile.
FairSpec ==
    /\ Spec
    /\ \A r \in Reconcilers : WF_vars(Worker(r))
    /\ WF_vars(HealthChecker)

-------------------------------------------------------------------------------
(* Properties. *)

TypeOK ==
    /\ connections \in [Keys -> Handles \cup {None}]
    /\ open \subseteq Handles /\ fresh \subseteq Handles
    /\ pc \in [Threads -> {"idle", "use"} \cup GetSteps \cup RemoveSteps
                            \cup JanitorSteps]
    /\ key \in [Threads -> Keys]
    /\ conn \in [Threads -> Handles \cup {None}]
    /\ todo \subseteq Keys

\* A closed handle stays in the map only while the Remove that closed it has
\* its Delete for that key ahead: no order of Get, Remove and the health
\* checker leaves a dead entry behind.
ClosedIsLeaving ==
    \A k \in Keys :
        connections[k] \notin open \cup {None} =>
            \E r \in Reconcilers : pc[r] = "removeDelete" /\ key[r] = k

\* A handle a Get has opened and not yet stored is open and its own: closing
\* it after a failed ping takes it from nobody.
PrivateUntilStored ==
    \A r \in Reconcilers :
        pc[r] \in {"pingNew", "store"} =>
            /\ conn[r] \in open
            /\ ~InMap(conn[r])
            /\ \A t \in Threads \ {r} : conn[t] # conn[r]

\* Every closed handle leaves the map.
ClosedHandlesLeave ==
    \A k \in Keys :
        connections[k] \notin open \cup {None}
            ~> connections[k] \in open \cup {None}

\* A handle nobody has used for idleConnectionTTL leaves the map, or it is
\* used again.
StaleHandlesLeave ==
    \A k \in Keys :
        connections[k] \notin fresh \cup {None}
            ~> connections[k] \in fresh \cup {None}

===============================================================================
