------------------------- MODULE ConnectionPoolProofs -------------------------
(***************************************************************************)
(* Proofs about ConnectionPool for any number of workers, clusters and     *)
(* handles.                                                                *)
(*                                                                         *)
(* That a closed handle is on its way out of the map is not inductive:     *)
(* one has to know that a handle is stored under one key only, that a      *)
(* thread works on a handle under the key it is stored under (Filed), and  *)
(* that a handle not yet stored is nobody else's. Only then does the       *)
(* Delete that follows, or has preceded, a Close hit the right entry.      *)
(***************************************************************************)
EXTENDS ConnectionPool, TLAPS

\* A thread that holds a handle which is in the map works on its key, and no
\* handle is in the map twice.
Filed ==
    /\ \A t \in Threads, k \in Keys :
         connections[k] # None /\ connections[k] = conn[t] => k = key[t]
    /\ \A k, l \in Keys :
         connections[k] # None /\ connections[k] = connections[l] => k = l

\* The health checker closes what it has taken out of the map.
JanitorClosesDeleted ==
    pc[Janitor] \in {"healthClose", "cleanupClose"} =>
        ~InMap(conn[Janitor]) \/ conn[Janitor] = None

\* The steps at which a thread relies on holding a handle.
Holding ==
    {"touch", "ping", "pingNew", "store", "removeClose", "healthPing",
     "healthDelete", "healthClose", "isStale", "cleanupDelete",
     "cleanupClose"}

HoldsHandle == \A t \in Threads : pc[t] \in Holding => conn[t] \in Handles

IInv ==
    /\ TypeOK
    /\ HoldsHandle
    /\ Filed
    /\ JanitorClosesDeleted
    /\ PrivateUntilStored
    /\ ClosedIsLeaving

-------------------------------------------------------------------------------
(* Type correctness. *)

LEMMA InitType == Init => TypeOK
BY PoolAssumption DEF Init, TypeOK, JanitorSteps

LEMMA WorkerType ==
    ASSUME TypeOK, HoldsHandle, NEW r \in Reconcilers, Load(r) \/ Worker(r)
    PROVE  TypeOK'
<1>. USE DEF TypeOK, Threads, Take, Goto, MapDelete, GetSteps, RemoveSteps
<1>1. CASE Load(r)
  BY <1>1 DEF Load
<1>2. CASE UpdateLastUsed(r) /\ conn[r] \in Handles
  BY <1>2 DEF UpdateLastUsed
<1>3. CASE Ping(r) \/ DeleteDead(r) \/ Return(r)
  BY <1>3 DEF Ping, DeleteDead, Return
<1>4. CASE Open(r)
  BY <1>4 DEF Open
<1>5. CASE PingNew(r)
  BY <1>5 DEF PingNew
<1>6. CASE Store(r) /\ conn[r] \in Handles
  BY <1>6 DEF Store
<1>7. CASE Remove(r)
  BY <1>7 DEF Remove, RemoveLoad, RemoveClose, RemoveDelete
<1>8. (UpdateLastUsed(r) \/ Store(r)) => conn[r] \in Handles
  BY DEF UpdateLastUsed, Store, HoldsHandle, Holding, Threads
<1>. QED  BY <1>1, <1>2, <1>3, <1>4, <1>5, <1>6, <1>7, <1>8 DEF Worker, Get

LEMMA JanitorType ==
    ASSUME TypeOK, HealthChecker
    PROVE  TypeOK'
<1>. USE DEF TypeOK, Threads, Take, Goto, MapDelete, JanitorSteps
<1>1. CASE Tick \/ EndRange
  BY <1>1 DEF Tick, EndRange
<1>2. CASE Visit("health", "healthPing") \/ Visit("cleanup", "isStale")
  BY <1>2 DEF Visit
<1>3. CASE HealthPing \/ IsStale
  BY <1>3 DEF HealthPing, IsStale
<1>4. CASE \/ JanitorDelete("healthDelete", "healthClose")
           \/ JanitorDelete("cleanupDelete", "cleanupClose")
  BY <1>4 DEF JanitorDelete
<1>5. CASE \/ JanitorClose("healthClose", "health")
           \/ JanitorClose("cleanupClose", "cleanup")
  BY <1>5 DEF JanitorClose
<1>. QED
  BY <1>1, <1>2, <1>3, <1>4, <1>5
     DEF HealthChecker, healthCheck, cleanupStaleConnections

LEMMA StepType ==
    ASSUME TypeOK, HoldsHandle, [Next]_vars
    PROVE  TypeOK'
<1>1. CASE Age
  BY <1>1 DEF Age, TypeOK
<1>2. CASE UNCHANGED vars
  BY <1>2 DEF vars, TypeOK
<1>. QED  BY <1>1, <1>2, WorkerType, JanitorType DEF Next

-------------------------------------------------------------------------------
(* The steps of one thread, as the others see them. *)

\* Only a thread's own steps change its step, key and handle.
LEMMA WorkerIsAlone ==
    ASSUME TypeOK, NEW r \in Reconcilers, Load(r) \/ Worker(r),
           NEW t \in Threads, t # r
    PROVE  pc'[t] = pc[t] /\ key'[t] = key[t] /\ conn'[t] = conn[t]
BY DEF Worker, Get, Remove, Load, UpdateLastUsed, Ping, DeleteDead, Open,
       PingNew, Store, Return, RemoveLoad, RemoveClose, RemoveDelete, Take,
       Goto, TypeOK

LEMMA JanitorIsAlone ==
    ASSUME TypeOK, HealthChecker, NEW t \in Threads, t # Janitor
    PROVE  pc'[t] = pc[t] /\ key'[t] = key[t] /\ conn'[t] = conn[t]
BY DEF HealthChecker, healthCheck, cleanupStaleConnections, Tick, EndRange,
       Visit, HealthPing, IsStale, JanitorDelete, JanitorClose, Take, Goto,
       TypeOK

LEMMA StepHolds ==
    ASSUME TypeOK, HoldsHandle, [Next]_vars
    PROVE  HoldsHandle'
<1>1. ASSUME NEW r \in Reconcilers, Load(r) \/ Worker(r)
      PROVE  HoldsHandle'
  <2>1. pc'[r] \in Holding => conn'[r] \in Handles
    BY <1>1
       DEF Worker, Get, Remove, Load, UpdateLastUsed, Ping, DeleteDead, Open,
           PingNew, Store, Return, RemoveLoad, RemoveClose, RemoveDelete,
           Take, Goto, TypeOK, HoldsHandle, Holding,
           Threads
  <2>. QED  BY <1>1, <2>1, WorkerIsAlone DEF HoldsHandle
<1>2. CASE HealthChecker
  <2>1. pc'[Janitor] \in Holding => conn'[Janitor] \in Handles
    BY <1>2
       DEF HealthChecker, healthCheck, cleanupStaleConnections, Tick, EndRange,
           Visit, HealthPing, IsStale, JanitorDelete, JanitorClose, Take,
           Goto, TypeOK, HoldsHandle, Holding,
           Threads
  <2>. QED  BY <1>2, <2>1, JanitorIsAlone DEF HoldsHandle
<1>3. CASE Age \/ UNCHANGED vars
  BY <1>3 DEF Age, vars, HoldsHandle
<1>. QED  BY <1>1, <1>2, <1>3 DEF Next

\* What a step does to the map: nothing, a deletion, or a worker's Store.
LEMMA MapChanges ==
    ASSUME TypeOK, [Next]_vars, NEW k \in Keys, connections'[k] # None
    PROVE  \/ connections'[k] = connections[k]
           \/ \E r \in Reconcilers :
                Store(r) /\ k = key[r] /\ connections'[k] = conn[r]
BY DEF Next, Worker, Get, Remove, Load, UpdateLastUsed, Ping, DeleteDead,
       Open, PingNew, Store, Return, RemoveLoad, RemoveClose, RemoveDelete,
       HealthChecker, healthCheck, cleanupStaleConnections, Tick, EndRange,
       Visit, HealthPing, IsStale, JanitorDelete, JanitorClose, Age, MapDelete,
       TypeOK, Threads, vars

\* What a step does to a thread's handle and key.
LEMMA HandleChanges ==
    ASSUME TypeOK, [Next]_vars, NEW t \in Threads, conn'[t] # None
    PROVE  \/ conn'[t] = conn[t] /\ key'[t] = key[t]
           \/ key'[t] \in Keys /\ conn'[t] = connections[key'[t]]
              /\ connections' = connections
           \/ t \in Reconcilers /\ Open(t) /\ Unreachable(conn'[t])
<1>1. ASSUME NEW r \in Reconcilers, Load(r) \/ Worker(r)
      PROVE  \/ conn'[t] = conn[t] /\ key'[t] = key[t]
             \/ key'[t] \in Keys /\ conn'[t] = connections[key'[t]]
                /\ connections' = connections
             \/ t \in Reconcilers /\ Open(t) /\ Unreachable(conn'[t])
  <2>1. CASE t # r
    BY <1>1, <2>1, WorkerIsAlone
  <2>2. CASE t = r
    BY <1>1, <2>2
       DEF Worker, Get, Remove, Load, UpdateLastUsed, Ping, DeleteDead, Open,
           PingNew, Store, Return, RemoveLoad, RemoveClose, RemoveDelete,
           Take, TypeOK, Threads
  <2>. QED  BY <2>1, <2>2
<1>2. CASE HealthChecker
  <2>1. CASE t # Janitor
    BY <1>2, <2>1, JanitorIsAlone
  <2>2. CASE t = Janitor
    BY <1>2, <2>2
       DEF HealthChecker, healthCheck, cleanupStaleConnections, Tick, EndRange,
           Visit, HealthPing, IsStale, JanitorDelete, JanitorClose, Take,
           TypeOK, Threads
  <2>. QED  BY <2>1, <2>2
<1>3. CASE Age \/ UNCHANGED vars
  BY <1>3 DEF Age, vars
<1>. QED  BY <1>1, <1>2, <1>3 DEF Next

-------------------------------------------------------------------------------
(* The invariant. *)

LEMMA StepFiled ==
    ASSUME TypeOK, HoldsHandle, PrivateUntilStored, Filed, [Next]_vars
    PROVE  Filed'
<1>1. ASSUME NEW r \in Reconcilers, Store(r)
      PROVE  Filed'
  <2>1. /\ conn' = conn /\ key' = key /\ key[r] \in Keys
        /\ connections' = [connections EXCEPT ![key[r]] = conn[r]]
    BY <1>1 DEF Store, TypeOK, Threads
  <2>2. /\ \A k \in Keys : connections[k] # conn[r]
        /\ \A t \in Threads \ {r} : conn[t] # conn[r]
    BY <1>1 DEF Store, PrivateUntilStored, InMap
  <2>. QED  BY <2>1, <2>2 DEF Filed, TypeOK, Threads
<1>2. CASE \A r \in Reconcilers : ~Store(r)
  <2>1. \A k \in Keys : connections'[k] # None
                          => connections'[k] = connections[k]
    BY <1>2, MapChanges
  <2>2. ASSUME NEW t \in Threads, NEW k \in Keys,
               connections'[k] # None, connections'[k] = conn'[t]
        PROVE  k = key'[t]
    <3>1. connections'[k] = connections[k] /\ conn'[t] # None
      BY <2>1, <2>2
    <3>2. CASE conn'[t] = conn[t] /\ key'[t] = key[t]
      BY <2>2, <3>1, <3>2 DEF Filed
    <3>3. CASE key'[t] \in Keys /\ conn'[t] = connections[key'[t]]
      BY <2>2, <3>1, <3>3 DEF Filed
    <3>4. CASE Unreachable(conn'[t])
      BY <2>2, <3>1, <3>4 DEF Unreachable, InMap
    <3>. QED  BY <3>1, <3>2, <3>3, <3>4, HandleChanges
  <2>3. ASSUME NEW k \in Keys, NEW l \in Keys,
               connections'[k] # None, connections'[k] = connections'[l]
        PROVE  k = l
    BY <2>1, <2>3 DEF Filed
  <2>. QED  BY <2>2, <2>3 DEF Filed
<1>. QED  BY <1>1, <1>2

LEMMA StepPrivate ==
    ASSUME TypeOK, HoldsHandle, PrivateUntilStored, [Next]_vars
    PROVE  PrivateUntilStored'
<1>. SUFFICES ASSUME NEW r \in Reconcilers, pc'[r] \in {"pingNew", "store"}
              PROVE  /\ conn'[r] \in open'
                     /\ \A k \in Keys : connections'[k] # conn'[r]
                     /\ \A t \in Threads \ {r} : conn'[t] # conn'[r]
  BY DEF PrivateUntilStored, InMap
<1>1. CASE Open(r)
  <2>1. PICK h \in Handles : /\ Unreachable(h)
                             /\ Take(r, h)
                             /\ open' = open \cup {h}
    BY <1>1 DEF Open
  <2>2. conn'[r] = h /\ \A t \in Threads \ {r} : conn'[t] = conn[t]
    BY <2>1 DEF Take, TypeOK, Threads
  <2>3. connections' = connections
    BY <1>1 DEF Open
  <2>. QED  BY <2>1, <2>2, <2>3 DEF Unreachable, InMap
<1>2. CASE ~Open(r)
  <2>1. /\ pc[r] \in {"pingNew", "store"} /\ conn'[r] = conn[r]
        /\ ~Store(r)
    <3>1. CASE Load(r) \/ Worker(r)
      BY <1>2, <3>1
         DEF Worker, Get, Remove, Load, UpdateLastUsed, Ping, DeleteDead,
             PingNew, Store, Return, RemoveLoad, RemoveClose, RemoveDelete,
             Goto, Take, TypeOK, Threads
    <3>2. ASSUME NEW q \in Reconcilers, q # r, Load(q) \/ Worker(q)
          PROVE  pc'[r] = pc[r] /\ conn'[r] = conn[r]
      BY <3>2, WorkerIsAlone DEF Threads
    <3>3. HealthChecker => pc'[r] = pc[r] /\ conn'[r] = conn[r]
      BY JanitorIsAlone, PoolAssumption DEF Threads
    <3>4. Age \/ UNCHANGED vars => pc'[r] = pc[r] /\ conn'[r] = conn[r]
      BY DEF Age, vars
    <3>5. ~Store(r) \/ Worker(r)
      BY DEF Worker, Get
    <3>. QED  BY <3>1, <3>2, <3>3, <3>4, <3>5 DEF Next
  <2>2. /\ conn[r] \in open /\ ~InMap(conn[r])
        /\ \A t \in Threads \ {r} : conn[t] # conn[r]
    BY <2>1 DEF PrivateUntilStored
  <2>3. conn[r] \in Handles /\ conn[r] # None
    BY <2>2, PoolAssumption DEF TypeOK
  <2>4. \A k \in Keys : connections'[k] # conn[r]
    <3>1. ASSUME NEW k \in Keys, connections'[k] = conn'[r] PROVE FALSE
      <4>1. connections'[k] # connections[k]
        BY <2>1, <2>2, <3>1 DEF InMap
      <4>2. PICK q \in Reconcilers : Store(q) /\ connections'[k] = conn[q]
        BY <2>1, <2>3, <3>1, <4>1, MapChanges
      <4>3. q # r /\ q \in Threads
        BY <2>1, <4>2 DEF Threads
      <4>. QED  BY <2>1, <2>2, <3>1, <4>2, <4>3
    <3>. QED  BY <3>1, <2>1
  <2>5. ASSUME NEW t \in Threads \ {r} PROVE conn'[t] # conn[r]
    <3>1. CASE conn'[t] = None
      BY <2>3, <3>1
    <3>2. CASE conn'[t] # None
      BY <2>2, <2>3, <3>2, HandleChanges DEF InMap, Unreachable, Threads
    <3>. QED  BY <3>1, <3>2
  <2>6. conn[r] \in open'
    <3>1. ASSUME NEW t \in Threads, open' = open \ {conn[t]}, t # r
          PROVE  conn[r] \in open'
      BY <2>2, <3>1
    <3>2. \/ open \subseteq open'
          \/ \E t \in Threads : t # r /\ open' = open \ {conn[t]}
      <4>1. ~RemoveClose(r)
        BY <2>1 DEF RemoveClose
      <4>2. PingNew(r) => open' = open
        BY DEF PingNew, Goto, TypeOK, Threads
      <4>3. ASSUME NEW q \in Reconcilers, Load(q) \/ Worker(q)
            PROVE  \/ open \subseteq open'
                   \/ \E t \in Threads : t # r /\ open' = open \ {conn[t]}
        <5>1. open \subseteq open' \/ (q # r /\ open' = open \ {conn[q]})
          BY <4>1, <4>2, <4>3
             DEF Worker, Get, Remove, Load, UpdateLastUsed, Ping, DeleteDead,
                 Open, PingNew, Store, Return, RemoveLoad, RemoveClose,
                 RemoveDelete
        <5>. QED  BY <5>1 DEF Threads
      <4>4. ASSUME HealthChecker
            PROVE  \/ open \subseteq open'
                   \/ \E t \in Threads : t # r /\ open' = open \ {conn[t]}
        <5>1. open' = open \/ open' = open \ {conn[Janitor]}
          BY <4>4
             DEF HealthChecker, healthCheck, cleanupStaleConnections, Tick,
                 EndRange, Visit, HealthPing, IsStale, JanitorDelete,
                 JanitorClose
        <5>. QED  BY <5>1, PoolAssumption DEF Threads
      <4>5. Age \/ UNCHANGED vars => open' = open
        BY DEF Age, vars
      <4>. QED  BY <4>3, <4>4, <4>5 DEF Next
    <3>. QED  BY <2>2, <3>1, <3>2
  <2>. QED  BY <2>1, <2>4, <2>5, <2>6
<1>. QED  BY <1>1, <1>2

LEMMA StepJanitor ==
    ASSUME TypeOK, HoldsHandle, Filed, PrivateUntilStored,
           JanitorClosesDeleted, [Next]_vars
    PROVE  JanitorClosesDeleted'
<1>. SUFFICES ASSUME pc'[Janitor] \in {"healthClose", "cleanupClose"},
                     NEW k \in Keys, connections'[k] = conn'[Janitor],
                     conn'[Janitor] # None
              PROVE  FALSE
  BY DEF JanitorClosesDeleted, InMap
<1>1. Janitor \in Threads
  BY DEF Threads
<1>2. CASE pc[Janitor] \in {"healthClose", "cleanupClose"}
  <2>1. conn'[Janitor] = conn[Janitor]
    <3>1. ASSUME HealthChecker PROVE FALSE
      BY <1>2, <3>1
         DEF HealthChecker, healthCheck, cleanupStaleConnections, Tick,
             EndRange, Visit, HealthPing, IsStale, JanitorDelete,
             JanitorClose, Goto, TypeOK, Threads
    <3>2. Age \/ UNCHANGED vars => conn' = conn
      BY DEF Age, vars
    <3>3. ASSUME NEW r \in Reconcilers, Load(r) \/ Worker(r)
          PROVE  conn'[Janitor] = conn[Janitor]
      BY <1>1, <3>3, WorkerIsAlone, PoolAssumption
    <3>. QED  BY <3>1, <3>2, <3>3 DEF Next
  <2>2. ~InMap(conn[Janitor])
    BY <1>2, <2>1 DEF JanitorClosesDeleted
  <2>3. PICK r \in Reconcilers : Store(r) /\ connections'[k] = conn[r]
    BY <2>1, <2>2, MapChanges DEF InMap
  <2>4. conn[Janitor] # conn[r]
    BY <1>1, <2>3, PoolAssumption DEF Store, PrivateUntilStored
  <2>. QED  BY <2>1, <2>3, <2>4
<1>3. CASE pc[Janitor] \notin {"healthClose", "cleanupClose"}
  <2>1. \/ JanitorDelete("healthDelete", "healthClose")
        \/ JanitorDelete("cleanupDelete", "cleanupClose")
    <3>1. HealthChecker
      <4>1. ASSUME NEW r \in Reconcilers, Load(r) \/ Worker(r) PROVE FALSE
        BY <1>1, <1>3, <4>1, WorkerIsAlone, PoolAssumption
      <4>2. Age \/ UNCHANGED vars => pc' = pc
        BY DEF Age, vars
      <4>. QED  BY <1>3, <4>1, <4>2 DEF Next
    <3>. QED
      BY <3>1
         DEF HealthChecker, healthCheck, cleanupStaleConnections, Tick,
             EndRange, Visit, HealthPing, IsStale, JanitorClose, Goto,
             TypeOK, Threads
  <2>2. /\ connections' = [connections EXCEPT ![key[Janitor]] = None]
        /\ conn' = conn
    BY <2>1 DEF JanitorDelete, MapDelete
  <2>3. k = key[Janitor]
    BY <1>1, <2>2 DEF Filed, TypeOK
  <2>. QED  BY <1>1, <2>2, <2>3 DEF TypeOK
<1>. QED  BY <1>2, <1>3

LEMMA StepClosedIsLeaving ==
    ASSUME TypeOK, HoldsHandle, Filed, PrivateUntilStored,
           JanitorClosesDeleted, ClosedIsLeaving, [Next]_vars
    PROVE  ClosedIsLeaving'
<1>. SUFFICES ASSUME NEW k \in Keys, connections'[k] \notin open',
                     connections'[k] # None
              PROVE  \E r \in Reconcilers :
                       pc'[r] = "removeDelete" /\ key'[r] = k
  BY DEF ClosedIsLeaving
<1>1. connections'[k] = connections[k]
  <2>1. ASSUME NEW r \in Reconcilers, Store(r), connections'[k] = conn[r]
        PROVE  FALSE
    BY <2>1 DEF Store, PrivateUntilStored
  <2>. QED  BY <2>1, MapChanges
<1>2. CASE connections[k] \in open
  \* This step has closed the handle.
  <2>1. \/ \E r \in Reconcilers : RemoveClose(r) /\ conn[r] = connections[k]
        \/ \E r \in Reconcilers : PingNew(r) /\ conn[r] = connections[k]
        \/ /\ conn[Janitor] = connections[k]
           /\ pc[Janitor] \in {"healthClose", "cleanupClose"}
    <3>1. ASSUME NEW r \in Reconcilers, Load(r) \/ Worker(r)
          PROVE  (RemoveClose(r) \/ PingNew(r)) /\ conn[r] = connections[k]
      BY <1>1, <1>2, <3>1
         DEF Worker, Get, Remove, Load, UpdateLastUsed, Ping, DeleteDead, Open,
             PingNew, Store, Return, RemoveLoad, RemoveClose, RemoveDelete
    <3>2. ASSUME HealthChecker
          PROVE  /\ conn[Janitor] = connections[k]
                 /\ pc[Janitor] \in {"healthClose", "cleanupClose"}
      BY <1>1, <1>2, <3>2
         DEF HealthChecker, healthCheck, cleanupStaleConnections, Tick,
             EndRange, Visit, HealthPing, IsStale, JanitorDelete, JanitorClose
    <3>3. ~(Age \/ UNCHANGED vars)
      BY <1>1, <1>2 DEF Age, vars
    <3>. QED  BY <3>1, <3>2, <3>3 DEF Next
  <2>2. ASSUME NEW r \in Reconcilers, RemoveClose(r), conn[r] = connections[k]
        PROVE  pc'[r] = "removeDelete" /\ key'[r] = k
    <3>1. pc'[r] = "removeDelete" /\ key' = key
      BY <2>2 DEF RemoveClose, Goto, TypeOK, Threads
    <3>2. key[r] = k
      BY <1>1, <2>2 DEF Filed, Threads
    <3>. QED  BY <3>1, <3>2
  <2>3. ASSUME NEW r \in Reconcilers, PingNew(r), conn[r] = connections[k]
        PROVE  FALSE
    BY <2>3 DEF PingNew, PrivateUntilStored, InMap
  <2>4. ASSUME conn[Janitor] = connections[k],
               pc[Janitor] \in {"healthClose", "cleanupClose"}
        PROVE  FALSE
    BY <1>1, <2>4 DEF JanitorClosesDeleted, InMap
  <2>. QED  BY <2>1, <2>2, <2>3, <2>4
<1>3. CASE connections[k] \notin open
  <2>1. PICK r \in Reconcilers : pc[r] = "removeDelete" /\ key[r] = k
    BY <1>1, <1>3 DEF ClosedIsLeaving
  <2>2. ~RemoveDelete(r)
    BY <1>1, <2>1 DEF RemoveDelete, MapDelete, TypeOK
  <2>3. ~(Load(r) \/ Worker(r))
    BY <2>1, <2>2
       DEF Worker, Get, Remove, Load, UpdateLastUsed, Ping, DeleteDead, Open,
           PingNew, Store, Return, RemoveLoad, RemoveClose
  <2>4. pc'[r] = pc[r] /\ key'[r] = key[r]
    <3>1. ASSUME NEW q \in Reconcilers, Load(q) \/ Worker(q)
          PROVE  pc'[r] = pc[r] /\ key'[r] = key[r]
      BY <2>3, <3>1, WorkerIsAlone DEF Threads
    <3>2. HealthChecker => pc'[r] = pc[r] /\ key'[r] = key[r]
      BY JanitorIsAlone, PoolAssumption DEF Threads
    <3>3. Age \/ UNCHANGED vars => pc'[r] = pc[r] /\ key'[r] = key[r]
      BY DEF Age, vars
    <3>. QED  BY <3>1, <3>2, <3>3 DEF Next
  <2>. QED  BY <2>1, <2>4
<1>. QED  BY <1>2, <1>3

-------------------------------------------------------------------------------
(* The theorems. *)

LEMMA InitInvariant == Init => IInv
<1>. SUFFICES ASSUME Init PROVE IInv
  OBVIOUS
<1>1. TypeOK
  BY InitType
<1>2. /\ \A k \in Keys : connections[k] = None
      /\ \A t \in Threads : pc[t] \in {"wait", "idle"}
      /\ Janitor \in Threads
  BY DEF Init, Threads
<1>. QED
  BY <1>1, <1>2 DEF IInv, HoldsHandle, Holding, Filed, JanitorClosesDeleted,
                    PrivateUntilStored, ClosedIsLeaving, Threads

LEMMA StepInvariant == IInv /\ [Next]_vars => IInv'
BY StepType, StepHolds, StepFiled, StepJanitor, StepPrivate,
   StepClosedIsLeaving
   DEF IInv

LEMMA Invariant == Spec => []IInv
BY InitInvariant, StepInvariant, PTL DEF Spec

\* Every variable keeps its type.
THEOREM TypeCorrect == Spec => []TypeOK
<1>1. IInv => TypeOK
  BY DEF IInv
<1>. QED  BY <1>1, Invariant, PTL

\* Whatever Get, Remove and the health checker do to the same key at the same
\* time, a closed handle in the map is one that a Remove is about to delete.
THEOREM NoDeadEntries == Spec => []ClosedIsLeaving
<1>1. IInv => ClosedIsLeaving
  BY DEF IInv
<1>. QED  BY <1>1, Invariant, PTL

\* Until it is stored, the handle a Get has opened is open and known to no
\* other thread, so the Close after a failed first ping harms nobody.
THEOREM NewHandlesPrivate == Spec => []PrivateUntilStored
<1>1. IInv => PrivateUntilStored
  BY DEF IInv
<1>. QED  BY <1>1, Invariant, PTL

===============================================================================
