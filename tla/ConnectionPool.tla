--------------------------- MODULE ConnectionPool ---------------------------
(***************************************************************************)
(* ConnectionManager for one id, and the ConnectionPools it makes for it.  *)
(* Making a pool, making a connection and closing a pool are awaited, and  *)
(* the other calls go on in between.  A connection that idles is closed by *)
(* a timer.  Connections are numbers.                                      *)
(***************************************************************************)
EXTENDS Naturals, SequencesExt

CONSTANTS MaxConnections, \* maxConnections
          MaxPools,       \* bound: the pools made
          MaxCreated      \* bound: the connections made

ASSUME ConnectionPoolAssumption ==
  MaxConnections \in Nat \ {0} /\ MaxPools \in Nat /\ MaxCreated \in Nat

VARIABLES
  pools,      \* how many pools there were
  mappedPool, \* the pool in the manager's map, or 0
  poolAt,     \* poolAt[k]: where pool k is
  available, inUse, \* of pool k
  creating,   \* creating[k]: the acquires of k that await a connection
  idleTimers, \* the connections with an idle timer
  created,    \* the connections made so far
  openNow,    \* those that are open
  held,       \* those that a caller has acquired and not released
  crowded     \* history: pools where an acquire found another one awaiting

poolVars == <<pools, mappedPool, poolAt, available, inUse, creating, idleTimers, created, openNow,
              held, crowded>>

Pool == 1 .. MaxPools
Conn == 1 .. MaxCreated

PoolTypeOK ==
  /\ pools \in 0 .. MaxPools /\ mappedPool \in 0 .. MaxPools
  /\ poolAt \in [Pool -> {"none", "initializing", "ready", "closing", "closed"}]
  /\ available \in [Pool -> Seq(Conn)] /\ inUse \in [Pool -> SUBSET Conn]
  /\ creating \in [Pool -> 0 .. MaxCreated] /\ created \in 0 .. MaxCreated
  /\ idleTimers \cup openNow \cup held \subseteq Conn /\ crowded \subseteq Pool

PoolInit ==
  /\ pools = 0 /\ mappedPool = 0 /\ poolAt = [k \in Pool |-> "none"]
  /\ available = [k \in Pool |-> <<>>] /\ inUse = [k \in Pool |-> {}]
  /\ creating = [k \in Pool |-> 0] /\ created = 0
  /\ idleTimers = {} /\ openNow = {} /\ held = {} /\ crowded = {}

-----------------------------------------------------------------------------
\* getPool for an id that is not in the map, up to its await.
GetsPool ==
  /\ mappedPool = 0 /\ pools < MaxPools
  /\ pools' = pools + 1
  /\ poolAt' = [poolAt EXCEPT ![pools + 1] = "initializing"]
  /\ UNCHANGED <<mappedPool, available, inUse, creating, idleTimers, created, openNow, held, crowded>>

\* The factory resolves, for initialize and for acquire.
NewConnection ==
  /\ created < MaxCreated
  /\ created' = created + 1
  /\ openNow' = openNow \cup {created + 1}

\* The pool goes into the map, over one that another call has put there.
PoolReady(k) ==
  /\ poolAt[k] = "initializing"
  /\ NewConnection
  /\ available' = [available EXCEPT ![k] = <<created + 1>>]
  /\ poolAt' = [poolAt EXCEPT ![k] = "ready"]
  /\ mappedPool' = k
  /\ UNCHANGED <<pools, inUse, creating, idleTimers, held, crowded>>

Usable(k) == poolAt[k] \in {"ready", "closing", "closed"}

\* acquire, of a pool or of the one in the map, with a connection to spare.
AcquiresIdle(k) ==
  /\ Usable(k) /\ available[k] # <<>>
  /\ available' = [available EXCEPT ![k] = Front(@)]
  /\ inUse' = [inUse EXCEPT ![k] = @ \cup {Last(available[k])}]
  /\ held' = held \cup {Last(available[k])}
  /\ idleTimers' = idleTimers \ {Last(available[k])}
  /\ UNCHANGED <<pools, mappedPool, poolAt, creating, created, openNow, crowded>>

\* acquire with none to spare, and under the limit: those that other acquires
\* await do not count.  Bound: no more await than can still be made.
AcquireStarts(k) ==
  /\ Usable(k) /\ available[k] = <<>>
  /\ Cardinality(inUse[k]) < MaxConnections
  /\ creating[k] < MaxCreated - created
  /\ creating' = [creating EXCEPT ![k] = @ + 1]
  /\ crowded' = IF creating[k] > 0 THEN crowded \cup {k} ELSE crowded
  /\ UNCHANGED <<pools, mappedPool, poolAt, available, inUse, idleTimers, created, openNow, held>>

AcquireEnds(k) ==
  /\ creating[k] > 0
  /\ NewConnection
  /\ creating' = [creating EXCEPT ![k] = @ - 1]
  /\ inUse' = [inUse EXCEPT ![k] = @ \cup {created + 1}]
  /\ held' = held \cup {created + 1}
  /\ UNCHANGED <<pools, mappedPool, poolAt, available, idleTimers, crowded>>

\* The factory rejects.
CreateFails(k) ==
  /\ \/ poolAt[k] = "initializing" /\ poolAt' = [poolAt EXCEPT ![k] = "closed"] /\ UNCHANGED creating
     \/ creating[k] > 0 /\ creating' = [creating EXCEPT ![k] = @ - 1] /\ UNCHANGED poolAt
  /\ UNCHANGED <<pools, mappedPool, available, inUse, idleTimers, created, openNow, held, crowded>>

\* release by pool k, or by the manager with k in the map.
Frees_Keeps(k, c) ==
  /\ inUse' = inUse
  /\ available' = [available EXCEPT ![k] = Append(@, c)]

Frees(k, c) ==
  /\ inUse' = [inUse EXCEPT ![k] = @ \ {c}]
  /\ available' = [available EXCEPT ![k] = Append(@, c)]

Releases(k, c) ==
  /\ c \in held
  /\ held' = held \ {c}
  /\ IF c \in inUse[k] THEN Frees(k, c) /\ idleTimers' = idleTimers \cup {c}
                       ELSE UNCHANGED <<available, inUse, idleTimers>>
  /\ UNCHANGED <<pools, mappedPool, poolAt, creating, created, openNow, crowded>>

\* The idle timer fires: the connection is closed if it is still to spare.
IdleFires(k, c) ==
  /\ c \in idleTimers
  /\ c \in ToSet(available[k]) \/ \A l \in Pool : c \notin ToSet(available[l])
  /\ idleTimers' = idleTimers \ {c}
  /\ available' = [available EXCEPT ![k] = RemoveFirst(@, c)]
  /\ openNow' = IF c \in ToSet(available[k]) THEN openNow \ {c} ELSE openNow
  /\ UNCHANGED <<pools, mappedPool, poolAt, inUse, creating, created, held, crowded>>

\* closePool and closeAll: everything the pool has is closed, and it is emptied
\* when that has been awaited, with what came to it in between.
CloseStarts(k) ==
  /\ mappedPool = k /\ poolAt[k] = "ready"
  /\ poolAt' = [poolAt EXCEPT ![k] = "closing"]
  /\ idleTimers' = idleTimers \ (ToSet(available[k]) \cup inUse[k])
  /\ openNow' = openNow \ (ToSet(available[k]) \cup inUse[k])
  /\ UNCHANGED <<pools, mappedPool, available, inUse, creating, created, held, crowded>>

CloseEnds(k) ==
  /\ poolAt[k] = "closing"
  /\ poolAt' = [poolAt EXCEPT ![k] = "closed"]
  /\ available' = [available EXCEPT ![k] = <<>>] /\ inUse' = [inUse EXCEPT ![k] = {}]
  /\ mappedPool' = 0
  /\ UNCHANGED <<pools, creating, idleTimers, created, openNow, held, crowded>>

PoolNext ==
  \/ GetsPool
  \/ \E k \in Pool :
       \/ PoolReady(k) \/ AcquiresIdle(k) \/ AcquireStarts(k) \/ AcquireEnds(k) \/ CreateFails(k)
       \/ CloseStarts(k) \/ CloseEnds(k)
       \/ \E c \in Conn : Releases(k, c) \/ IdleFires(k, c)

PoolSpec == PoolInit /\ [][PoolNext]_poolVars

-----------------------------------------------------------------------------
(***************************************************************************)
(* Properties                                                              *)
(***************************************************************************)
\* A connection has one user at most, and is not closed under it, unless the
\* pool is closed as a whole.
OneUser ==
  \A k \in Pool :
    /\ ToSet(available[k]) \cap (inUse[k] \cup held) = {}
    /\ IsInjective(available[k])
    /\ poolAt[k] = "ready" => inUse[k] \cup ToSet(available[k]) \subseteq openNow

\* The limit holds for a pool unless two acquires awaited connections at once.
LimitHolds ==
  \A k \in Pool \ crowded :
    Len(available[k]) + Cardinality(inUse[k]) + creating[k] <= MaxConnections

\* A connection to spare in a pool that is not closed will be closed by a
\* timer, but for one that was never used.
IdleIsTimed ==
  \A k \in Pool : poolAt[k] = "ready" =>
    Cardinality(ToSet(available[k]) \ idleTimers) <= 1

PoolSafe == OneUser /\ LimitHolds /\ IdleIsTimed
=============================================================================
