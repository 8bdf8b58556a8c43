-------------------------- MODULE ComponentsProofs --------------------------
(***************************************************************************)
(* What holds of components that share no state with the others, for any   *)
(* values of their constants: the connection pools, the engine's           *)
(* lifecycle, the usage aggregates, the cron scheduler, batches and their  *)
(* quota, the planner, and the queries of the usage there was.             *)
(***************************************************************************)
EXTENDS UsageAggregates, CronSchedule, BatchRuns, WorkflowPlans, ConnectionPool,
        Lifecycle, UsageQueries, DistinctSequences

-----------------------------------------------------------------------------
(***************************************************************************)
(* Connection pools                                                        *)
(***************************************************************************)
Owned(k) == ToSet(available[k]) \cup inUse[k]

\* Each connection is one pool's, and made; a pool that is not ready yet has none.
PoolsApart ==
  /\ \A k \in Pool : Owned(k) \subseteq 1 .. created
  /\ \A k, l \in Pool : k # l => Owned(k) \cap Owned(l) = {}
  /\ held \subseteq 1 .. created
  /\ \A k \in Pool : poolAt[k] \in {"none", "initializing"} =>
       available[k] = <<>> /\ inUse[k] = {} /\ creating[k] = 0
  /\ \A k \in Pool : k > pools => poolAt[k] = "none"

PoolInv == PoolTypeOK /\ PoolsApart /\ PoolSafe

\* pop takes the last of a sequence, and of its elements.
LEMMA PopDistinct ==
  ASSUME NEW T, NEW s \in Seq(T), s # <<>>, Distinct(s)
  PROVE  /\ Last(s) \in T /\ Last(s) \in ToSet(s)
         /\ Front(s) \in Seq(T) /\ Len(Front(s)) = Len(s) - 1
         /\ ToSet(Front(s)) = ToSet(s) \ {Last(s)} /\ Distinct(Front(s))
<1>1. /\ Len(s) \in Nat \ {0} /\ DOMAIN s = 1 .. Len(s) /\ \A i \in 1 .. Len(s) : s[i] \in T
      /\ ToSet(s) = {s[i] : i \in 1 .. Len(s)}
  BY EmptySeq, LenProperties, ElementOfSeq DEF ToSet
<1>2. Last(s) = s[Len(s)] /\ Front(s) = SubSeq(s, 1, Len(s) - 1)
  BY DEF Last, Front
<1>3. /\ Front(s) \in Seq(T) /\ Len(Front(s)) = Len(s) - 1
      /\ ToSet(Front(s)) = {s[i] : i \in 1 .. (Len(s) - 1)} /\ Distinct(Front(s))
  <2>1. 1 \in 1 .. Len(s) + 1 /\ Len(s) - 1 \in 0 .. Len(s) /\ 1 <= (Len(s) - 1) + 1
        /\ (Len(s) - 1) - 1 + 1 = Len(s) - 1
    BY <1>1
  <2> QED
    BY <2>1, <1>2, SliceDistinct
<1>4. {s[i] : i \in 1 .. (Len(s) - 1)} = {s[i] : i \in 1 .. Len(s)} \ {s[Len(s)]}
  BY <1>1 DEF Distinct
<1>5. Last(s) \in T /\ Last(s) \in ToSet(s)
  BY <1>1, <1>2
<1> QED
  BY <1>1, <1>2, <1>3, <1>4, <1>5

\* Connections are finitely many.
LEMMA ConnSets ==
  ASSUME NEW F \in SUBSET Conn
  PROVE  /\ IsFiniteSet(F) /\ Cardinality(F) \in Nat
         /\ \A c : c \notin F => Cardinality(F \cup {c}) = Cardinality(F) + 1
         /\ \A c \in F : Cardinality(F \ {c}) = Cardinality(F) - 1
<1>1. IsFiniteSet(Conn)
  BY ConnectionPoolAssumption, FS_Interval DEF Conn
<1>2. IsFiniteSet(F)
  BY <1>1, FS_Subset
<1> QED
  BY <1>2, FS_CardinalityType, FS_AddElement, FS_RemoveElement

LEMMA AtMostOne == ASSUME NEW F, NEW c, F \subseteq {c} PROVE Cardinality(F) <= 1
<1>1. CASE F = {}
  BY <1>1, FS_EmptySet
<1>2. CASE F = {c}
  <2>1. Cardinality(F) = 1
    BY <1>2, FS_Singleton
  <2> QED
    BY <2>1
<1> QED
  BY <1>1, <1>2

LEMMA FewerAreAtMostOne ==
  ASSUME NEW S \in SUBSET Conn, NEW T, NEW F, F \subseteq S \ T, Cardinality(S \ T) <= 1
  PROVE  Cardinality(F) <= 1
<1>1. S \ T \in SUBSET Conn /\ F \in SUBSET Conn
  OBVIOUS
<1>2. /\ IsFiniteSet(S \ T) /\ Cardinality(S \ T) \in Nat /\ Cardinality(F) \in Nat
  BY <1>1, ConnSets
<1>3. Cardinality(F) <= Cardinality(S \ T)
  BY <1>2, FS_Subset
<1> QED
  BY <1>2, <1>3

LEMMA PoolStarts == PoolInit => PoolInv
<1> SUFFICES ASSUME PoolInit PROVE PoolInv
  OBVIOUS
<1>1. PoolTypeOK
  BY ConnectionPoolAssumption DEF PoolInit, PoolTypeOK, Pool, Conn
<1>2. \A k \in Pool : /\ available[k] = <<>> /\ ToSet(available[k]) = {} /\ inUse[k] = {} /\ creating[k] = 0
                      /\ Distinct(available[k]) /\ Len(available[k]) = 0 /\ poolAt[k] = "none"
  BY DEF PoolInit, ToSet, Distinct
<1>3. PoolsApart
  BY <1>2 DEF PoolInit, PoolsApart, Owned
<1>4. OneUser
  BY <1>2, InjectiveIsDistinct DEF OneUser
<1>5. LimitHolds
  <2>1. Cardinality({}) = 0 /\ 0 + 0 + 0 <= MaxConnections
    BY FS_EmptySet, ConnectionPoolAssumption
  <2> QED
    BY <1>2, <2>1 DEF LimitHolds
<1>6. IdleIsTimed
  BY <1>2 DEF IdleIsTimed
<1> QED
  BY <1>1, <1>3, <1>4, <1>5, <1>6 DEF PoolInv, PoolSafe

\* A step on pool k leaves the others alone: it makes connections or takes
\* those of k, and closes and disarms no others.
SparesOthers(k) ==
  /\ \A l \in Pool \ {k} : /\ available'[l] = available[l] /\ inUse'[l] = inUse[l]
                            /\ poolAt'[l] = poolAt[l] /\ creating'[l] = creating[l]
  /\ created <= created' /\ pools' = pools /\ crowded \subseteq crowded'
  /\ Owned(k)' \subseteq Owned(k) \cup (created + 1) .. created'
  /\ held' \subseteq held \cup Owned(k) \cup (created + 1) .. created'
  /\ openNow \ openNow' \subseteq Owned(k)
  /\ (idleTimers \ idleTimers') \cap UNION {ToSet(available[l]) : l \in Pool \ {k}} = {}

\* And it leaves pool k as a pool is to be.
LeavesInOrder(k) ==
  /\ Distinct(available'[k]) /\ ToSet(available'[k]) \cap (inUse'[k] \cup held') = {}
  /\ poolAt'[k] = "ready" => /\ Owned(k)' \subseteq openNow'
                             /\ Cardinality(ToSet(available'[k]) \ idleTimers') <= 1
  /\ k > pools => poolAt'[k] = "none"
  /\ poolAt'[k] \in {"none", "initializing"} =>
       available'[k] = <<>> /\ inUse'[k] = {} /\ creating'[k] = 0
  /\ k \notin crowded' =>
       Len(available'[k]) + Cardinality(inUse'[k]) + creating'[k] <= MaxConnections

LEMMA OnePoolChanges ==
  ASSUME PoolInv, PoolTypeOK', NEW k \in Pool, SparesOthers(k), LeavesInOrder(k)
  PROVE  PoolInv'
<1> USE DEF SparesOthers, LeavesInOrder
<1>1. /\ created \in Nat /\ created' \in Nat /\ \A l \in Pool : Owned(l) \subseteq 1 .. created
      /\ held \subseteq 1 .. created
  BY ConnectionPoolAssumption DEF PoolInv, PoolTypeOK, PoolsApart
<1>2. \A l \in Pool \ {k} : Owned(l)' = Owned(l)
  BY DEF Owned
<1>3. PoolsApart'
  <2>1. /\ \A l \in Pool : Owned(l)' \subseteq 1 .. created'
        /\ held' \subseteq 1 .. created'
    BY <1>1, <1>2
  <2>2. \A l \in Pool \ {k} : Owned(l)' \cap Owned(k)' = {}
    <3> TAKE l \in Pool \ {k}
    <3>1. Owned(l) \cap Owned(k) = {}
      BY DEF PoolInv, PoolsApart
    <3>2. Owned(l) \cap (created + 1) .. created' = {}
      BY <1>1
    <3> QED
      BY <1>2, <3>1, <3>2
  <2>3. \A l, m \in Pool : l # m => Owned(l)' \cap Owned(m)' = {}
    BY <1>2, <2>2 DEF PoolInv, PoolsApart
  <2>4. /\ \A l \in Pool : poolAt'[l] \in {"none", "initializing"} =>
             available'[l] = <<>> /\ inUse'[l] = {} /\ creating'[l] = 0
        /\ \A l \in Pool : l > pools' => poolAt'[l] = "none"
    BY DEF PoolInv, PoolsApart
  <2> QED
    BY <2>1, <2>3, <2>4 DEF PoolsApart
<1>4. OneUser'
  <2> SUFFICES ASSUME NEW l \in Pool \ {k}
               PROVE  /\ ToSet(available[l]) \cap (inUse[l] \cup held') = {}
                      /\ IsInjective(available[l])
                      /\ poolAt[l] = "ready" => inUse[l] \cup ToSet(available[l]) \subseteq openNow'
    BY InjectiveIsDistinct DEF OneUser, Owned
  <2>1. Owned(l) \cap Owned(k) = {} /\ Owned(l) \cap (created + 1) .. created' = {}
    BY <1>1 DEF PoolInv, PoolsApart
  <2>2. /\ ToSet(available[l]) \cap (inUse[l] \cup held) = {} /\ IsInjective(available[l])
        /\ poolAt[l] = "ready" => Owned(l) \subseteq openNow
    BY DEF PoolInv, PoolSafe, OneUser, Owned
  <2> QED
    BY <2>1, <2>2 DEF Owned
<1>5. LimitHolds'
  BY DEF PoolInv, PoolSafe, LimitHolds
<1>6. IdleIsTimed'
  <2> SUFFICES ASSUME NEW l \in Pool \ {k}, poolAt[l] = "ready"
               PROVE  Cardinality(ToSet(available[l]) \ idleTimers') <= 1
    BY DEF IdleIsTimed
  <2>1. ToSet(available[l]) \in SUBSET Conn
    BY RangeIn DEF PoolInv, PoolTypeOK
  <2>2. ToSet(available[l]) \ idleTimers' \subseteq ToSet(available[l]) \ idleTimers
    OBVIOUS
  <2>3. Cardinality(ToSet(available[l]) \ idleTimers) <= 1
    BY DEF PoolInv, PoolSafe, IdleIsTimed
  <2>4. /\ IsFiniteSet(ToSet(available[l]) \ idleTimers)
        /\ Cardinality(ToSet(available[l]) \ idleTimers) \in Nat
        /\ Cardinality(ToSet(available[l]) \ idleTimers') \in Nat
    BY <2>1, ConnSets
  <2>5. Cardinality(ToSet(available[l]) \ idleTimers') <= Cardinality(ToSet(available[l]) \ idleTimers)
    BY <2>2, <2>4, FS_Subset
  <2> QED
    BY <2>3, <2>4, <2>5
<1> QED
  BY <1>3, <1>4, <1>5, <1>6 DEF PoolInv, PoolSafe

\* What the invariant says of one pool.
PoolAsItIs(k) ==
  /\ available[k] \in Seq(Conn) /\ Distinct(available[k]) /\ Len(available[k]) \in Nat
  /\ ToSet(available[k]) \in SUBSET Conn /\ inUse[k] \in SUBSET Conn
  /\ Cardinality(inUse[k]) \in Nat /\ creating[k] \in Nat
  /\ ToSet(available[k]) \cap (inUse[k] \cup held) = {}
  /\ Owned(k) \subseteq 1 .. created
  /\ poolAt[k] = "ready" => /\ Owned(k) \subseteq openNow
                            /\ Cardinality(ToSet(available[k]) \ idleTimers) <= 1
  /\ k \notin crowded => Len(available[k]) + Cardinality(inUse[k]) + creating[k] <= MaxConnections
  /\ poolAt[k] \in {"none", "initializing"} =>
       available[k] = <<>> /\ inUse[k] = {} /\ creating[k] = 0
  /\ k > pools => poolAt[k] = "none"

LEMMA PoolFacts == ASSUME PoolInv, NEW k \in Pool PROVE PoolAsItIs(k)
  BY ConnectionPoolAssumption, RangeIn, ConnSets, InjectiveIsDistinct
  DEF PoolAsItIs, PoolInv, PoolTypeOK, PoolsApart, PoolSafe, OneUser, LimitHolds, IdleIsTimed, Owned

LEMMA PoolSteps == PoolInv /\ [PoolNext]_poolVars => PoolInv'
<1> SUFFICES ASSUME PoolInv, [PoolNext]_poolVars PROVE PoolInv'
  OBVIOUS
<1>0. /\ PoolTypeOK /\ created \in Nat /\ MaxCreated \in Nat /\ MaxConnections \in Nat \ {0}
      /\ held \subseteq 1 .. created /\ \A k \in Pool : PoolAsItIs(k)
  BY PoolFacts, ConnectionPoolAssumption DEF PoolInv, PoolTypeOK, PoolsApart
<1>e. ToSet(<<>>) = {} /\ Distinct(<<>>) /\ Len(<<>>) = 0 /\ Cardinality({}) = 0
  BY FS_EmptySet DEF ToSet, Distinct
<1>1. CASE GetsPool
  <2>1. /\ pools + 1 \in Pool /\ poolAt[pools + 1] = "none" /\ pools' = pools + 1
        /\ poolAt'[pools + 1] = "initializing"
        /\ \A l \in Pool \ {pools + 1} : poolAt'[l] = poolAt[l]
    <3>1. pools \in Nat /\ pools + 1 \in Pool /\ pools' = pools + 1
      BY <1>0, <1>1, ConnectionPoolAssumption DEF GetsPool, PoolTypeOK, Pool
    <3>2. poolAt[pools + 1] = "none"
      <4>1. PoolAsItIs(pools + 1)
        BY <1>0, <3>1
      <4> QED
        BY <3>1, <4>1 DEF PoolAsItIs
    <3>3. poolAt' = [poolAt EXCEPT ![pools + 1] = "initializing"] /\ poolAt = [l \in Pool |-> poolAt[l]]
      BY <1>0, <1>1 DEF GetsPool, PoolTypeOK
    <3> QED
      BY <3>1, <3>2, <3>3
  <2>2. PoolTypeOK'
    BY <1>0, <1>1, <2>1 DEF GetsPool, PoolTypeOK, Pool
  <2>3. PoolsApart'
    BY <1>0, <1>1, <2>1 DEF GetsPool, PoolInv, PoolTypeOK, PoolsApart, Owned, Pool
  <2>4. PoolSafe'
    BY <1>1, <2>1 DEF GetsPool, PoolInv, PoolSafe, OneUser, LimitHolds, IdleIsTimed
  <2> QED
    BY <2>2, <2>3, <2>4 DEF PoolInv
<1>2. ASSUME NEW k \in Pool, PoolReady(k) PROVE PoolInv'
  <2>0. PoolAsItIs(k)
    BY <1>0
  <2>1. /\ created' = created + 1 /\ created + 1 \in Conn /\ openNow' = openNow \cup {created + 1}
        /\ available'[k] = <<created + 1>> /\ poolAt'[k] = "ready" /\ inUse' = inUse /\ inUse[k] = {}
        /\ creating[k] = 0 /\ poolAt[k] = "initializing"
    BY <1>0, <2>0, <1>2 DEF PoolReady, NewConnection, PoolTypeOK, Conn, PoolAsItIs
  <2>2. /\ available'[k] \in Seq(Conn) /\ ToSet(available'[k]) = {created + 1} /\ Distinct(available'[k])
        /\ Len(available'[k]) = 1
    BY <2>1, SingleDistinct
  <2>3. PoolTypeOK'
    BY <1>0, <2>0, <1>2, <2>1, <2>2 DEF PoolReady, NewConnection, PoolTypeOK, Pool, Conn, PoolAsItIs
  <2>4. Cardinality(ToSet(available'[k]) \ idleTimers') <= 1
    BY <2>2, AtMostOne
  <2>5. /\ Owned(k)' = {created + 1} /\ created + 1 \notin held /\ created + 1 \in (created + 1) .. created'
    BY <1>0, <2>0, <2>1, <2>2 DEF Owned, PoolAsItIs
  <2>s. SparesOthers(k)
    BY <1>0, <2>0, <1>2, <1>e, <2>1, <2>2, <2>3, <2>4, <2>5 DEF PoolReady, PoolTypeOK, PoolAsItIs, SparesOthers
  <2>l. LeavesInOrder(k)
    BY <1>0, <2>0, <1>2, <1>e, <2>1, <2>2, <2>3, <2>4, <2>5 DEF PoolReady, PoolTypeOK, PoolAsItIs, LeavesInOrder
  <2> QED
    BY <2>3, <2>s, <2>l, OnePoolChanges
<1>3. ASSUME NEW k \in Pool, AcquiresIdle(k) PROVE PoolInv'
  <2>0. PoolAsItIs(k)
    BY <1>0
  <2> DEFINE c == Last(available[k])
  <2>1. /\ c \in Conn /\ c \in ToSet(available[k]) /\ c \notin inUse[k]
        /\ available'[k] = Front(available[k]) /\ available'[k] \in Seq(Conn)
        /\ Len(available'[k]) = Len(available[k]) - 1 /\ Distinct(available'[k])
        /\ ToSet(available'[k]) = ToSet(available[k]) \ {c}
    <3>1. /\ available[k] # <<>> /\ available'[k] = Front(available[k])
      BY <1>0, <1>3 DEF AcquiresIdle, PoolTypeOK
    <3>2. available[k] \in Seq(Conn) /\ Distinct(available[k])
      BY <2>0 DEF PoolAsItIs
    <3>3. /\ c \in Conn /\ c \in ToSet(available[k])
          /\ Front(available[k]) \in Seq(Conn) /\ Len(Front(available[k])) = Len(available[k]) - 1
          /\ Distinct(Front(available[k])) /\ ToSet(Front(available[k])) = ToSet(available[k]) \ {c}
      BY <3>1, <3>2, PopDistinct
    <3>4. c \notin inUse[k]
      BY <2>0, <3>3 DEF PoolAsItIs
    <3> QED
      BY <3>1, <3>3, <3>4
  <2>2. /\ inUse'[k] = inUse[k] \cup {c} /\ held' = held \cup {c} /\ idleTimers' = idleTimers \ {c}
        /\ Cardinality(inUse'[k]) = Cardinality(inUse[k]) + 1
    BY <1>0, <2>0, <1>3, <2>1, ConnSets DEF AcquiresIdle, PoolTypeOK, PoolAsItIs
  <2> HIDE DEF c
  <2>3. PoolTypeOK'
    BY <1>0, <2>0, <1>3, <2>1, <2>2 DEF AcquiresIdle, PoolTypeOK, c, PoolAsItIs
  <2>4. ToSet(available'[k]) \ idleTimers' = (ToSet(available[k]) \ idleTimers) \ {c}
    BY <2>1, <2>2
  <2>5. poolAt[k] = "ready" => Cardinality(ToSet(available'[k]) \ idleTimers') <= 1
    <3>1. ToSet(available[k]) \ idleTimers \in SUBSET Conn
      BY <1>0, <2>0 DEF PoolAsItIs
    <3>2. Cardinality(ToSet(available'[k]) \ idleTimers') <= Cardinality(ToSet(available[k]) \ idleTimers)
      BY <2>4, <3>1, ConnSets, FS_Subset
    <3>3. ToSet(available'[k]) \ idleTimers' \in SUBSET Conn
      BY <2>4, <3>1
    <3> QED
      BY <1>0, <2>0, <3>1, <3>2, <3>3, ConnSets DEF PoolAsItIs
  <2>6. /\ Owned(k)' = Owned(k) /\ c \in Owned(k) /\ \A l \in Pool \ {k} : c \notin ToSet(available[l])
    BY <2>1, <2>2 DEF Owned, PoolInv, PoolsApart
  <2>7. ToSet(available'[k]) \cap (inUse'[k] \cup held') = {}
    BY <1>0, <2>0, <2>1, <2>2 DEF PoolAsItIs
  <2>8. /\ poolAt' = poolAt /\ creating' = creating /\ created' = created /\ pools' = pools /\ crowded' = crowded
        /\ openNow' = openNow /\ Usable(k)
        /\ \A l \in Pool \ {k} : available'[l] = available[l] /\ inUse'[l] = inUse[l]
    BY <1>0, <2>0, <1>3 DEF AcquiresIdle, PoolTypeOK, PoolAsItIs
  <2>9. k \notin crowded' =>
          Len(available'[k]) + Cardinality(inUse'[k]) + creating'[k] <= MaxConnections
    BY <1>0, <2>0, <2>1, <2>2, <2>8 DEF PoolAsItIs
  <2>10. (idleTimers \ idleTimers') \subseteq {c} /\ openNow \ openNow' = {}
    BY <2>2, <2>8
  <2>s. SparesOthers(k)
    BY <1>0, <2>0, <2>1, <2>2, <2>3, <2>5, <2>6, <2>7, <2>8, <2>9, <2>10 DEF Usable, PoolAsItIs, SparesOthers
  <2>l. LeavesInOrder(k)
    BY <1>0, <2>0, <2>1, <2>2, <2>3, <2>5, <2>6, <2>7, <2>8, <2>9, <2>10 DEF Usable, PoolAsItIs, LeavesInOrder
  <2> QED
    BY <2>3, <2>s, <2>l, OnePoolChanges
<1>4. ASSUME NEW k \in Pool, AcquireStarts(k) PROVE PoolInv'
  <2>0. PoolAsItIs(k)
    BY <1>0
  <2>1. /\ creating'[k] = creating[k] + 1 /\ \A l \in Pool \ {k} : creating'[l] = creating[l]
        /\ creating[k] + 1 \in 0 .. MaxCreated /\ available[k] = <<>> /\ Len(available[k]) = 0
        /\ Cardinality(inUse[k]) + 1 <= MaxConnections /\ Usable(k)
    BY <1>0, <2>0, <1>4, <1>e DEF AcquireStarts, PoolTypeOK, PoolAsItIs
  <2>2. /\ crowded \subseteq crowded' /\ crowded' \subseteq Pool
        /\ k \notin crowded' => creating[k] = 0
        /\ UNCHANGED <<pools, mappedPool, poolAt, available, inUse, idleTimers, created, openNow, held>>
    BY <1>0, <2>0, <1>4 DEF AcquireStarts, PoolTypeOK, PoolAsItIs
  <2>3. PoolTypeOK'
    BY <1>0, <2>0, <1>4, <2>1, <2>2 DEF AcquireStarts, PoolTypeOK, PoolAsItIs
  <2>4. Owned(k)' = Owned(k)
    BY <2>2 DEF Owned
  <2>5. k \notin crowded' => Len(available'[k]) + Cardinality(inUse'[k]) + creating'[k] <= MaxConnections
    <3>1. available'[k] = available[k] /\ inUse'[k] = inUse[k] /\ Cardinality(inUse[k]) \in Nat
      BY <2>0, <2>2 DEF PoolAsItIs
    <3>2. k \notin crowded' => creating'[k] = 1
      BY <2>1, <2>2
    <3> QED
      BY <1>0, <2>1, <3>1, <3>2
  <2>6. UNCHANGED <<pools, poolAt, available, inUse, idleTimers, created, openNow, held>>
    BY <2>2
  <2>s. SparesOthers(k)
    BY <1>0, <2>1, <2>2, <2>4, <2>6 DEF SparesOthers
  <2>l. LeavesInOrder(k)
    BY <1>0, <2>0, <2>1, <2>2, <2>3, <2>4, <2>5 DEF Usable, PoolAsItIs, LeavesInOrder
  <2> QED
    BY <2>3, <2>s, <2>l, OnePoolChanges
<1>5. ASSUME NEW k \in Pool, AcquireEnds(k) PROVE PoolInv'
  <2>0. PoolAsItIs(k)
    BY <1>0
  <2>1. /\ created' = created + 1 /\ created + 1 \in Conn /\ openNow' = openNow \cup {created + 1}
        /\ creating'[k] = creating[k] - 1 /\ creating[k] - 1 \in 0 .. MaxCreated /\ creating[k] > 0
        /\ inUse'[k] = inUse[k] \cup {created + 1} /\ held' = held \cup {created + 1}
    BY <1>0, <2>0, <1>5 DEF AcquireEnds, NewConnection, PoolTypeOK, Conn, PoolAsItIs
  <2>2. /\ \A l \in Pool \ {k} : creating'[l] = creating[l] /\ inUse'[l] = inUse[l]
        /\ UNCHANGED <<pools, mappedPool, poolAt, available, idleTimers, crowded>>
    BY <1>0, <2>0, <1>5 DEF AcquireEnds, PoolTypeOK, PoolAsItIs
  <2>3. created + 1 \notin Owned(k) /\ created + 1 \notin held
    BY <1>0, <2>0 DEF PoolAsItIs
  <2>4. Cardinality(inUse'[k]) = Cardinality(inUse[k]) + 1
    BY <1>0, <2>0, <2>1, <2>3, ConnSets DEF Owned, PoolAsItIs
  <2>5. PoolTypeOK'
    BY <1>0, <2>0, <1>5, <2>1, <2>2 DEF AcquireEnds, PoolTypeOK, Conn, PoolAsItIs
  <2>6. Owned(k)' = Owned(k) \cup {created + 1} /\ created + 1 \in (created + 1) .. created'
    BY <1>0, <2>0, <2>1, <2>2 DEF Owned, PoolAsItIs
  <2>7. ToSet(available'[k]) \cap (inUse'[k] \cup held') = {}
    BY <1>0, <2>0, <2>1, <2>2, <2>3 DEF Owned, PoolAsItIs
  <2>8. k \notin crowded' => Len(available'[k]) + Cardinality(inUse'[k]) + creating'[k] <= MaxConnections
    <3>1. /\ available'[k] = available[k] /\ crowded' = crowded
          /\ Len(available[k]) \in Nat /\ Cardinality(inUse[k]) \in Nat /\ creating[k] \in Nat
          /\ k \notin crowded => Len(available[k]) + Cardinality(inUse[k]) + creating[k] <= MaxConnections
      BY <2>0, <2>2 DEF PoolAsItIs
    <3>2. Len(available'[k]) = Len(available[k]) /\ creating'[k] = creating[k] - 1
      BY <2>1, <3>1
    <3>3. MaxConnections \in Nat
      BY <1>0
    <3> QED
      BY <2>4, <3>1, <3>2, <3>3
  <2>9. /\ poolAt'[k] = "ready" => /\ Owned(k)' \subseteq openNow'
                                   /\ Cardinality(ToSet(available'[k]) \ idleTimers') <= 1
        /\ poolAt'[k] \notin {"none", "initializing"}
    BY <1>0, <2>0, <2>1, <2>2, <2>6 DEF PoolAsItIs
  <2>10. created <= created' /\ openNow \ openNow' = {} /\ idleTimers \ idleTimers' = {}
    BY <1>0, <2>0, <2>1, <2>2 DEF PoolAsItIs
  <2>s. SparesOthers(k)
    BY <1>0, <2>0, <2>1, <2>2, <2>5, <2>6, <2>7, <2>8, <2>9, <2>10 DEF PoolAsItIs, SparesOthers
  <2>l. LeavesInOrder(k)
    BY <1>0, <2>0, <2>1, <2>2, <2>5, <2>6, <2>7, <2>8, <2>9, <2>10 DEF PoolAsItIs, LeavesInOrder
  <2> QED
    BY <2>5, <2>s, <2>l, OnePoolChanges
<1>6. ASSUME NEW k \in Pool, CreateFails(k) PROVE PoolInv'
  <2>0. PoolAsItIs(k)
    BY <1>0
  <2>1. UNCHANGED <<pools, mappedPool, available, inUse, idleTimers, created, openNow, held, crowded>>
    BY <1>6 DEF CreateFails
  <2>2. /\ creating'[k] \in 0 .. creating[k] /\ \A l \in Pool \ {k} : creating'[l] = creating[l]
        /\ \A l \in Pool \ {k} : poolAt'[l] = poolAt[l]
        /\ \/ poolAt'[k] = "closed"
           \/ poolAt'[k] = poolAt[k] /\ poolAt[k] \notin {"none", "initializing"}
    BY <1>0, <2>0, <1>6 DEF CreateFails, PoolTypeOK, PoolAsItIs
  <2>3. PoolTypeOK'
    <3>1. /\ creating' \in [Pool -> 0 .. MaxCreated]
          /\ poolAt' \in [Pool -> {"none", "initializing", "ready", "closing", "closed"}]
      <4>1. creating[k] > 0 => creating[k] - 1 \in 0 .. MaxCreated
        BY <1>0 DEF PoolTypeOK
      <4> QED
        BY <1>0, <1>6, <4>1 DEF CreateFails, PoolTypeOK
    <3> QED
      BY <1>0, <2>1, <3>1 DEF PoolTypeOK
  <2>4. Owned(k)' = Owned(k)
    BY <2>1 DEF Owned
  <2>5. k \notin crowded' => Len(available'[k]) + Cardinality(inUse'[k]) + creating'[k] <= MaxConnections
    BY <1>0, <2>0, <2>1, <2>2 DEF PoolAsItIs
  <2>6. creating'[k] \in Nat /\ k > pools => poolAt'[k] = "none"
    BY <1>0, <2>0, <1>6, <2>2 DEF CreateFails, PoolAsItIs
  <2>s. SparesOthers(k)
    BY <1>0, <2>0, <2>1, <2>2, <2>3, <2>4, <2>5, <2>6 DEF PoolAsItIs, SparesOthers
  <2>l. LeavesInOrder(k)
    BY <1>0, <2>0, <2>1, <2>2, <2>3, <2>4, <2>5, <2>6 DEF PoolAsItIs, LeavesInOrder
  <2> QED
    BY <2>3, <2>s, <2>l, OnePoolChanges
<1>7. ASSUME NEW k \in Pool, NEW c \in Conn, Releases(k, c) PROVE PoolInv'
  <2>0. PoolAsItIs(k)
    BY <1>0
  <2>1. /\ c \in held /\ held' = held \ {c}
        /\ UNCHANGED <<pools, mappedPool, poolAt, creating, created, openNow, crowded>>
    BY <1>7 DEF Releases
  <2>2. CASE c \in inUse[k]
    <3>1. /\ inUse'[k] = inUse[k] \ {c} /\ available'[k] = Append(available[k], c)
          /\ idleTimers' = idleTimers \cup {c}
          /\ \A l \in Pool \ {k} : inUse'[l] = inUse[l] /\ available'[l] = available[l]
      BY <1>0, <2>0, <1>7, <2>2 DEF Releases, Frees, PoolTypeOK, PoolAsItIs
    <3>2. /\ available'[k] \in Seq(Conn) /\ ToSet(available'[k]) = ToSet(available[k]) \cup {c}
          /\ Distinct(available'[k]) /\ Len(available'[k]) = Len(available[k]) + 1
      <4>1. c \notin ToSet(available[k])
        BY <1>0, <2>0, <2>2 DEF PoolAsItIs
      <4> QED
        BY <1>0, <2>0, <3>1, <4>1, AppendDistinct, AppendProperties DEF PoolAsItIs
    <3>3. Cardinality(inUse'[k]) = Cardinality(inUse[k]) - 1
      BY <1>0, <2>0, <2>2, <3>1, ConnSets DEF PoolAsItIs
    <3>4. PoolTypeOK'
      BY <1>0, <2>0, <1>7, <2>1, <2>2, <3>1, <3>2 DEF Releases, Frees, PoolTypeOK, PoolAsItIs
    <3>5. Owned(k)' = Owned(k)
      BY <2>2, <3>1, <3>2 DEF Owned
    <3>6. ToSet(available'[k]) \cap (inUse'[k] \cup held') = {}
      BY <1>0, <2>0, <2>1, <3>1, <3>2 DEF PoolAsItIs
    <3>7. k \notin crowded' => Len(available'[k]) + Cardinality(inUse'[k]) + creating'[k] <= MaxConnections
      BY <1>0, <2>0, <2>1, <3>2, <3>3 DEF PoolAsItIs
    <3>8. ToSet(available'[k]) \ idleTimers' \subseteq ToSet(available[k]) \ idleTimers
      BY <3>1, <3>2
    <3>9. poolAt[k] = "ready" => Cardinality(ToSet(available'[k]) \ idleTimers') <= 1
      BY <1>0, <2>0, <3>8, FewerAreAtMostOne DEF PoolAsItIs
    <3>10. poolAt[k] \notin {"none", "initializing"} /\ created <= created' /\ openNow \ openNow' = {}
           /\ idleTimers \ idleTimers' = {}
      BY <1>0, <2>0, <2>1, <2>2, <3>1 DEF PoolAsItIs
    <3>s. SparesOthers(k)
      BY <1>0, <2>0, <2>1, <3>1, <3>2, <3>4, <3>5, <3>6, <3>7, <3>9, <3>10 DEF PoolAsItIs, SparesOthers
    <3>l. LeavesInOrder(k)
      BY <1>0, <2>0, <2>1, <3>1, <3>2, <3>4, <3>5, <3>6, <3>7, <3>9, <3>10 DEF PoolAsItIs, LeavesInOrder
    <3> QED
      BY <3>4, <3>s, <3>l, OnePoolChanges
  <2>3. CASE c \notin inUse[k]
    <3>1. UNCHANGED <<available, inUse, idleTimers>>
      BY <1>7, <2>3 DEF Releases
    <3>2. PoolTypeOK'
      BY <1>0, <2>0, <2>1, <3>1 DEF PoolTypeOK, PoolAsItIs
    <3> QED
      BY <2>1, <3>1, <3>2 DEF PoolInv, PoolsApart, PoolSafe, OneUser, LimitHolds, IdleIsTimed, Owned
  <2> QED
    BY <2>2, <2>3
<1>8. ASSUME NEW k \in Pool, NEW c \in Conn, IdleFires(k, c) PROVE PoolInv'
  <2>0. PoolAsItIs(k)
    BY <1>0
  <2>1. /\ available'[k] = RemoveFirst(available[k], c) /\ idleTimers' = idleTimers \ {c}
        /\ openNow \ openNow' \subseteq {c} /\ openNow' \subseteq openNow
        /\ c \notin ToSet(available[k]) => openNow' = openNow
        /\ \A l \in Pool \ {k} : available'[l] = available[l]
        /\ UNCHANGED <<pools, mappedPool, poolAt, inUse, creating, created, held, crowded>>
    BY <1>0, <2>0, <1>8 DEF IdleFires, PoolTypeOK, PoolAsItIs
  <2>2. /\ available'[k] \in Seq(Conn) /\ ToSet(available'[k]) = ToSet(available[k]) \ {c}
        /\ Distinct(available'[k]) /\ Len(available'[k]) <= Len(available[k]) /\ Len(available'[k]) \in Nat
    BY <1>0, <2>0, <2>1, RemoveDistinct, LenProperties DEF PoolAsItIs
  <2>3. PoolTypeOK'
    BY <1>0, <2>0, <1>8, <2>1, <2>2 DEF IdleFires, PoolTypeOK, PoolAsItIs
  <2>4. /\ Owned(k)' \subseteq Owned(k)
        /\ c \notin inUse[k] \/ c \notin ToSet(available[k])
        /\ Owned(k)' = Owned(k) \ {c} \/ c \notin ToSet(available[k])
    BY <1>0, <2>0, <2>1, <2>2 DEF Owned, PoolAsItIs
  <2>5. \A l \in Pool \ {k} : c \notin ToSet(available[l])
    BY <1>0, <2>0, <1>8 DEF IdleFires, PoolInv, PoolsApart, Owned, PoolAsItIs
  <2>6. /\ openNow \ openNow' \subseteq Owned(k)
        /\ poolAt[k] = "ready" => Owned(k)' \subseteq openNow'
    BY <1>0, <2>0, <2>1, <2>2, <2>4 DEF Owned, PoolAsItIs
  <2>7. poolAt[k] = "ready" => Cardinality(ToSet(available'[k]) \ idleTimers') <= 1
    <3>1. ToSet(available'[k]) \ idleTimers' \subseteq ToSet(available[k]) \ idleTimers
      BY <2>1, <2>2
    <3> QED
      BY <1>0, <2>0, <3>1, FewerAreAtMostOne DEF PoolAsItIs
  <2>8. k \notin crowded' => Len(available'[k]) + Cardinality(inUse'[k]) + creating'[k] <= MaxConnections
    BY <1>0, <2>0, <2>1, <2>2 DEF PoolAsItIs
  <2>9. poolAt[k] \in {"none", "initializing"} => available'[k] = <<>>
    BY <1>0, <2>0, <2>2, EmptySeq DEF PoolAsItIs
  <2>10. created <= created' /\ (idleTimers \ idleTimers') \subseteq {c}
         /\ ToSet(available'[k]) \cap (inUse'[k] \cup held') = {}
    BY <1>0, <2>0, <2>1, <2>2 DEF PoolAsItIs
  <2>s. SparesOthers(k)
    <3>1. (idleTimers \ idleTimers') \cap UNION {ToSet(available[l]) : l \in Pool \ {k}} = {}
      BY <2>5, <2>10
    <3>2. /\ inUse' = inUse /\ creating' = creating /\ created' = created
          /\ held' = held /\ pools' = pools /\ crowded' = crowded /\ poolAt' = poolAt
          /\ \A l \in Pool \ {k} : available'[l] = available[l]
      BY <2>1
    <3>3. created <= created' /\ Owned(k)' \subseteq Owned(k) /\ openNow \ openNow' \subseteq Owned(k)
      BY <2>4, <2>6, <2>10
    <3> QED
      BY <1>0, <3>1, <3>2, <3>3 DEF SparesOthers
  <2>l. LeavesInOrder(k)
    BY <1>0, <2>0, <2>1, <2>2, <2>3, <2>4, <2>5, <2>6, <2>7, <2>8, <2>9, <2>10 DEF PoolAsItIs, LeavesInOrder
  <2> QED
    BY <2>3, <2>s, <2>l, OnePoolChanges
<1>9. ASSUME NEW k \in Pool, CloseStarts(k) PROVE PoolInv'
  <2>0. PoolAsItIs(k)
    BY <1>0
  <2>1. /\ poolAt[k] = "ready" /\ poolAt'[k] = "closing" /\ \A l \in Pool \ {k} : poolAt'[l] = poolAt[l]
        /\ idleTimers' = idleTimers \ Owned(k) /\ openNow' = openNow \ Owned(k)
        /\ UNCHANGED <<pools, mappedPool, available, inUse, creating, created, held, crowded>>
    BY <1>0, <2>0, <1>9 DEF CloseStarts, PoolTypeOK, Owned, PoolAsItIs
  <2>2. PoolTypeOK'
    BY <1>0, <2>0, <1>9, <2>1 DEF CloseStarts, PoolTypeOK, PoolAsItIs
  <2>3. \A l \in Pool \ {k} : Owned(k) \cap ToSet(available[l]) = {}
    BY DEF PoolInv, PoolsApart, Owned
  <2>4. /\ Owned(k)' = Owned(k) /\ openNow \ openNow' \subseteq Owned(k) /\ created <= created'
        /\ idleTimers \ idleTimers' \subseteq Owned(k)
    BY <1>0, <2>0, <2>1 DEF Owned, PoolAsItIs
  <2>s. SparesOthers(k)
    <3>1. Owned(k) \cap UNION {ToSet(available[l]) : l \in Pool \ {k}} = {}
      BY <2>3
    <3>2. (idleTimers \ idleTimers') \cap UNION {ToSet(available[l]) : l \in Pool \ {k}} = {}
      BY <2>4, <3>1
    <3>3. /\ available' = available /\ inUse' = inUse /\ creating' = creating /\ created' = created
          /\ held' = held /\ pools' = pools /\ crowded' = crowded
      BY <2>1
    <3>4. \A l \in Pool \ {k} : poolAt'[l] = poolAt[l]
      BY <2>1
    <3> QED
      BY <1>0, <2>4, <3>2, <3>3, <3>4 DEF SparesOthers
  <2>l. LeavesInOrder(k)
    BY <1>0, <2>0, <2>1, <2>2, <2>3, <2>4 DEF PoolAsItIs, LeavesInOrder
  <2> QED
    BY <2>2, <2>s, <2>l, OnePoolChanges
<1>10. ASSUME NEW k \in Pool, CloseEnds(k) PROVE PoolInv'
  <2>0. PoolAsItIs(k)
    BY <1>0
  <2>1. /\ poolAt[k] = "closing" /\ poolAt'[k] = "closed" /\ \A l \in Pool \ {k} : poolAt'[l] = poolAt[l]
        /\ available'[k] = <<>> /\ \A l \in Pool \ {k} : available'[l] = available[l]
        /\ inUse'[k] = {} /\ \A l \in Pool \ {k} : inUse'[l] = inUse[l]
        /\ UNCHANGED <<pools, creating, idleTimers, created, openNow, held, crowded>>
    BY <1>0, <2>0, <1>10 DEF CloseEnds, PoolTypeOK, PoolAsItIs
  <2>2. PoolTypeOK'
    BY <1>0, <2>0, <1>10, <2>1, ConnectionPoolAssumption DEF CloseEnds, PoolTypeOK, PoolAsItIs
  <2>3. Owned(k)' = {} /\ created <= created'
    BY <1>0, <2>0, <1>e, <2>1 DEF Owned, PoolAsItIs
  <2>4. k \notin crowded' => Len(available'[k]) + Cardinality(inUse'[k]) + creating'[k] <= MaxConnections
    BY <1>0, <2>0, <1>e, <2>1 DEF PoolAsItIs
  <2>s. SparesOthers(k)
    BY <1>0, <2>0, <1>e, <2>1, <2>2, <2>3, <2>4 DEF PoolAsItIs, SparesOthers
  <2>l. LeavesInOrder(k)
    BY <1>0, <2>0, <1>e, <2>1, <2>2, <2>3, <2>4 DEF PoolAsItIs, LeavesInOrder
  <2> QED
    BY <2>2, <2>s, <2>l, OnePoolChanges
<1>11. CASE UNCHANGED poolVars
  BY <1>11 DEF poolVars, PoolInv, PoolTypeOK, PoolsApart, PoolSafe, OneUser, LimitHolds, IdleIsTimed, Owned
<1> QED
  BY <1>1, <1>2, <1>3, <1>4, <1>5, <1>6, <1>7, <1>8, <1>9, <1>10, <1>11 DEF PoolNext

\* No connection has two users or is closed under one while its pool is ready,
\* the limit holds in a pool where no two acquires awaited at once, and a spare
\* connection that was used has its idle timer, for any limit, pools and
\* connections (ConnectionManager and ConnectionPool).
THEOREM PoolsAreSafe == PoolSpec => []PoolSafe
<1>1. PoolInv => PoolSafe
  BY DEF PoolInv
<1> QED
  BY PoolStarts, PoolSteps, <1>1, PTL DEF PoolSpec

-----------------------------------------------------------------------------
(***************************************************************************)
(* The engine's lifecycle                                                  *)
(***************************************************************************)
\* A call at work awaits a component that there is.
AwaitsComponent == \A k \in Call : call[k].op # "none" => call[k].at \in 1 .. components

\* While no call has met another one there is one at most, the state is its
\* state, and the components that it has been through are up, or are not but
\* for those whose stop threw.
AloneAtWork ==
  ~overlapped =>
    /\ \A k, l \in InProgress : k = l
    /\ InProgress = {} => engineState \notin {"starting", "stopping"}
    /\ \A k \in Call :
         /\ call[k].op = "start" => /\ engineState = "starting"
                                    /\ 1 .. (call[k].at - 1) \subseteq up
         /\ call[k].op = "stop" => /\ engineState = "stopping"
                                   /\ up \cap (call[k].at + 1) .. components \subseteq stuck

LifeInv == /\ LifeTypeOK /\ AwaitsComponent /\ up \subseteq 1 .. components
           /\ AloneAtWork /\ StateIsTrue /\ StateMoves

CallStates == [op : {"none", "start", "stop"}, at : 0 .. MaxComponents + 1, timed : BOOLEAN]

LEMMA LifeStarts == LifeInit => LifeInv
<1> SUFFICES ASSUME LifeInit PROVE LifeInv
  OBVIOUS
<1>1. LifeTypeOK
  <2>1. NoCall \in CallStates
    BY LifecycleAssumption DEF NoCall, CallStates
  <2>2. call \in [Call -> CallStates]
    BY <2>1 DEF LifeInit
  <2>3. 0 \in 0 .. MaxComponents /\ 0 \in 0 .. MaxLifeCalls
    BY LifecycleAssumption
  <2> QED
    BY <2>2, <2>3 DEF LifeInit, LifeTypeOK, States, CallStates
<1>2. \A k \in Call : call[k].op = "none"
  BY DEF LifeInit, NoCall
<1>3. StateIsTrue
  BY DEF LifeInit, StateIsTrue
<1>4. AwaitsComponent /\ StateMoves /\ up \subseteq 1 .. components
  BY <1>2 DEF LifeInit, AwaitsComponent, StateMoves
<1>5. AloneAtWork
  BY <1>2 DEF LifeInit, AloneAtWork, InProgress
<1> QED
  BY <1>1, <1>3, <1>4, <1>5 DEF LifeInv

LEMMA LifeSteps == LifeInv /\ [LifeNext]_lifeVars => LifeInv'
<1> SUFFICES ASSUME LifeInv, [LifeNext]_lifeVars PROVE LifeInv'
  OBVIOUS
<1> USE LifecycleAssumption
        DEF LifeInv, LifeTypeOK, States, Component, NoCall, InProgress
<1>1. CASE RegisterComponent
  <2>1. LifeTypeOK'
    BY <1>1 DEF RegisterComponent, AwaitsComponent
  <2>2. AwaitsComponent'
    BY <1>1 DEF RegisterComponent, AwaitsComponent
  <2>3. (up \subseteq 1 .. components)'
    BY <1>1 DEF RegisterComponent, AwaitsComponent
  <2>4. AloneAtWork'
    BY <1>1 DEF RegisterComponent, AwaitsComponent, AloneAtWork
  <2>5. StateIsTrue'
    BY <1>1 DEF RegisterComponent, AwaitsComponent, AloneAtWork, StateIsTrue
  <2>6. StateMoves'
    BY <1>1 DEF RegisterComponent, StateMoves
  <2> QED
    BY <2>1, <2>2, <2>3, <2>4, <2>5, <2>6
<1>2. ASSUME NEW k \in Call, Start(k) PROVE LifeInv'
  <2>1. LifeTypeOK'
    <3>1. overlapped' \in BOOLEAN
      BY <1>2, Zenon DEF Start
    <3>2. lifeCalls' \in 0 .. MaxLifeCalls
      BY <1>2 DEF Start, Calls, CallStates
    <3>3. [op |-> "start", at |-> 1, timed |-> FALSE] \in CallStates
      BY DEF CallStates
    <3>4. call' \in [Call -> CallStates]
      BY <1>2, <3>3 DEF Start, CallStates
    <3> QED
      BY <1>2, <3>1, <3>2, <3>4 DEF Start, CallStates
  <2>2. AwaitsComponent'
    BY <1>2 DEF Start, Calls, AwaitsComponent
  <2>3. (up \subseteq 1 .. components)'
    BY <1>2 DEF Start, Calls, AwaitsComponent
  <2>4. AloneAtWork'
    BY <1>2 DEF Start, Calls, AwaitsComponent, AloneAtWork
  <2>5. StateIsTrue'
    <3>1. ~overlapped' => ~overlapped /\ InProgress = {}
      BY <1>2, Zenon DEF Start
    <3>2. CASE components = 0
      <4>1. 1 .. components = {} /\ up = {}
        BY <3>2
      <4> QED
        BY <1>2, <3>2, <4>1 DEF Start, StateIsTrue
    <3>3. CASE components # 0
      BY <1>2, <3>3 DEF Start, StateIsTrue
    <3> QED
      BY <3>2, <3>3
  <2>6. StateMoves'
    BY <1>2 DEF Start, Calls, StateMoves
  <2> QED
    BY <2>1, <2>2, <2>3, <2>4, <2>5, <2>6
<1>3. ASSUME NEW k \in Call, ComponentStarts(k) PROVE LifeInv'
  <2>1. LifeTypeOK'
    <3>1. /\ call[k].at \in Component
          /\ call[k].at < components => call[k].at + 1 \in 0 .. MaxComponents + 1
          /\ NoCall \in CallStates
      BY <1>3 DEF ComponentStarts, AwaitsComponent, CallStates
    <3>2. call' \in [Call -> CallStates]
      <4> HIDE DEF NoCall
      <4> QED
        BY <1>3, <3>1 DEF ComponentStarts, CallStates
    <3> QED
      BY <1>3, <3>1, <3>2 DEF ComponentStarts, CallStates
  <2>2. AwaitsComponent'
    BY <1>3 DEF ComponentStarts, AwaitsComponent
  <2>3. (up \subseteq 1 .. components)'
    BY <1>3 DEF ComponentStarts, AwaitsComponent
  <2>4. AloneAtWork'
    BY <1>3 DEF ComponentStarts, AwaitsComponent, AloneAtWork
  <2>5. StateIsTrue'
    BY <1>3 DEF ComponentStarts, AwaitsComponent, AloneAtWork, StateIsTrue
  <2>6. StateMoves'
    BY <1>3 DEF ComponentStarts, StateMoves
  <2> QED
    BY <2>1, <2>2, <2>3, <2>4, <2>5, <2>6
<1>4. ASSUME NEW k \in Call, ComponentStartFails(k) PROVE LifeInv'
  BY <1>4
  DEF ComponentStartFails, AwaitsComponent, AloneAtWork, StateIsTrue, StateMoves
<1>5. ASSUME NEW k \in Call, NEW limited \in BOOLEAN, Stop(k, limited) PROVE LifeInv'
  <2>1. LifeTypeOK'
    <3>1. overlapped' \in BOOLEAN
      BY <1>5, Zenon DEF Stop
    <3>2. lifeCalls' \in 0 .. MaxLifeCalls
      BY <1>5 DEF Stop, Calls, CallStates
    <3>3. components \in 0 .. MaxComponents /\ components # 0 => components \in 0 .. MaxComponents + 1 /\ 1 \in 0 .. MaxComponents + 1
      OBVIOUS
    <3>4. call' \in [Call -> CallStates]
      BY <1>5, <3>3 DEF Stop, CallStates
    <3> QED
      BY <1>5, <3>1, <3>2, <3>4 DEF Stop, CallStates
  <2>2. AwaitsComponent'
    BY <1>5 DEF Stop, Calls, AwaitsComponent
  <2>3. (up \subseteq 1 .. components)'
    BY <1>5 DEF Stop, Calls, AwaitsComponent
  <2>4. AloneAtWork'
    <3>1. ~overlapped' => ~overlapped /\ InProgress = {}
      BY <1>5, Zenon DEF Stop
    <3>2. CASE components = 0
      BY <1>5, <3>1, <3>2 DEF Stop, Calls, AloneAtWork
    <3>3. CASE components # 0
      <4>1. /\ call'[k] = [op |-> "stop", at |-> components, timed |-> limited]
            /\ \A l \in Call \ {k} : call'[l] = call[l]
            /\ engineState' = "stopping" /\ components' = components /\ up' = up
        BY <1>5, <3>3 DEF Stop
      <4>2. (components + 1) .. components = {}
        OBVIOUS
      <4>3. ~overlapped' => \A l \in Call \ {k} : call'[l].op = "none"
        BY <3>1, <4>1
      <4> QED
        BY <4>1, <4>2, <4>3 DEF AloneAtWork
    <3> QED
      BY <3>2, <3>3
  <2>5. StateIsTrue'
    <3>2. CASE components = 0
      <4>1. 1 .. components = {} /\ up = {}
        BY <3>2
      <4> QED
        BY <1>5, <3>2, <4>1 DEF Stop, StateIsTrue
    <3>3. CASE components # 0
      BY <1>5, <3>3 DEF Stop, StateIsTrue
    <3> QED
      BY <3>2, <3>3
  <2>6. StateMoves'
    BY <1>5 DEF Stop, Calls, StateMoves
  <2> QED
    BY <2>1, <2>2, <2>3, <2>4, <2>5, <2>6
<1>6. ASSUME NEW k \in Call, SecondShutdown(k) PROVE LifeInv'
  BY <1>6
  DEF SecondShutdown, Calls, AwaitsComponent, AloneAtWork, StateIsTrue, StateMoves
<1>7. ASSUME NEW k \in Call, ShutdownTimesOut(k) PROVE LifeInv'
  BY <1>7
  DEF ShutdownTimesOut, AwaitsComponent, AloneAtWork, StateIsTrue, StateMoves
<1>8. ASSUME NEW k \in Call, ComponentStops(k) PROVE LifeInv'
  <2>1. LifeTypeOK'
    <3>1. /\ call[k].at \in 1 .. components /\ call[k].at \in Component
          /\ call[k].at > 1 => call[k].at - 1 \in 0 .. MaxComponents + 1
          /\ NoCall \in CallStates
      BY <1>8 DEF ComponentStops, StopsNext, AwaitsComponent, CallStates
    <3>2. call' \in [Call -> CallStates]
      <4> HIDE DEF NoCall
      <4> QED
        BY <1>8, <3>1 DEF ComponentStops, StopsNext, CallStates
    <3> QED
      BY <1>8, <3>1, <3>2 DEF ComponentStops, StopsNext, CallStates
  <2>2. AwaitsComponent'
    BY <1>8 DEF ComponentStops, StopsNext, AwaitsComponent
  <2>3. (up \subseteq 1 .. components)'
    BY <1>8 DEF ComponentStops, StopsNext, AwaitsComponent
  <2>4. AloneAtWork'
    BY <1>8 DEF ComponentStops, StopsNext, AwaitsComponent, AloneAtWork
  <2>5. StateIsTrue'
    BY <1>8 DEF ComponentStops, StopsNext, AwaitsComponent, AloneAtWork, StateIsTrue
  <2>6. StateMoves'
    BY <1>8 DEF ComponentStops, StopsNext, StateMoves
  <2> QED
    BY <2>1, <2>2, <2>3, <2>4, <2>5, <2>6
<1>9. ASSUME NEW k \in Call, ComponentStopFails(k) PROVE LifeInv'
  <2>1. LifeTypeOK'
    <3>1. /\ call[k].at \in 1 .. components /\ call[k].at \in Component
          /\ call[k].at > 1 => call[k].at - 1 \in 0 .. MaxComponents + 1
          /\ NoCall \in CallStates
      BY <1>9 DEF ComponentStopFails, StopsNext, AwaitsComponent, CallStates
    <3>2. call' \in [Call -> CallStates]
      <4> HIDE DEF NoCall
      <4> QED
        BY <1>9, <3>1 DEF ComponentStopFails, StopsNext, CallStates
    <3> QED
      BY <1>9, <3>1, <3>2 DEF ComponentStopFails, StopsNext, CallStates
  <2>2. AwaitsComponent'
    BY <1>9 DEF ComponentStopFails, StopsNext, AwaitsComponent
  <2>3. (up \subseteq 1 .. components)'
    BY <1>9 DEF ComponentStopFails, StopsNext, AwaitsComponent
  <2>4. AloneAtWork'
    BY <1>9 DEF ComponentStopFails, StopsNext, AwaitsComponent, AloneAtWork
  <2>5. StateIsTrue'
    BY <1>9 DEF ComponentStopFails, StopsNext, AwaitsComponent, AloneAtWork, StateIsTrue
  <2>6. StateMoves'
    BY <1>9 DEF ComponentStopFails, StopsNext, StateMoves
  <2> QED
    BY <2>1, <2>2, <2>3, <2>4, <2>5, <2>6
<1>10. CASE UNCHANGED lifeVars
  BY <1>10 DEF lifeVars, AwaitsComponent, AloneAtWork, StateIsTrue, StateMoves
<1> QED
  BY <1>1, <1>2, <1>3, <1>4, <1>5, <1>6, <1>7, <1>8, <1>9, <1>10 DEF LifeNext

\* The state of the engine is true as long as calls do not meet, and never stuck
\* in starting or stopping, for any number of calls and components
\* (EngineLifecycle's start, stop and gracefulShutdown).
THEOREM LifecycleIsSafe == LifeSpec => []LifecycleSafe
<1>1. LifeInv => LifecycleSafe
  BY DEF LifeInv, LifecycleSafe
<1> QED
  BY LifeStarts, LifeSteps, <1>1, PTL DEF LifeSpec

-----------------------------------------------------------------------------
(***************************************************************************)
(* Sums over sets, as MapThenSumSet computes them                          *)
(***************************************************************************)
\* What MapThenSumSet recurses with: h[s] adds f up over s, one element at a time.
Pick(s) == CHOOSE x \in s : TRUE
Adds(h, f, S) ==
  h = [s \in SUBSET S |-> IF s = {} THEN 0 ELSE f[Pick(s)] + h[s \ {Pick(s)}]]

\* What f adds up to over S.
SumOf(f, S) == (CHOOSE h : Adds(h, f, S))[S]

LEMMA PickIn == \A s : s # {} => Pick(s) \in s
  BY DEF Pick

\* A non-empty set of subsets of a finite set has a minimal one.
LEMMA MinimalSubset ==
  ASSUME NEW S, IsFiniteSet(S), NEW B \in SUBSET SUBSET S, B # {}
  PROVE  \E s \in B : \A t \in B : t \subseteq s => t = s
<1> DEFINE N == {Cardinality(t) : t \in B}
<1>1. \A t \in B : t \in SUBSET S /\ IsFiniteSet(t) /\ Cardinality(t) \in Nat
  BY FS_Subset, FS_CardinalityType
<1>2. N \in SUBSET Nat /\ N # {}
  BY <1>1
<1> HIDE DEF N
<1>3. PICK n \in N : \A m \in N : n <= m
  BY <1>2, LeastExists
<1>4. PICK s \in B : n = Cardinality(s)
  BY DEF N
<1>5. ASSUME NEW t \in B, t \subseteq s PROVE t = s
  <2>1. n <= Cardinality(t) /\ Cardinality(t) \in Nat /\ n \in Nat
    BY <1>1, <1>3, <1>4 DEF N
  <2>2. Cardinality(t) <= Cardinality(s) /\ (Cardinality(s) = Cardinality(t) => s = t)
    BY <1>1, <1>5, FS_Subset
  <2> QED
    BY <1>4, <2>1, <2>2
<1> QED
  BY <1>5

LEMMA AddsExists ==
  ASSUME NEW S, IsFiniteSet(S), NEW f
  PROVE  \E h : Adds(h, f, S)
<1> DEFINE D(n) == {s \in SUBSET S : Cardinality(s) <= n}
           Sums(h, n) == h = [s \in D(n) |-> IF s = {} THEN 0 ELSE f[Pick(s)] + h[s \ {Pick(s)}]]
           B == {n \in Nat : ~\E h : Sums(h, n)}
<1>1. \A s \in SUBSET S : IsFiniteSet(s) /\ Cardinality(s) \in Nat
  BY FS_Subset, FS_CardinalityType
<1>2. ASSUME NEW n \in Nat, n \in B, \A m \in B : n <= m PROVE FALSE
  <2>1. CASE n = 0
    <3>1. \A s \in D(0) : s = {}
      BY <1>1, FS_EmptySet
    <3> DEFINE h == [s \in D(0) |-> 0]
    <3>2. h = [s \in D(0) |-> IF s = {} THEN 0 ELSE f[Pick(s)] + h[s \ {Pick(s)}]]
      BY <3>1
    <3> HIDE DEF h, D
    <3>3. Sums(h, 0)
      BY <3>2
    <3> QED
      BY <1>2, <2>1, <3>3
  <2>2. CASE n # 0
    <3>1. n - 1 \in Nat /\ n - 1 \notin B
      <4> HIDE DEF B
      <4> QED
        BY <1>2, <2>2
    <3>2. PICK h : Sums(h, n - 1)
      BY <3>1
    <3> DEFINE g == [s \in D(n) |-> IF s = {} THEN 0 ELSE f[Pick(s)] + h[s \ {Pick(s)}]]
    <3>3. \A s \in D(n - 1) : s \in D(n)
      BY <1>1, <3>1
    <3>4. \A s \in D(n - 1) : g[s] = h[s]
      <4> HIDE DEF D
      <4>1. h = [s \in D(n - 1) |-> IF s = {} THEN 0 ELSE f[Pick(s)] + h[s \ {Pick(s)}]]
        BY <3>2
      <4>2. \A s \in D(n - 1) : h[s] = IF s = {} THEN 0 ELSE f[Pick(s)] + h[s \ {Pick(s)}]
        BY <4>1
      <4> QED
        BY <3>3, <4>2
    <3>5. \A s \in D(n) : s # {} => s \ {Pick(s)} \in D(n - 1)
      <4> SUFFICES ASSUME NEW s \in D(n), s # {} PROVE s \ {Pick(s)} \in D(n - 1)
        OBVIOUS
      <4>1. Pick(s) \in s /\ IsFiniteSet(s) /\ Cardinality(s) \in Nat /\ Cardinality(s) <= n
        BY <1>1, PickIn
      <4>2. Cardinality(s \ {Pick(s)}) = Cardinality(s) - 1
        BY <4>1, FS_RemoveElement
      <4> QED
        BY <4>1, <4>2
    <3> HIDE DEF D
    <3>6. g = [s \in D(n) |-> IF s = {} THEN 0 ELSE f[Pick(s)] + g[s \ {Pick(s)}]]
      BY <3>4, <3>5
    <3> QED
      BY <1>2, <3>6
  <2> QED
    BY <2>1, <2>2
<1>3. B = {}
  BY <1>2, LeastExists
<1>4. PICK h : Sums(h, Cardinality(S))
  BY <1>1, <1>3
<1>5. D(Cardinality(S)) = SUBSET S
  BY <1>1, FS_Subset
<1> QED
  BY <1>4, <1>5 DEF Adds

\* Any element may be taken out first.
LEMMA AddsRemove ==
  ASSUME NEW S, IsFiniteSet(S), NEW f, \A x \in S : f[x] \in Nat, NEW h, Adds(h, f, S)
  PROVE  /\ h[{}] = 0
         /\ \A s \in SUBSET S : h[s] \in Nat /\ \A x \in s : h[s] = f[x] + h[s \ {x}]
<1> DEFINE Good(s) == h[s] \in Nat /\ \A x \in s : h[s] = f[x] + h[s \ {x}]
           B == {s \in SUBSET S : ~Good(s)}
<1>1. \A s \in SUBSET S : h[s] = IF s = {} THEN 0 ELSE f[Pick(s)] + h[s \ {Pick(s)}]
  BY DEF Adds
<1>2. ASSUME NEW s \in B, \A t \in B : t \subseteq s => t = s PROVE FALSE
  <2> DEFINE y == Pick(s)
  <2>1. s \in SUBSET S /\ ~Good(s)
    OBVIOUS
  <2>2. s # {}
    <3> HIDE DEF B
    <3> SUFFICES ASSUME s = {} PROVE FALSE
      OBVIOUS
    <3>1. h[s] = 0
      BY <1>1, <2>1
    <3> QED
      BY <2>1, <3>1
  <2>3. y \in s /\ h[s] = f[y] + h[s \ {y}]
    BY <1>1, <2>1, <2>2, PickIn
  <2>4. ASSUME NEW t \in SUBSET S, t \subseteq s, t # s PROVE Good(t)
    BY <1>2, <2>4
  <2> HIDE DEF y, B
  <2>5. ASSUME NEW x \in s PROVE h[s \ {x}] \in Nat
    BY <2>1, <2>4
  <2>6. ASSUME NEW x \in s, x # y PROVE h[s] = f[x] + h[s \ {x}]
    <3>1. Good(s \ {y}) /\ Good(s \ {x}) /\ x \in s \ {y} /\ y \in s \ {x}
      BY <2>1, <2>3, <2>4, <2>6
    <3>2. (s \ {y}) \ {x} = (s \ {x}) \ {y}
      OBVIOUS
    <3>3. h[s \ {y}] = f[x] + h[(s \ {y}) \ {x}] /\ h[s \ {x}] = f[y] + h[(s \ {y}) \ {x}]
      BY <3>1, <3>2
    <3>4. h[(s \ {y}) \ {x}] \in Nat /\ f[x] \in Nat /\ f[y] \in Nat
      <4>1. Good((s \ {y}) \ {x})
        BY <2>1, <2>3, <2>4
      <4> QED
        BY <2>1, <2>3, <4>1
    <3> QED
      BY <2>3, <3>3, <3>4
  <2>7. h[s] \in Nat
    BY <2>1, <2>3, <2>5
  <2> QED
    BY <2>1, <2>3, <2>6, <2>7
<1>3. B = {}
  <2> HIDE DEF B
  <2> SUFFICES ASSUME B # {} PROVE FALSE
    OBVIOUS
  <2>1. B \in SUBSET SUBSET S
    BY DEF B
  <2> QED
    BY <1>2, <2>1, MinimalSubset
<1> QED
  BY <1>1, <1>3

LEMMA AddsAgree ==
  ASSUME NEW S, IsFiniteSet(S), NEW T \in SUBSET S, NEW f, NEW e, \A x \in T : f[x] = e[x],
         NEW h, Adds(h, f, S), NEW g, Adds(g, e, T)
  PROVE  \A s \in SUBSET T : g[s] = h[s]
<1> DEFINE B == {s \in SUBSET T : g[s] # h[s]}
<1>1. \A s \in SUBSET T :
        /\ h[s] = IF s = {} THEN 0 ELSE f[Pick(s)] + h[s \ {Pick(s)}]
        /\ g[s] = IF s = {} THEN 0 ELSE e[Pick(s)] + g[s \ {Pick(s)}]
  <2>1. \A s \in SUBSET S : h[s] = IF s = {} THEN 0 ELSE f[Pick(s)] + h[s \ {Pick(s)}]
    BY DEF Adds
  <2>2. \A s \in SUBSET T : g[s] = IF s = {} THEN 0 ELSE e[Pick(s)] + g[s \ {Pick(s)}]
    BY DEF Adds
  <2> QED
    BY <2>1, <2>2
<1>2. ASSUME NEW s \in B, \A t \in B : t \subseteq s => t = s PROVE FALSE
  <2>1. s \in SUBSET T /\ g[s] # h[s]
    OBVIOUS
  <2>2. s # {}
    BY <1>1, <2>1
  <2>3. Pick(s) \in s /\ e[Pick(s)] = f[Pick(s)]
    BY <2>1, <2>2, PickIn
  <2>4. s \ {Pick(s)} \in SUBSET T /\ s \ {Pick(s)} \notin B
    <3> HIDE DEF B
    <3>1. s \ {Pick(s)} \subseteq s /\ s \ {Pick(s)} # s
      BY <2>3
    <3> QED
      BY <1>2, <2>1, <3>1
  <2>5. g[s \ {Pick(s)}] = h[s \ {Pick(s)}]
    BY <2>4
  <2> QED
    BY <1>1, <2>1, <2>2, <2>3, <2>5
<1>3. B = {}
  <2> HIDE DEF B
  <2> SUFFICES ASSUME B # {} PROVE FALSE
    OBVIOUS
  <2>1. B \in SUBSET SUBSET T /\ IsFiniteSet(T)
    BY FS_Subset DEF B
  <2> QED
    BY <1>2, <2>1, MinimalSubset
<1> QED
  BY <1>3

\* A sum of natural numbers is one, and takes any element out.
LEMMA SumFacts ==
  ASSUME NEW S, IsFiniteSet(S), NEW f, \A x \in S : f[x] \in Nat
  PROVE  /\ SumOf(f, S) \in Nat /\ (S = {} => SumOf(f, S) = 0)
         /\ \A x \in S : SumOf(f, S) = f[x] + SumOf(f, S \ {x})
<1> DEFINE h == CHOOSE h : Adds(h, f, S)
<1>1. Adds(h, f, S)
  BY AddsExists
<1> HIDE DEF h
<1>2. SumOf(f, S) = h[S]
  BY DEF SumOf, h
<1>3. /\ h[{}] = 0 /\ h[S] \in Nat
      /\ \A x \in S : h[S] = f[x] + h[S \ {x}]
  <2>1. /\ h[{}] = 0
        /\ \A s \in SUBSET S : h[s] \in Nat /\ \A x \in s : h[s] = f[x] + h[s \ {x}]
    BY <1>1, AddsRemove
  <2>2. S \in SUBSET S
    OBVIOUS
  <2> HIDE <1>1
  <2> QED
    BY <2>1, <2>2
<1>4. ASSUME NEW x \in S PROVE h[S \ {x}] = SumOf(f, S \ {x})
  <2> DEFINE T == S \ {x}
             g == CHOOSE g : Adds(g, f, T)
  <2>1. IsFiniteSet(T) /\ T \in SUBSET S
    BY FS_Subset
  <2> HIDE DEF T
  <2>2. Adds(g, f, T)
    BY <2>1, AddsExists
  <2>3. SumOf(f, T) = g[T]
    BY DEF SumOf
  <2> HIDE DEF g
  <2>4. \A s \in SUBSET T : g[s] = h[s]
    BY <1>1, <2>1, <2>2, AddsAgree
  <2> QED
    BY <2>3, <2>4 DEF T
<1> QED
  BY <1>2, <1>3, <1>4

LEMMA SumCongruent ==
  ASSUME NEW S, IsFiniteSet(S), NEW f, NEW e, \A x \in S : f[x] = e[x]
  PROVE  SumOf(f, S) = SumOf(e, S)
<1> DEFINE h == CHOOSE h : Adds(h, f, S)
           g == CHOOSE g : Adds(g, e, S)
<1>1. Adds(h, f, S) /\ Adds(g, e, S) /\ SumOf(f, S) = h[S] /\ SumOf(e, S) = g[S]
  BY AddsExists DEF SumOf
<1> HIDE DEF h, g
<1> QED
  BY <1>1, AddsAgree

\* A larger function has the larger sum.
LEMMA SumMonotone ==
  ASSUME NEW S, IsFiniteSet(S), NEW f, NEW e,
         \A x \in S : f[x] \in Nat /\ e[x] \in Nat /\ f[x] <= e[x]
  PROVE  SumOf(f, S) <= SumOf(e, S)
<1> DEFINE B == {s \in SUBSET S : ~(SumOf(f, s) <= SumOf(e, s))}
<1>1. \A s \in SUBSET S : IsFiniteSet(s)
  BY FS_Subset
<1>2. ASSUME NEW s \in B, \A t \in B : t \subseteq s => t = s PROVE FALSE
  <2>1. s \in SUBSET S /\ ~(SumOf(f, s) <= SumOf(e, s))
    OBVIOUS
  <2>2. /\ s = {} => SumOf(f, s) = 0 /\ SumOf(e, s) = 0
        /\ \A x \in s : SumOf(f, s) = f[x] + SumOf(f, s \ {x}) /\ SumOf(e, s) = e[x] + SumOf(e, s \ {x})
    BY <1>1, <2>1, SumFacts
  <2>3. PICK x : x \in s
    BY <2>1, <2>2
  <2>4. s \ {x} \in SUBSET S /\ s \ {x} \notin B
    <3> HIDE DEF B
    <3>1. s \ {x} \subseteq s /\ s \ {x} # s
      BY <2>3
    <3> QED
      BY <1>2, <2>1, <3>1
  <2>5. SumOf(f, s \ {x}) <= SumOf(e, s \ {x})
    BY <2>4
  <2>6. /\ SumOf(f, s \ {x}) \in Nat /\ SumOf(e, s \ {x}) \in Nat
        /\ f[x] \in Nat /\ e[x] \in Nat /\ f[x] <= e[x]
    BY <1>1, <2>1, <2>3, <2>4, SumFacts
  <2> HIDE DEF B
  <2> QED
    BY <2>1, <2>2, <2>3, <2>5, <2>6
<1>3. B = {}
  <2> HIDE DEF B
  <2> SUFFICES ASSUME B # {} PROVE FALSE
    OBVIOUS
  <2>1. B \in SUBSET SUBSET S
    BY DEF B
  <2> QED
    BY <1>2, <2>1, MinimalSubset
<1> QED
  BY <1>3

\* What the elements outside X add, each no more than c.
LEMMA SumAtMost ==
  ASSUME NEW S, IsFiniteSet(S), NEW X \in SUBSET S, NEW f, NEW c \in Nat,
         \A x \in S : f[x] \in Nat, \A x \in S \ X : f[x] <= c
  PROVE  SumOf(f, S) <= SumOf(f, X) + c * Cardinality(S \ X)
<1> DEFINE Bounded(s) == SumOf(f, s) <= SumOf(f, X) + c * Cardinality(s \ X)
           B == {s \in SUBSET S : X \subseteq s /\ ~Bounded(s)}
<1>1. \A s \in SUBSET S : IsFiniteSet(s) /\ IsFiniteSet(s \ X) /\ Cardinality(s \ X) \in Nat
  BY FS_Subset, FS_CardinalityType
<1>2. \A s \in SUBSET S : SumOf(f, s) \in Nat
  BY <1>1, SumFacts
<1>3. ASSUME NEW s \in B, \A t \in B : t \subseteq s => t = s PROVE FALSE
  <2>1. s \in SUBSET S /\ X \subseteq s /\ ~Bounded(s)
    OBVIOUS
  <2> HIDE DEF B
  <2>2. s # X
    <3> SUFFICES ASSUME s = X PROVE FALSE
      OBVIOUS
    <3>1. Cardinality(s \ X) = 0
      BY FS_EmptySet
    <3>2. SumOf(f, s) = SumOf(f, X) + c * 0
      BY <1>2
    <3> QED
      BY <1>2, <2>1, <3>1, <3>2
  <2>3. PICK x : x \in s \ X
    BY <2>1, <2>2
  <2> DEFINE t == s \ {x}
  <2>4. t \in SUBSET S /\ X \subseteq t /\ t \subseteq s /\ t # s /\ t \ X = (s \ X) \ {x}
    BY <2>1, <2>3
  <2>5. Bounded(t)
    BY <1>3, <2>4 DEF B
  <2>6. SumOf(f, s) = f[x] + SumOf(f, t) /\ f[x] <= c /\ f[x] \in Nat
    BY <1>1, <2>1, <2>3, SumFacts
  <2>7. /\ Cardinality(t \ X) = Cardinality(s \ X) - 1
        /\ Cardinality(t \ X) \in Nat /\ Cardinality(s \ X) \in Nat
    <3>1. IsFiniteSet(s \ X) /\ Cardinality(s \ X) \in Nat /\ Cardinality(t \ X) \in Nat
      BY <1>1, <2>1, <2>4
    <3>2. Cardinality((s \ X) \ {x}) = Cardinality(s \ X) - 1
      BY <2>3, <3>1, FS_RemoveElement
    <3> QED
      BY <2>4, <3>1, <3>2
  <2> HIDE DEF t
  <2>8. c * Cardinality(s \ X) = c * Cardinality(t \ X) + c /\ c * Cardinality(t \ X) \in Nat
    <3> DEFINE n == Cardinality(t \ X)
    <3>1. n \in Nat /\ Cardinality(s \ X) = n + 1
      BY <2>7
    <3> HIDE DEF n
    <3>2. c * (n + 1) = c * n + c /\ c * n \in Nat
      BY <3>1
    <3> QED
      BY <3>1, <3>2 DEF n
  <2>9. SumOf(f, t) \in Nat /\ SumOf(f, X) \in Nat
    BY <1>2, <2>4
  <2> QED
    BY <2>1, <2>5, <2>6, <2>8, <2>9
<1>4. B = {}
  <2> HIDE DEF B
  <2> SUFFICES ASSUME B # {} PROVE FALSE
    OBVIOUS
  <2>1. B \in SUBSET SUBSET S
    BY DEF B
  <2> QED
    BY <1>3, <2>1, MinimalSubset
<1>5. Bounded(S)
  BY <1>4
<1> QED
  BY <1>5

LEMMA SumOfZeros ==
  ASSUME NEW S, IsFiniteSet(S), NEW f, \A x \in S : f[x] = 0
  PROVE  SumOf(f, S) = 0
<1>1. SumOf(f, S) <= SumOf(f, {}) + 0 * Cardinality(S \ {})
  <2>1. {} \in SUBSET S /\ (\A x \in S : f[x] \in Nat) /\ \A x \in S \ {} : f[x] <= 0
    OBVIOUS
  <2> QED
    BY <2>1, SumAtMost
<1>2. SumOf(f, {}) = 0 /\ SumOf(f, S) \in Nat /\ Cardinality(S \ {}) \in Nat
  BY FS_EmptySet, FS_CardinalityType, SumFacts
<1> QED
  BY <1>1, <1>2

LEMMA ProductIsNat == \A c, a \in Nat : c * a \in Nat
  OBVIOUS

LEMMA ProductGrows ==
  ASSUME NEW c \in Nat, NEW a \in Nat, NEW b \in Nat, b <= 2 * a
  PROVE  c * b \in Nat /\ c * (2 * a - 1) \in Int /\ c * b <= c * (2 * a - 1) + c
<1> DEFINE d == 2 * a - b
<1>1. d \in Nat /\ 2 * a = b + d
  OBVIOUS
<1>2. c * b \in Nat /\ c * d \in Nat
  BY <1>1, ProductIsNat
<1>3. c * (2 * a) = c * b + c * d /\ c * (2 * a - 1) = c * (2 * a) - c
  <2> HIDE DEF d
  <2>1. c * (b + d) = c * b + c * d
    BY <1>1
  <2>2. c * (2 * a - 1) = c * (2 * a) - c
    OBVIOUS
  <2> QED
    BY <1>1, <2>1, <2>2
<1> HIDE DEF d
<1>4. c * (2 * a) \in Int
  OBVIOUS
<1> QED
  BY <1>2, <1>3, <1>4

-----------------------------------------------------------------------------
(***************************************************************************)
(* The usage aggregates                                                    *)
(***************************************************************************)
UsageTypes ==
  /\ archive \in [Bucket -> Nat] /\ dailyFile \in [Bucket -> Nat] /\ billed \in [Bucket -> Nat]
  /\ watermark \in 0 .. LastDay /\ cursor \in 0 .. LastDay
  /\ rollupFile = [w \in Period |-> rollupFile[w]] /\ rolledUp \in [Period -> BOOLEAN]
  /\ aggregators \in
       [Aggregator -> [next : {"none", "count", "choose", "daily", "rebuilt", "mark"} \cup Period,
                       daily : [Bucket -> Nat], mark : 0 .. LastDay, stale : BOOLEAN]]

\* Whatever has read daily.json, counted or not, has no event twice.
WithinArchive(work) == \A b \in Bucket : work.daily[b] <= archive[b]

\* Behind the watermark that a call will set, daily.json has all events, or will
\* have them by the counts that the call writes.  A stale call may be short of
\* what another has written: then it is its own write that costs the bucket.
MarkIsGood(work) ==
  work.next = "mark" =>
    \A b \in Bucket : b[1] < work.mark /\ b \notin lacking => dailyFile[b] = archive[b]

CountIsGood(work) ==
  work.next = "daily" =>
    \A b \in Bucket : b[1] < work.mark /\ b \notin lacking =>
      work.daily[b] = archive[b] \/ (work.stale /\ dailyFile[b] = archive[b])

\* What nobody has overtaken takes nothing back.
TakesNothingBack(work) ==
  work.next \in {"daily", "rebuilt"} /\ ~work.stale =>
    \A b \in Bucket : b \notin lacking => dailyFile[b] <= work.daily[b]

ReadAsItIs(work) ==
  work.next \in {"count", "choose"} \cup Period /\ ~work.stale => work.daily = dailyFile

CallIsGood(work) ==
  /\ WithinArchive(work) /\ MarkIsGood(work) /\ CountIsGood(work) /\ TakesNothingBack(work)
  /\ ReadAsItIs(work)
CallsAreGood == \A p \in Aggregator : CallIsGood(aggregators[p])

\* No bucket after the cursor has been billed.
CursorIsAhead == \A b \in Bucket : b[1] > cursor => billed[b] = 0

UsageInv == UsageTypes /\ CallsAreGood /\ CursorIsAhead /\ AggregatesSafe

LEMMA MaxOfDays ==
  ASSUME NEW S \in SUBSET (0 .. LastDay), S # {}
  PROVE  Max(S) \in S /\ \A d \in S : d <= Max(S)
<1> DEFINE N == {LastDay - d : d \in S}
<1>1. LastDay \in Nat
  BY UsageAggregatesAssumption
<1>2. N \in SUBSET Nat /\ N # {}
  <2>1. \A d \in S : LastDay - d \in Nat
    BY <1>1
  <2> QED
    BY <2>1
<1>3. PICK n \in N : \A m \in N : n <= m
  BY <1>2, LeastExists
<1>4. PICK c \in S : n = LastDay - c
  OBVIOUS
<1>5. \A d \in S : LastDay - c <= LastDay - d
  BY <1>3, <1>4
<1>6. \A d \in S : d <= c
  BY <1>1, <1>5
<1> QED
  BY <1>6 DEF Max

\* The rollup of a daily.json without events.
LEMMA EmptyRollUp == ASSUME NEW w PROVE RollUp(w, Empty) = Empty
<1> SUFFICES ASSUME NEW b \in Bucket
             PROVE  MapThenSumSet(LAMBDA d : Empty[<<d, b[2]>>], {d \in Day : PeriodStart(w, d) = b[1]}) = 0
  BY DEF RollUp, Empty
<1> DEFINE T == {d \in Day : PeriodStart(w, d) = b[1]}
           f == [d \in T |-> 0]
<1>1. IsFiniteSet(T)
  <2>1. IsFiniteSet(Day)
    BY FS_Interval, UsageAggregatesAssumption DEF Day
  <2> QED
    BY <2>1, FS_Subset
<1>2. \A d \in T : Empty[<<d, b[2]>>] = 0
  BY DEF Empty, Bucket, Day
<1> HIDE DEF T
<1> DEFINE g == CHOOSE h : Adds(h, f, T)
<1>3. Adds(g, f, T)
  BY <1>1, AddsExists
<1> DEFINE P(h) == h = [s \in SUBSET T |-> IF s = {} THEN 0 ELSE Empty[<<Pick(s), b[2]>>] + h[s \ {Pick(s)}]]
<1>4. \A h : P(h) <=> Adds(h, f, T)
  BY <1>2, PickIn DEF Adds
<1> DEFINE m == CHOOSE h : P(h)
<1>5. P(m)
  <2> HIDE DEF P
  <2> QED
    BY <1>3, <1>4
<1>6. MapThenSumSet(LAMBDA d : Empty[<<d, b[2]>>], T) = m[T]
  BY DEF MapThenSumSet, MapThenFoldSet, Pick
<1>7. m[T] = 0
  <2>1. SumOf(f, T) = 0
    BY <1>1, SumOfZeros
  <2>2. g[T] = 0
    BY <2>1 DEF SumOf
  <2> HIDE DEF P, m, g, f
  <2>3. Adds(m, f, T)
    BY <1>4, <1>5
  <2> QED
    BY <1>1, <1>3, <2>2, <2>3, AddsAgree
<1> QED
  BY <1>6, <1>7 DEF T

LEMMA BucketFacts ==
  \A b \in Bucket : b[1] \in 1 .. LastDay /\ b[2] \in Key /\ b = <<b[1], b[2]>>
  BY DEF Bucket, Day

\* What the files and the calls at work are, for arithmetic.
LEMMA UsageFacts ==
  ASSUME UsageTypes
  PROVE  /\ LastDay \in Nat /\ watermark \in 0 .. LastDay /\ watermark \in Nat
         /\ \A p \in Aggregator :
              /\ aggregators[p].daily \in [Bucket -> Nat] /\ aggregators[p].mark \in 0 .. LastDay
              /\ aggregators[p].mark \in Nat /\ aggregators[p].stale \in BOOLEAN
              /\ \A b \in Bucket : aggregators[p].daily[b] \in Nat
         /\ \A b \in Bucket : archive[b] \in Nat /\ dailyFile[b] \in Nat /\ billed[b] \in Nat /\ b[1] \in Nat
  BY UsageAggregatesAssumption, BucketFacts DEF UsageTypes

LEMMA IdleFacts ==
  /\ Idle.next = "none" /\ Idle.daily = Empty /\ Idle.mark = 0 /\ Idle.stale = FALSE
  /\ Empty \in [Bucket -> Nat] /\ \A b \in Bucket : Empty[b] = 0
  BY DEF Idle, Doing, Empty

LEMMA UsageInitInv == UsageInit => UsageInv
<1> SUFFICES ASSUME UsageInit PROVE UsageInv
  OBVIOUS
<1>1. LastDay \in Nat \ {0}
  BY UsageAggregatesAssumption
<1>2. UsageTypes
  BY <1>1, IdleFacts DEF UsageInit, UsageTypes, Idle, Doing
<1>3. CallsAreGood
  BY IdleFacts DEF UsageInit, CallsAreGood, CallIsGood, WithinArchive, MarkIsGood, CountIsGood,
     TakesNothingBack, ReadAsItIs, Period
<1>4. CursorIsAhead /\ NothingOvercounted /\ NothingOverbilled
  BY IdleFacts DEF UsageInit, CursorIsAhead, NothingOvercounted, NothingOverbilled
<1>5. SettledDaysAreFull
  BY DEF UsageInit, SettledDaysAreFull
<1>6. RollupsReconcile
  <2>1. \A w \in Period : rollupFile[w] = RollUp(w, dailyFile)
    BY EmptyRollUp DEF UsageInit
  <2> QED
    BY <2>1 DEF RollupsReconcile, Mismatches
<1> QED
  BY <1>2, <1>3, <1>4, <1>5, <1>6 DEF UsageInv, AggregatesSafe

\* An event of a day behind a watermark, or behind one that a call will set, is late.
LEMMA ArchiveStep ==
  ASSUME UsageInv, NEW d \in Day, NEW k \in Key, Archive(d, k)
  PROVE  UsageInv'
<1>a. /\ archive' = [archive EXCEPT ![<<d, k>>] = @ + 1]
      /\ lacking' = IF BehindMark(d) THEN lacking \cup {<<d, k>>} ELSE lacking
      /\ dailyFile' = dailyFile /\ watermark' = watermark /\ rollupFile' = rollupFile
      /\ aggregators' = aggregators /\ cursor' = cursor /\ billed' = billed /\ rolledUp' = rolledUp
  BY DEF Archive
<1>0. UsageTypes /\ CallsAreGood /\ CursorIsAhead /\ NothingOvercounted /\ SettledDaysAreFull
      /\ RollupsReconcile /\ NothingOverbilled
  BY DEF UsageInv, AggregatesSafe
<1> DEFINE c == <<d, k>>
<1>1. c \in Bucket /\ c[1] = d
  BY DEF Bucket
<1>2. /\ archive' \in [Bucket -> Nat]
      /\ \A b \in Bucket : (b # c => archive'[b] = archive[b]) /\ archive[b] <= archive'[b]
  <2>1. archive \in [Bucket -> Nat] /\ archive' = [archive EXCEPT ![c] = @ + 1]
    BY <1>a, <1>0 DEF UsageTypes
  <2> HIDE DEF c
  <2> QED
    BY <1>1, <2>1
<1>3. UsageTypes'
  BY <1>a, <1>0, <1>2 DEF UsageTypes
<1>4. /\ lacking \subseteq lacking'
      /\ \A b \in Bucket : b[1] < watermark /\ b \notin lacking' => archive'[b] = archive[b]
      /\ \A p \in Aggregator, b \in Bucket :
           b[1] < aggregators[p].mark /\ b \notin lacking' => archive'[b] = archive[b]
  BY <1>a, <1>1, <1>2 DEF BehindMark
<1> HIDE DEF c
<1>5. CallsAreGood'
  <2> SUFFICES ASSUME NEW p \in Aggregator PROVE CallIsGood(aggregators[p])'
    BY DEF CallsAreGood
  <2>1. CallIsGood(aggregators[p]) /\ aggregators'[p] = aggregators[p]
    BY <1>a, <1>0 DEF CallsAreGood
  <2>2. WithinArchive(aggregators[p])'
    <3> SUFFICES ASSUME NEW b \in Bucket PROVE aggregators'[p].daily[b] <= archive'[b]
      BY DEF WithinArchive
    <3>1. aggregators[p].daily[b] \in Nat /\ archive[b] \in Nat /\ archive'[b] \in Nat
      BY <1>0, <1>2, UsageFacts
    <3> QED
      BY <1>2, <2>1, <3>1 DEF CallIsGood, WithinArchive
  <2>3. MarkIsGood(aggregators[p])' /\ CountIsGood(aggregators[p])'
    BY <1>a, <1>4, <2>1 DEF CallIsGood, MarkIsGood, CountIsGood
  <2>4. TakesNothingBack(aggregators[p])' /\ ReadAsItIs(aggregators[p])'
    BY <1>a, <1>4, <2>1 DEF CallIsGood, TakesNothingBack, ReadAsItIs
  <2> QED
    BY <2>2, <2>3, <2>4 DEF CallIsGood
<1>6. NothingOvercounted' /\ NothingOverbilled'
  <2> SUFFICES ASSUME NEW b \in Bucket PROVE dailyFile'[b] <= archive'[b] /\ billed'[b] <= archive'[b]
    BY DEF NothingOvercounted, NothingOverbilled
  <2>1. dailyFile[b] \in Nat /\ billed[b] \in Nat /\ archive[b] \in Nat /\ archive'[b] \in Nat
    BY <1>0, <1>2, UsageFacts
  <2> QED
    BY <1>a, <1>0, <1>2, <2>1 DEF NothingOvercounted, NothingOverbilled
<1>7. SettledDaysAreFull'
  BY <1>a, <1>0, <1>4 DEF SettledDaysAreFull
<1>8. CursorIsAhead' /\ RollupsReconcile'
  BY <1>a, <1>0 DEF CursorIsAhead, RollupsReconcile, Mismatches
<1> QED
  BY <1>3, <1>5, <1>6, <1>7, <1>8 DEF UsageInv, AggregatesSafe

\* A step of one call that leaves daily.json, the archive and the watermark alone
\* disturbs no other call.
LEMMA OneCallMoves ==
  ASSUME UsageInv, NEW p \in Aggregator, NEW work, lacking \subseteq lacking',
         aggregators' = [aggregators EXCEPT ![p] = work], UsageTypes', CallIsGood(aggregators[p])',
         archive' = archive, dailyFile' = dailyFile, watermark' = watermark,
         rollupFile' = rollupFile, cursor' = cursor, billed' = billed, rolledUp' = rolledUp
  PROVE  UsageInv'
<1>0. UsageTypes /\ CallsAreGood /\ CursorIsAhead /\ NothingOvercounted /\ SettledDaysAreFull
      /\ RollupsReconcile /\ NothingOverbilled
  BY DEF UsageInv, AggregatesSafe
<1>1. CallsAreGood'
  <2> SUFFICES ASSUME NEW q \in Aggregator, q # p PROVE CallIsGood(aggregators[q])'
    BY DEF CallsAreGood
  <2>1. CallIsGood(aggregators[q]) /\ aggregators'[q] = aggregators[q]
    BY <1>0 DEF CallsAreGood, UsageTypes
  <2> QED
    BY <2>1 DEF CallIsGood, WithinArchive, MarkIsGood, CountIsGood, TakesNothingBack, ReadAsItIs
<1>2. NothingOvercounted' /\ SettledDaysAreFull'
  BY <1>0 DEF NothingOvercounted, SettledDaysAreFull
<1>3. CursorIsAhead' /\ RollupsReconcile' /\ NothingOverbilled'
  BY <1>0 DEF CursorIsAhead, RollupsReconcile, NothingOverbilled, Mismatches
<1> QED
  BY <1>1, <1>2, <1>3 DEF UsageInv, AggregatesSafe

LEMMA ReadsDailyStep == ASSUME UsageInv, NEW p \in Aggregator, ReadsDaily(p) PROVE UsageInv'
<1>1. PICK next \in {"count", "choose", "weekly"}, counts \in DailyAsRead(p) :
        aggregators' = [aggregators EXCEPT ![p] = Doing(next, counts, 0, counts # dailyFile)]
  BY DEF ReadsDaily
<1>2. /\ archive' = archive /\ dailyFile' = dailyFile /\ watermark' = watermark
      /\ rollupFile' = rollupFile /\ cursor' = cursor /\ billed' = billed /\ lacking' = lacking
      /\ rolledUp' = rolledUp
  BY DEF ReadsDaily
<1>3. UsageTypes /\ NothingOvercounted
  BY DEF UsageInv, AggregatesSafe
<1>4. counts = dailyFile \/ counts = Empty
  BY DEF DailyAsRead
<1>5. counts \in [Bucket -> Nat] /\ \A b \in Bucket : counts[b] <= archive[b]
  BY <1>3, <1>4, IdleFacts, UsageFacts DEF UsageTypes, NothingOvercounted
<1> DEFINE work == Doing(next, counts, 0, counts # dailyFile)
<1>6. /\ work.next = next /\ work.daily = counts /\ work.mark = 0 /\ work.stale = (counts # dailyFile)
      /\ aggregators'[p] = work
  BY <1>1, <1>3 DEF Doing, UsageTypes
<1>7. UsageTypes'
  <2>1. work \in [next : {"none", "count", "choose", "daily", "rebuilt", "mark"} \cup Period,
                  daily : [Bucket -> Nat], mark : 0 .. LastDay, stale : BOOLEAN]
    BY <1>3, <1>5, UsageFacts DEF Doing, Period
  <2> HIDE DEF work
  <2> QED
    BY <1>1, <1>2, <1>3, <2>1 DEF UsageTypes, work
<1>8. CallIsGood(aggregators[p])'
  <2> HIDE DEF work
  <2> QED
    BY <1>2, <1>5, <1>6 DEF CallIsGood, WithinArchive, MarkIsGood, CountIsGood, TakesNothingBack, ReadAsItIs
<1> QED
  BY <1>1, <1>2, <1>7, <1>8, OneCallMoves

\* A counted bucket has what was archived for it; one of a day behind the
\* watermark, and one without an archived event, has what was read.
LEMMA CountingFacts ==
  ASSUME UsageInv, NEW p \in Aggregator, NEW chosen, NEW bad, NEW counts,
         counts = Recounted(aggregators[p].daily, chosen, bad)
  PROVE  /\ counts \in [Bucket -> Nat]
         /\ \A b \in Bucket :
              /\ counts[b] <= archive[b]
              /\ b \in chosen /\ b[1] \notin bad => counts[b] = archive[b]
              /\ b \notin chosen => counts[b] = aggregators[p].daily[b]
<1>1. UsageTypes /\ WithinArchive(aggregators[p])
  BY DEF UsageInv, CallsAreGood, CallIsGood
<1>2. ASSUME NEW b \in Bucket
      PROVE  /\ b \in chosen /\ b[1] \notin bad => counts[b] = archive[b]
             /\ b \in chosen /\ b[1] \in bad => counts[b] = 0
             /\ b \notin chosen => counts[b] = aggregators[p].daily[b]
  BY DEF Recounted
<1>3. ASSUME NEW b \in Bucket PROVE counts[b] \in Nat /\ counts[b] <= archive[b]
  <2>1. /\ archive[b] \in Nat /\ aggregators[p].daily[b] \in Nat /\ aggregators[p].daily[b] <= archive[b]
    BY <1>1, UsageFacts DEF WithinArchive
  <2> QED
    BY <1>2, <2>1
<1>4. counts \in [Bucket -> Nat]
  BY <1>3 DEF Recounted
<1> QED
  BY <1>2, <1>3, <1>4

LEMMA CountingStep ==
  ASSUME UsageInv, NEW p \in Aggregator, NEW next \in {"daily", "rebuilt"}, NEW mark \in 0 .. LastDay,
         NEW days, NEW keys, NEW bad, days \subseteq Day, Counting(p, next, mark, days \X keys, bad),
         aggregators[p].next \in {"count", "choose"},
         next = "daily" => \A b \in Bucket :
           b[1] < mark /\ b \notin days \X keys => archive[b] = 0 \/ b[1] < watermark
  PROVE  UsageInv'
<1> DEFINE chosen == days \X keys
           counts == Recounted(aggregators[p].daily, chosen, bad)
           work == Doing(next, counts, mark, aggregators[p].stale)
<1>1. /\ aggregators' = [aggregators EXCEPT ![p] = work]
      /\ lacking' = lacking \cup {b \in chosen : b[1] \in bad}
      /\ archive' = archive /\ dailyFile' = dailyFile /\ watermark' = watermark
      /\ rollupFile' = rollupFile /\ cursor' = cursor /\ billed' = billed /\ rolledUp' = rolledUp
  BY DEF Counting
<1>2. /\ counts \in [Bucket -> Nat]
      /\ \A b \in Bucket :
           /\ counts[b] <= archive[b]
           /\ b \in chosen /\ b \notin lacking' => counts[b] = archive[b]
           /\ b \notin chosen => counts[b] = aggregators[p].daily[b]
  <2>1. /\ counts \in [Bucket -> Nat]
        /\ \A b \in Bucket :
             /\ counts[b] <= archive[b]
             /\ b \in chosen /\ b[1] \notin bad => counts[b] = archive[b]
             /\ b \notin chosen => counts[b] = aggregators[p].daily[b]
    <3>1. counts = Recounted(aggregators[p].daily, chosen, bad)
      OBVIOUS
    <3> HIDE DEF counts, chosen
    <3>2. counts \in [Bucket -> Nat] /\ \A b \in Bucket : counts[b] <= archive[b]
      BY <3>1, CountingFacts
    <3>3. \A b \in Bucket : b \in chosen /\ b[1] \notin bad => counts[b] = archive[b]
      BY <3>1, CountingFacts
    <3>4. \A b \in Bucket : b \notin chosen => counts[b] = aggregators[p].daily[b]
      BY <3>1, CountingFacts
    <3> QED
      BY <3>2, <3>3, <3>4
  <2>2. \A b \in Bucket : b \in chosen /\ b \notin lacking' => b[1] \notin bad
    BY <1>1
  <2> HIDE DEF counts, chosen
  <2> QED
    BY <2>1, <2>2
<1>3. UsageTypes /\ CallIsGood(aggregators[p]) /\ SettledDaysAreFull /\ NothingOvercounted
  BY DEF UsageInv, CallsAreGood, AggregatesSafe
<1> HIDE DEF counts, chosen
<1>4. /\ work.next = next /\ work.daily = counts /\ work.mark = mark /\ work.stale = aggregators[p].stale
      /\ aggregators'[p] = work
  BY <1>1, <1>3 DEF Doing, UsageTypes
<1>5. UsageTypes'
  <2>1. work \in [next : {"none", "count", "choose", "daily", "rebuilt", "mark"} \cup Period,
                  daily : [Bucket -> Nat], mark : 0 .. LastDay, stale : BOOLEAN]
    BY <1>2, <1>3, UsageFacts DEF Doing
  <2> HIDE DEF work
  <2> QED
    BY <1>1, <1>3, <2>1 DEF UsageTypes
<1> HIDE DEF work
<1>6. ~aggregators[p].stale => aggregators[p].daily = dailyFile
  BY <1>3 DEF CallIsGood, ReadAsItIs
<1>7. ASSUME next = "daily", NEW b \in Bucket, b[1] < mark, b \notin lacking'
      PROVE  counts[b] = archive[b] \/ (aggregators[p].stale /\ dailyFile[b] = archive[b])
  <2>1. CASE b \in chosen
    BY <1>2, <1>7, <2>1
  <2>2. CASE b \notin chosen /\ archive[b] = 0
    <3>1. counts[b] \in Nat /\ counts[b] <= 0
      BY <1>2, <2>2
    <3> QED
      BY <2>2, <3>1
  <2>3. CASE b \notin chosen /\ archive[b] # 0
    <3>1. b[1] < watermark
      BY <1>7, <2>3 DEF chosen
    <3>2. dailyFile[b] = archive[b]
      BY <1>1, <1>3, <1>7, <3>1 DEF SettledDaysAreFull
    <3> QED
      BY <1>2, <1>3, <1>6, <2>3, <3>2, UsageFacts
  <2> QED
    BY <2>1, <2>2, <2>3
<1>8. ASSUME ~aggregators[p].stale, NEW b \in Bucket, b \notin lacking'
      PROVE  dailyFile[b] <= counts[b]
  <2>1. dailyFile[b] \in Nat /\ dailyFile[b] <= archive[b] /\ archive[b] \in Nat
    BY <1>3, UsageFacts DEF NothingOvercounted
  <2> QED
    BY <1>2, <1>6, <1>8, <2>1
<1>9. CallIsGood(aggregators[p])'
  <2>1. WithinArchive(aggregators[p])'
    BY <1>1, <1>2, <1>4 DEF WithinArchive
  <2>2. MarkIsGood(aggregators[p])' /\ ReadAsItIs(aggregators[p])'
    BY <1>4 DEF MarkIsGood, ReadAsItIs, Period
  <2>3. CountIsGood(aggregators[p])'
    BY <1>1, <1>4, <1>7 DEF CountIsGood
  <2>4. TakesNothingBack(aggregators[p])'
    BY <1>1, <1>4, <1>8 DEF TakesNothingBack
  <2> QED
    BY <2>1, <2>2, <2>3, <2>4 DEF CallIsGood
<1> QED
  BY <1>1, <1>5, <1>9, OneCallMoves

LEMMA CountsPendingStep == ASSUME UsageInv, NEW p \in Aggregator, CountsPending(p) PROVE UsageInv'
<1>1. PICK mark \in MarkAsRead(p) : \E bad \in Unreadable(PendingDays(mark)) :
        Counting(p, "daily", NewMark(mark, PendingDays(mark) \ bad), PendingDays(mark) \X Key, bad)
  BY DEF CountsPending
<1>2. PICK bad \in Unreadable(PendingDays(mark)) :
        Counting(p, "daily", NewMark(mark, PendingDays(mark) \ bad), PendingDays(mark) \X Key, bad)
  BY <1>1
<1>3. UsageTypes
  BY DEF UsageInv
<1>4. mark = watermark \/ mark = 0
  BY DEF MarkAsRead
<1> DEFINE days == PendingDays(mark)
           new == NewMark(mark, days \ bad)
<1>5. days \subseteq Day /\ days \subseteq 0 .. LastDay /\ LastDay \in Nat /\ mark \in 0 .. LastDay
  BY <1>3, <1>4, UsageFacts DEF PendingDays, Archived, Day
<1>6. new \in 0 .. LastDay
  <2>1. CASE days \ bad = {}
    BY <1>5, <2>1 DEF NewMark
  <2>2. CASE days \ bad # {}
    <3>1. days \ bad \in SUBSET (0 .. LastDay)
      BY <1>5
    <3>2. Max(days \ bad) \in days \ bad
      BY <2>2, <3>1, MaxOfDays
    <3> QED
      BY <2>2, <3>1, <3>2 DEF NewMark
  <2> QED
    BY <2>1, <2>2
<1>7. ASSUME NEW b \in Bucket, b \notin days \X Key PROVE archive[b] = 0 \/ b[1] < watermark
  <2>1. b[1] \in 1 .. LastDay /\ b[2] \in Key /\ b = <<b[1], b[2]>> /\ archive[b] \in Nat /\ watermark \in Nat
    BY <1>3, BucketFacts, UsageFacts
  <2>2. b[1] \notin days
    BY <1>7, <2>1
  <2>3. CASE b[1] \notin Archived
    BY <2>1, <2>3 DEF Archived, Day
  <2>4. CASE b[1] \in Archived /\ b[1] < mark
    BY <1>4, <1>5, <2>1, <2>4
  <2> QED
    BY <1>5, <2>1, <2>2, <2>3, <2>4 DEF PendingDays
<1> HIDE DEF days, new
<1>8. Counting(p, "daily", new, days \X Key, bad)
  BY <1>2 DEF days, new
<1>9. aggregators[p].next = "count"
  BY DEF CountsPending
<1> QED
  BY <1>5, <1>6, <1>7, <1>8, <1>9, CountingStep

LEMMA CountsChosenStep ==
  ASSUME UsageInv, NEW p \in Aggregator, NEW from, NEW to, NEW keys, CountsChosen(p, from, to, keys)
  PROVE  UsageInv'
<1> DEFINE days == Archived \cap from .. to
<1>1. PICK bad \in Unreadable(days) : Counting(p, "rebuilt", 0, days \X keys, bad)
  BY DEF CountsChosen
<1>2. days \subseteq Day /\ aggregators[p].next = "choose" /\ 0 \in 0 .. LastDay
  BY UsageAggregatesAssumption DEF Archived, CountsChosen
<1> HIDE DEF days
<1> QED
  BY <1>1, <1>2, CountingStep

\* A write of daily.json makes the other calls stale, and leaves every bucket of
\* a settled day full that was full, or excuses it.
LEMMA DailyIsWritten ==
  ASSUME UsageInv, NEW p \in Aggregator, NEW counts \in [Bucket -> Nat], NEW work,
         \/ work = Idle
         \/ /\ work = Doing("mark", Empty, aggregators[p].mark, FALSE)
            /\ aggregators[p].next = "daily" /\ counts = aggregators[p].daily,
         \A b \in Bucket : counts[b] <= archive[b],
         \A b \in Bucket : b \notin lacking' =>
           \/ counts[b] = archive[b]
           \/ b \notin lacking /\ (dailyFile[b] # archive[b] \/ ~BehindMark(b[1])'),
         dailyFile' = counts, aggregators' = Overtaken(p, work),
         rolledUp' = [w \in Period |-> rolledUp[w] /\ counts = dailyFile],
         archive' = archive, watermark' = watermark, rollupFile' = rollupFile,
         cursor' = cursor, billed' = billed
  PROVE  UsageInv'
<1>0. UsageTypes /\ CallsAreGood /\ CursorIsAhead /\ NothingOvercounted /\ SettledDaysAreFull
      /\ RollupsReconcile /\ NothingOverbilled
  BY DEF UsageInv, AggregatesSafe
<1>1. /\ aggregators'[p] = work /\ work.daily = Empty /\ work.next \in {"none", "mark"}
      /\ work \in [next : {"none", "count", "choose", "daily", "rebuilt", "mark"} \cup Period,
                   daily : [Bucket -> Nat], mark : 0 .. LastDay, stale : BOOLEAN]
  <2>1. aggregators'[p] = work
    BY DEF Overtaken
  <2>2. 0 \in 0 .. LastDay /\ aggregators[p].mark \in 0 .. LastDay /\ Empty \in [Bucket -> Nat]
    BY <1>0, IdleFacts, UsageFacts
  <2>3. CASE work = Idle
    BY <2>1, <2>2, <2>3 DEF Idle, Doing
  <2>4. CASE work = Doing("mark", Empty, aggregators[p].mark, FALSE)
    BY <2>1, <2>2, <2>4 DEF Doing
  <2> QED
    BY <2>3, <2>4
<1>2. ASSUME NEW q \in Aggregator, q # p
      PROVE  /\ aggregators'[q].next = aggregators[q].next /\ aggregators'[q].daily = aggregators[q].daily
             /\ aggregators'[q].mark = aggregators[q].mark
             /\ aggregators[q].next \notin {"none", "mark"} => aggregators'[q].stale = TRUE
             /\ aggregators'[q] \in
                  [next : {"none", "count", "choose", "daily", "rebuilt", "mark"} \cup Period,
                   daily : [Bucket -> Nat], mark : 0 .. LastDay, stale : BOOLEAN]
  BY <1>0, <1>2 DEF Overtaken, UsageTypes
<1>3. UsageTypes'
  <2>1. aggregators' \in
       [Aggregator -> [next : {"none", "count", "choose", "daily", "rebuilt", "mark"} \cup Period,
                       daily : [Bucket -> Nat], mark : 0 .. LastDay, stale : BOOLEAN]]
    BY <1>1, <1>2 DEF Overtaken
  <2> QED
    BY <1>0, <2>1 DEF UsageTypes
<1>4. ASSUME NEW b \in Bucket, b \notin lacking', BehindMark(b[1])', counts[b] # archive[b]
      PROVE  b \notin lacking /\ dailyFile[b] # archive[b]
  BY <1>4
<1>5. /\ \A b \in Bucket : b[1] < watermark => BehindMark(b[1])'
      /\ \A q \in Aggregator, b \in Bucket : b[1] < aggregators'[q].mark => BehindMark(b[1])'
  BY DEF BehindMark
<1>6. SettledDaysAreFull'
  BY <1>0, <1>4, <1>5 DEF SettledDaysAreFull
<1>7. CallIsGood(aggregators[p])'
  <2>1. WithinArchive(aggregators[p])'
    BY <1>0, <1>1, IdleFacts, UsageFacts DEF WithinArchive
  <2>2. CountIsGood(aggregators[p])' /\ TakesNothingBack(aggregators[p])' /\ ReadAsItIs(aggregators[p])'
    BY <1>1 DEF CountIsGood, TakesNothingBack, ReadAsItIs, Period
  <2>3. MarkIsGood(aggregators[p])'
    <3> SUFFICES ASSUME aggregators'[p].next = "mark", NEW b \in Bucket, b[1] < aggregators'[p].mark,
                        b \notin lacking', counts[b] # archive[b]
                 PROVE  FALSE
      BY DEF MarkIsGood
    <3>1. aggregators'[p].mark = aggregators[p].mark /\ aggregators[p].next = "daily"
          /\ counts = aggregators[p].daily
      BY <1>1, IdleFacts DEF Doing
    <3>2. b \notin lacking /\ dailyFile[b] # archive[b]
      BY <1>4, <1>5
    <3>3. CountIsGood(aggregators[p])
      BY <1>0 DEF CallsAreGood, CallIsGood
    <3> QED
      BY <3>1, <3>2, <3>3 DEF CountIsGood
  <2> QED
    BY <2>1, <2>2, <2>3 DEF CallIsGood
<1>8. ASSUME NEW q \in Aggregator, q # p PROVE CallIsGood(aggregators[q])'
  <2>1. CallIsGood(aggregators[q])
    BY <1>0 DEF CallsAreGood
  <2>2. WithinArchive(aggregators[q])'
    BY <1>2, <1>8, <2>1 DEF CallIsGood, WithinArchive
  <2>3. MarkIsGood(aggregators[q])'
    BY <1>2, <1>4, <1>5, <1>8, <2>1 DEF CallIsGood, MarkIsGood
  <2>4. CountIsGood(aggregators[q])'
    BY <1>2, <1>4, <1>5, <1>8, <2>1 DEF CallIsGood, CountIsGood
  <2>5. TakesNothingBack(aggregators[q])' /\ ReadAsItIs(aggregators[q])'
    BY <1>2, <1>8 DEF TakesNothingBack, ReadAsItIs, Period
  <2> QED
    BY <2>2, <2>3, <2>4, <2>5 DEF CallIsGood
<1>9. CallsAreGood'
  BY <1>7, <1>8 DEF CallsAreGood
<1>10. NothingOvercounted' /\ CursorIsAhead' /\ NothingOverbilled'
  BY <1>0 DEF NothingOvercounted, CursorIsAhead, NothingOverbilled
<1>11. RollupsReconcile'
  BY <1>0 DEF RollupsReconcile, Mismatches
<1> QED
  BY <1>3, <1>6, <1>9, <1>10, <1>11 DEF UsageInv, AggregatesSafe

LEMMA WritesDailyStep == ASSUME UsageInv, NEW p \in Aggregator, WritesDaily(p) PROVE UsageInv'
<1> DEFINE counts == aggregators[p].daily
           work == IF aggregators[p].next = "rebuilt" THEN Idle
                   ELSE Doing("mark", Empty, aggregators[p].mark, FALSE)
<1>1. /\ aggregators[p].next \in {"daily", "rebuilt"} /\ dailyFile' = counts
      /\ aggregators' = Overtaken(p, work)
      /\ lacking' = {b \in Bucket : /\ counts[b] # archive[b]
                                    /\ \/ b \in lacking
                                       \/ aggregators[p].stale /\ counts[b] < dailyFile[b]}
      /\ rolledUp' = [w \in Period |-> rolledUp[w] /\ counts = dailyFile]
      /\ archive' = archive /\ watermark' = watermark /\ rollupFile' = rollupFile
      /\ cursor' = cursor /\ billed' = billed
  BY DEF WritesDaily, WritesTheDaily
<1>2. UsageTypes /\ CallIsGood(aggregators[p])
  BY DEF UsageInv, CallsAreGood
<1>3. counts \in [Bucket -> Nat] /\ \A b \in Bucket : counts[b] <= archive[b]
  BY <1>2, UsageFacts DEF CallIsGood, WithinArchive
<1>4. \/ work = Idle
      \/ work = Doing("mark", Empty, aggregators[p].mark, FALSE) /\ aggregators[p].next = "daily"
  BY <1>1
<1>5. ASSUME NEW b \in Bucket, b \notin lacking', counts[b] # archive[b]
      PROVE  b \notin lacking /\ dailyFile[b] # archive[b]
  <2>1. counts[b] \in Nat /\ archive[b] \in Nat /\ dailyFile[b] \in Nat /\ counts[b] < archive[b]
    <3>1. counts[b] \in Nat /\ archive[b] \in Nat /\ dailyFile[b] \in Nat
      BY <1>2, UsageFacts
    <3> HIDE DEF counts
    <3> QED
      BY <1>3, <1>5, <3>1
  <2>2. b \notin lacking /\ (aggregators[p].stale => ~(counts[b] < dailyFile[b]))
    BY <1>1, <1>5
  <2>3. ~aggregators[p].stale => dailyFile[b] <= counts[b]
    BY <1>1, <1>2, <2>2 DEF CallIsGood, TakesNothingBack
  <2> HIDE DEF counts
  <2> QED
    BY <2>1, <2>2, <2>3
<1> HIDE DEF work
<1>6. \A b \in Bucket : b \notin lacking' =>
           \/ counts[b] = archive[b]
           \/ b \notin lacking /\ (dailyFile[b] # archive[b] \/ ~BehindMark(b[1])')
  BY <1>5
<1> QED
  BY <1>1, <1>3, <1>4, <1>6, DailyIsWritten

LEMMA WritesMarkStep == ASSUME UsageInv, NEW p \in Aggregator, WritesMark(p) PROVE UsageInv'
<1> USE DEF WritesMark
<1>0. UsageTypes /\ CallsAreGood /\ CursorIsAhead /\ NothingOvercounted /\ SettledDaysAreFull
      /\ RollupsReconcile /\ NothingOverbilled
  BY DEF UsageInv, AggregatesSafe
<1>1. UsageTypes' /\ aggregators'[p] = Idle /\ \A q \in Aggregator : q # p => aggregators'[q] = aggregators[q]
  BY <1>0, IdleFacts, UsageFacts DEF UsageTypes, Idle, Doing
<1>2. CallsAreGood'
  <2> SUFFICES ASSUME NEW q \in Aggregator PROVE CallIsGood(aggregators[q])'
    BY DEF CallsAreGood
  <2>1. CASE q = p
    BY <1>0, <1>1, <2>1, IdleFacts, UsageFacts DEF CallIsGood, WithinArchive, MarkIsGood, CountIsGood,
       TakesNothingBack, ReadAsItIs, Period
  <2>2. CASE q # p
    <3>1. CallIsGood(aggregators[q]) /\ aggregators'[q] = aggregators[q]
      BY <1>0, <1>1, <2>2 DEF CallsAreGood
    <3> QED
      BY <3>1 DEF CallIsGood, WithinArchive, MarkIsGood, CountIsGood, TakesNothingBack, ReadAsItIs
  <2> QED
    BY <2>1, <2>2
<1>3. SettledDaysAreFull'
  BY <1>0 DEF CallsAreGood, CallIsGood, MarkIsGood, SettledDaysAreFull
<1>4. CursorIsAhead' /\ NothingOverbilled' /\ NothingOvercounted' /\ RollupsReconcile'
  BY <1>0 DEF CursorIsAhead, NothingOverbilled, NothingOvercounted, RollupsReconcile, Mismatches
<1> QED
  BY <1>1, <1>2, <1>3, <1>4 DEF UsageInv, AggregatesSafe

\* A rollup is of daily.json as it is, unless the call is stale.
LEMMA RollupIsWritten ==
  ASSUME UsageInv, NEW p \in Aggregator, NEW w \in Period, NEW counts, NEW work, NEW ok \in BOOLEAN,
         rollupFile' = [rollupFile EXCEPT ![w] = counts], ok => counts = RollUp(w, dailyFile),
         rolledUp' = [rolledUp EXCEPT ![w] = ok], aggregators' = [aggregators EXCEPT ![p] = work],
         work = Idle \/ (work = [aggregators[p] EXCEPT !.next = "monthly"] /\ aggregators[p].next = w),
         archive' = archive, dailyFile' = dailyFile, watermark' = watermark, cursor' = cursor,
         billed' = billed, lacking' = lacking
  PROVE  UsageInv'
<1>0. UsageTypes /\ CallsAreGood /\ CursorIsAhead /\ NothingOvercounted /\ SettledDaysAreFull
      /\ RollupsReconcile /\ NothingOverbilled
  BY DEF UsageInv, AggregatesSafe
<1>1. /\ rollupFile' = [v \in Period |-> rollupFile'[v]] /\ rollupFile'[w] = counts
      /\ \A v \in Period : v # w => rollupFile'[v] = rollupFile[v] /\ rolledUp'[v] = rolledUp[v]
      /\ rolledUp'[w] = ok /\ rolledUp' \in [Period -> BOOLEAN]
  BY <1>0 DEF UsageTypes
<1>2. work \in [next : {"none", "count", "choose", "daily", "rebuilt", "mark"} \cup Period,
                daily : [Bucket -> Nat], mark : 0 .. LastDay, stale : BOOLEAN]
  <2>1. CASE work = Idle
    BY <1>0, <2>1, IdleFacts, UsageFacts DEF Idle, Doing
  <2>2. CASE work = [aggregators[p] EXCEPT !.next = "monthly"]
    BY <1>0, <2>2 DEF UsageTypes, Period
  <2> QED
    BY <2>1, <2>2
<1>3. UsageTypes'
  BY <1>0, <1>1, <1>2 DEF UsageTypes
<1>4. aggregators'[p] = work /\ \A q \in Aggregator : q # p => aggregators'[q] = aggregators[q]
  BY <1>0 DEF UsageTypes
<1>5. CallsAreGood'
  <2> SUFFICES ASSUME NEW q \in Aggregator PROVE CallIsGood(aggregators[q])'
    BY DEF CallsAreGood
  <2>1. CASE q = p /\ work = Idle
    BY <1>0, <1>4, <2>1, IdleFacts, UsageFacts DEF CallIsGood, WithinArchive, MarkIsGood, CountIsGood,
       TakesNothingBack, ReadAsItIs, Period
  <2>2. CASE q = p /\ work # Idle
    <3>1. /\ work.next = "monthly" /\ work.daily = aggregators[p].daily /\ work.stale = aggregators[p].stale
          /\ aggregators[p].next \in Period
      BY <1>0, <2>2 DEF UsageTypes
    <3>2. CallIsGood(aggregators[p])
      BY <1>0 DEF CallsAreGood
    <3> QED
      BY <1>4, <2>2, <3>1, <3>2 DEF CallIsGood, WithinArchive, MarkIsGood, CountIsGood,
         TakesNothingBack, ReadAsItIs, Period
  <2>3. CASE q # p
    <3>1. CallIsGood(aggregators[q]) /\ aggregators'[q] = aggregators[q]
      BY <1>0, <1>4, <2>3 DEF CallsAreGood
    <3> QED
      BY <3>1 DEF CallIsGood, WithinArchive, MarkIsGood, CountIsGood, TakesNothingBack, ReadAsItIs
  <2> QED
    BY <2>1, <2>2, <2>3
<1>6. RollupsReconcile'
  <2> SUFFICES ASSUME NEW v \in Period, rolledUp'[v] PROVE Mismatches(v)' = {}
    BY DEF RollupsReconcile
  <2>1. CASE v = w
    BY <1>1, <2>1 DEF Mismatches
  <2>2. CASE v # w
    BY <1>0, <1>1, <2>2 DEF RollupsReconcile, Mismatches
  <2> QED
    BY <2>1, <2>2
<1>7. CursorIsAhead' /\ NothingOverbilled' /\ NothingOvercounted' /\ SettledDaysAreFull'
  BY <1>0 DEF CursorIsAhead, NothingOverbilled, NothingOvercounted, SettledDaysAreFull
<1> QED
  BY <1>3, <1>5, <1>6, <1>7 DEF UsageInv, AggregatesSafe

LEMMA WritesRollupStep ==
  ASSUME UsageInv, NEW p \in Aggregator, NEW w \in Period, WritesRollup(p, w)
  PROVE  UsageInv'
<1> DEFINE work == IF w = "weekly" THEN [aggregators[p] EXCEPT !.next = "monthly"] ELSE Idle
<1>1. /\ aggregators[p].next = w
      /\ rollupFile' = [rollupFile EXCEPT ![w] = RollUp(w, aggregators[p].daily)]
      /\ aggregators' = [aggregators EXCEPT ![p] = work]
      /\ rolledUp' = [rolledUp EXCEPT ![w] = ~aggregators[p].stale]
      /\ archive' = archive /\ dailyFile' = dailyFile /\ watermark' = watermark
      /\ cursor' = cursor /\ billed' = billed /\ lacking' = lacking
  BY DEF WritesRollup
<1>2. UsageTypes /\ ReadAsItIs(aggregators[p])
  BY DEF UsageInv, CallsAreGood, CallIsGood
<1>3. (~aggregators[p].stale) \in BOOLEAN
  OBVIOUS
<1>4. ~aggregators[p].stale => RollUp(w, aggregators[p].daily) = RollUp(w, dailyFile)
  BY <1>1, <1>2 DEF ReadAsItIs
<1>5. work = Idle \/ work = [aggregators[p] EXCEPT !.next = "monthly"]
  OBVIOUS
<1> HIDE DEF work
<1> QED
  BY <1>1, <1>3, <1>4, <1>5, RollupIsWritten

LEMMA AggregatorDiesStep == ASSUME UsageInv, NEW p \in Aggregator, AggregatorDies(p) PROVE UsageInv'
<1>0. UsageTypes /\ NothingOvercounted
  BY DEF UsageInv, AggregatesSafe
<1>1. archive' = archive /\ cursor' = cursor /\ billed' = billed
  BY DEF AggregatorDies
<1>2. CASE \/ /\ aggregators' = [aggregators EXCEPT ![p] = Idle]
              /\ UNCHANGED <<dailyFile, watermark, rollupFile, lacking, rolledUp>>
           \/ /\ watermark' = 0
              /\ aggregators' = [aggregators EXCEPT ![p] = Idle]
              /\ UNCHANGED <<dailyFile, rollupFile, lacking, rolledUp>>
  <2>1. UsageTypes' /\ aggregators'[p] = Idle /\ \A q \in Aggregator : q # p => aggregators'[q] = aggregators[q]
    <3>1. Idle \in [next : {"none", "count", "choose", "daily", "rebuilt", "mark"} \cup Period,
                    daily : [Bucket -> Nat], mark : 0 .. LastDay, stale : BOOLEAN]
      BY <1>0, IdleFacts, UsageFacts DEF Idle, Doing
    <3>2. watermark' \in 0 .. LastDay
      BY <1>0, <1>2, UsageFacts
    <3> QED
      BY <1>0, <1>1, <1>2, <3>1, <3>2 DEF UsageTypes
  <2>2. CallsAreGood'
    <3> SUFFICES ASSUME NEW q \in Aggregator PROVE CallIsGood(aggregators[q])'
      BY DEF CallsAreGood
    <3>1. CASE q = p
      BY <1>0, <1>1, <2>1, <3>1, IdleFacts, UsageFacts DEF CallIsGood, WithinArchive, MarkIsGood, CountIsGood,
         TakesNothingBack, ReadAsItIs, Period
    <3>2. CASE q # p
      <4>1. CallIsGood(aggregators[q]) /\ aggregators'[q] = aggregators[q]
        BY <2>1, <3>2 DEF CallsAreGood, UsageInv
      <4> QED
        BY <1>1, <1>2, <4>1 DEF CallIsGood, WithinArchive, MarkIsGood, CountIsGood, TakesNothingBack, ReadAsItIs
    <3> QED
      BY <3>1, <3>2
  <2>3. SettledDaysAreFull'
    <3>1. \A b \in Bucket : b[1] < watermark' => b[1] < watermark
      BY <1>0, <1>2, UsageFacts
    <3> QED
      BY <1>1, <1>2, <3>1 DEF UsageInv, AggregatesSafe, SettledDaysAreFull
  <2>4. CursorIsAhead' /\ NothingOvercounted' /\ RollupsReconcile' /\ NothingOverbilled'
    BY <1>1, <1>2 DEF UsageInv, AggregatesSafe, CursorIsAhead, NothingOvercounted, RollupsReconcile,
       Mismatches, NothingOverbilled
  <2> QED
    BY <2>1, <2>2, <2>3, <2>4 DEF UsageInv, AggregatesSafe
<1>3. CASE /\ WritesTheDaily(p)
           /\ dailyFile' = Empty
           /\ aggregators' = Overtaken(p, Idle)
           /\ UNCHANGED <<watermark, rollupFile>>
           /\ lacking' = {b \in Bucket : archive[b] # 0 /\ (b \in lacking \/ BehindMark(b[1])')}
           /\ rolledUp' = [w \in Period |-> rolledUp[w] /\ dailyFile = Empty]
  <2>1. /\ Empty \in [Bucket -> Nat] /\ \A b \in Bucket : Empty[b] <= archive[b]
        /\ rolledUp' = [w \in Period |-> rolledUp[w] /\ Empty = dailyFile]
    BY <1>0, <1>3, IdleFacts, UsageFacts
  <2>2. \A b \in Bucket : b \notin lacking' =>
           \/ Empty[b] = archive[b]
           \/ b \notin lacking /\ (dailyFile[b] # archive[b] \/ ~BehindMark(b[1])')
    BY <1>3, IdleFacts
  <2> QED
    BY <1>1, <1>3, <2>1, <2>2, DailyIsWritten
<1>4. ASSUME NEW w \in Period, rollupFile' = [rollupFile EXCEPT ![w] = Empty],
             aggregators' = [aggregators EXCEPT ![p] = Idle],
             rolledUp' = [rolledUp EXCEPT ![w] = FALSE],
             UNCHANGED <<dailyFile, watermark, lacking>>
      PROVE  UsageInv'
  BY <1>1, <1>4, RollupIsWritten
<1> QED
  BY <1>2, <1>3, <1>4 DEF AggregatorDies

\* What is fetched has not been billed, and the cursor goes past it.
LEMMA FetchIncrementalStep ==
  ASSUME UsageInv, NEW limit, FetchIncremental(limit)
  PROVE  UsageInv'
<1> DEFINE buckets == Delivered(limit)
           fetched == {b[1] : b \in buckets}
<1>0. UsageTypes /\ CallsAreGood /\ CursorIsAhead /\ NothingOvercounted /\ SettledDaysAreFull
      /\ RollupsReconcile /\ NothingOverbilled
  BY DEF UsageInv, AggregatesSafe
<1>1. /\ billed' = [b \in Bucket |-> IF b \in buckets /\ billed[b] + dailyFile[b] <= MaxEvents
                                     THEN billed[b] + dailyFile[b]
                                     ELSE IF b \in buckets THEN MaxEvents ELSE billed[b]]
      /\ cursor' = IF buckets = {} THEN cursor ELSE Max(fetched)
      /\ archive' = archive /\ dailyFile' = dailyFile /\ watermark' = watermark
      /\ rollupFile' = rollupFile /\ aggregators' = aggregators /\ lacking' = lacking
      /\ rolledUp' = rolledUp
  BY DEF FetchIncremental
<1>2. \A b \in buckets : b \in Bucket /\ b[1] > cursor
  BY DEF Delivered, FirstBuckets, Present
<1> HIDE DEF buckets
<1>3. cursor \in 0 .. LastDay /\ LastDay \in Nat /\ MaxEvents \in Nat
  BY <1>0, UsageAggregatesAssumption DEF UsageTypes
<1>4. fetched \in SUBSET (0 .. LastDay)
  BY <1>2, BucketFacts
<1>5. cursor' \in 0 .. LastDay /\ cursor <= cursor' /\ \A b \in buckets : b[1] <= cursor'
  <2>1. CASE buckets = {}
    BY <1>1, <1>3, <2>1
  <2>2. CASE buckets # {}
    <3>1. fetched # {}
      BY <2>2
    <3>2. Max(fetched) \in fetched /\ \A d \in fetched : d <= Max(fetched)
      BY <1>4, <3>1, MaxOfDays
    <3>3. cursor' = Max(fetched)
      BY <1>1, <2>2
    <3>4. PICK c \in buckets : cursor' = c[1]
      BY <3>2, <3>3
    <3>5. cursor' \in 0 .. LastDay
      BY <1>4, <3>2, <3>3
    <3>6. cursor < cursor'
      BY <1>2, <3>4
    <3>7. \A b \in buckets : b[1] <= cursor'
      BY <3>2, <3>3
    <3> QED
      BY <1>3, <3>5, <3>6, <3>7
  <2> QED
    BY <2>1, <2>2
<1>6. ASSUME NEW b \in Bucket
      PROVE  /\ billed'[b] \in Nat /\ billed'[b] <= archive[b]
             /\ b \notin buckets => billed'[b] = billed[b]
  <2>1. /\ billed[b] \in Nat /\ dailyFile[b] \in Nat /\ archive[b] \in Nat /\ b[1] \in Nat
        /\ dailyFile[b] <= archive[b] /\ billed[b] <= archive[b]
    BY <1>0, UsageFacts DEF NothingOvercounted, NothingOverbilled
  <2>2. CASE b \notin buckets
    BY <1>1, <2>1, <2>2
  <2>3. CASE b \in buckets
    <3>1. billed[b] = 0
      BY <1>0, <1>2, <2>3 DEF CursorIsAhead
    <3>2. billed'[b] = IF dailyFile[b] <= MaxEvents THEN dailyFile[b] ELSE MaxEvents
      BY <1>1, <2>1, <2>3, <3>1
    <3> QED
      BY <1>3, <2>1, <2>3, <3>2
  <2> QED
    BY <2>2, <2>3
<1>7. UsageTypes'
  <2>1. billed' \in [Bucket -> Nat]
    BY <1>1, <1>6
  <2> QED
    BY <1>0, <1>1, <1>5, <2>1 DEF UsageTypes
<1>8. CursorIsAhead'
  <2> SUFFICES ASSUME NEW b \in Bucket, b[1] > cursor' PROVE billed'[b] = 0
    BY DEF CursorIsAhead
  <2>1. b[1] \in Nat
    BY <1>0, UsageFacts
  <2>2. b \notin buckets /\ b[1] > cursor
    BY <1>3, <1>5, <2>1
  <2> QED
    BY <1>0, <1>6, <2>2 DEF CursorIsAhead
<1>9. NothingOverbilled'
  BY <1>1, <1>6 DEF NothingOverbilled
<1>10. CallsAreGood'
  BY <1>0, <1>1 DEF CallsAreGood, CallIsGood, WithinArchive, MarkIsGood, CountIsGood, TakesNothingBack,
     ReadAsItIs
<1>11. NothingOvercounted' /\ SettledDaysAreFull' /\ RollupsReconcile'
  BY <1>0, <1>1 DEF NothingOvercounted, SettledDaysAreFull, RollupsReconcile, Mismatches
<1> QED
  BY <1>7, <1>8, <1>9, <1>10, <1>11 DEF UsageInv, AggregatesSafe

\* Aggregation counts no event twice; it leaves no settled day short but of late
\* events, and of what a fault or a call that others had overtaken has cost; the
\* rollups add up what daily.json has; and the billing service is given each
\* bucket once.  All this with any number of calls at work at once.
THEOREM AggregatesAreSafe == UsageSpec => []AggregatesSafe
<1>1. UsageInit => UsageInv
  BY UsageInitInv
<1>2. UsageInv /\ [UsageNext]_usageVars => UsageInv'
  <2> SUFFICES ASSUME UsageInv, [UsageNext]_usageVars PROVE UsageInv'
    OBVIOUS
  <2>1. ASSUME NEW d \in Day, NEW k \in Key, Archive(d, k) PROVE UsageInv'
    BY <2>1, ArchiveStep
  <2>2. ASSUME NEW p \in Aggregator,
               ReadsDaily(p) \/ CountsPending(p) \/ WritesDaily(p) \/ WritesMark(p) \/ AggregatorDies(p)
        PROVE  UsageInv'
    BY <2>2, ReadsDailyStep, CountsPendingStep, WritesDailyStep, WritesMarkStep, AggregatorDiesStep
  <2>3. ASSUME NEW p \in Aggregator, NEW w \in Period, WritesRollup(p, w) PROVE UsageInv'
    BY <2>3, WritesRollupStep
  <2>4. ASSUME NEW p \in Aggregator, NEW from, NEW to, NEW keys, CountsChosen(p, from, to, keys)
        PROVE  UsageInv'
    BY <2>4, CountsChosenStep
  <2>5. ASSUME NEW limit, FetchIncremental(limit) PROVE UsageInv'
    BY <2>5, FetchIncrementalStep
  <2>6. CASE UNCHANGED usageVars
    BY <2>6 DEF usageVars, UsageInv, UsageTypes, CallsAreGood, CallIsGood, WithinArchive, MarkIsGood,
       CountIsGood, TakesNothingBack, ReadAsItIs, CursorIsAhead, AggregatesSafe, NothingOvercounted,
       SettledDaysAreFull, RollupsReconcile, Mismatches, NothingOverbilled
  <2> QED
    BY <2>1, <2>2, <2>3, <2>4, <2>5, <2>6 DEF UsageNext
<1>3. UsageInv => AggregatesSafe
  BY DEF UsageInv
<1> QED
  BY <1>1, <1>2, <1>3, PTL DEF UsageSpec

-----------------------------------------------------------------------------
(***************************************************************************)
(* The cron scheduler                                                      *)
(***************************************************************************)
CronObjects == [kind : {"interval", "once", "cron"}, max : Nat, skip : BOOLEAN, end : Nat,
                status : {"absent", "active", "paused", "expired"}, next : 0 .. Beyond, count : Nat]

CronTypes ==
  /\ clock \in 0 .. MaxTime /\ cronOn \in BOOLEAN
  /\ object \in [Schedule -> CronObjects]
  /\ listed \in SUBSET Schedule /\ disturbed \in SUBSET Schedule
  /\ mapped \in [Schedule -> Moment] /\ stray \in [Schedule -> [Moment -> Nat]]
  /\ chainRuns \in [Schedule -> Nat] /\ freeRuns \in [Schedule -> Nat] /\ manual \in [Schedule -> Nat]

\* An active schedule has the timer in the map or an execution that will arm it;
\* one whose timer was not touched while it ran has not both, and no stray timers.
Kept(s) ==
  /\ object[s].status = "absent" => s \notin listed /\ chainRuns[s] = 0
  /\ s \in listed /\ cronOn /\ Active(s) => mapped[s] # Never \/ chainRuns[s] > 0
  /\ s \notin disturbed =>
       /\ \A t \in Moment : stray[s][t] = 0
       /\ chainRuns[s] <= 1 /\ (chainRuns[s] > 0 => s \in listed)
       /\ mapped[s] # Never => cronOn /\ s \in listed /\ Active(s) /\ chainRuns[s] = 0
  /\ object[s].count - manual[s] <= object[s].max
  /\ object[s].skip => chainRuns[s] <= 1

CronInv == CronTypes /\ (\A s \in Schedule : Kept(s)) /\ SumOf(chainRuns, Schedule) <= MaxConcurrent

\* The ranges of the constants, one by one.
LEMMA CronConstants ==
  /\ IsFiniteSet(Schedule) /\ Interval \in Nat \ {0} /\ MaxConcurrent \in Nat \ {0}
  /\ CronTicks \subseteq 0 .. MaxTime /\ EndDate \in Nat /\ MaxTime \in Nat /\ MaxCalls \in Nat
  BY CronScheduleAssumption

\* Every time that a timer may be armed for is a moment before Never.
LEMMA Moments ==
  /\ Beyond \in Nat /\ Never \in Nat /\ Never \in Moment /\ Never \notin 0 .. Beyond
  /\ 0 .. Beyond \subseteq Moment /\ Moment \subseteq Nat /\ IsFiniteSet(Moment)
  /\ \A t \in 0 .. MaxTime : /\ t \in Nat /\ t \in 0 .. Beyond /\ t + 1 \in 0 .. Beyond
                             /\ t + Interval \in 0 .. Beyond /\ ~(Never <= t)
<1>1. Beyond \in Nat /\ Never = Beyond + 1 /\ Beyond = MaxTime + Interval + 1
  BY CronConstants DEF Beyond, Never
<1>2. IsFiniteSet(Moment)
  BY <1>1, FS_Interval DEF Moment
<1>3. \A t \in 0 .. MaxTime : /\ t \in Nat /\ t \in 0 .. Beyond /\ t + 1 \in 0 .. Beyond
                              /\ t + Interval \in 0 .. Beyond /\ ~(Never <= t)
  BY <1>1, CronConstants
<1> QED
  BY <1>1, <1>2, <1>3 DEF Moment

\* The times that a schedule may get are such moments.
LEMMA TimesFacts ==
  ASSUME CronTypes
  PROVE  /\ clock \in 0 .. MaxTime /\ NextMatch \in 0 .. Beyond
         /\ \A o \in CronObjects : TaskStarts(o) \in 0 .. Beyond
<1>1. clock \in 0 .. MaxTime
  BY DEF CronTypes
<1>2. NextMatch \in 0 .. Beyond
  <2> DEFINE ticks == {t \in CronTicks : t > clock} \cup {Beyond}
  <2>1. ticks \in SUBSET (0 .. Beyond) /\ ticks # {}
    <3>1. \A t \in CronTicks : t \in 0 .. Beyond
      BY Moments, CronConstants
    <3>2. Beyond \in 0 .. Beyond
      BY Moments
    <3> QED
      BY <3>1, <3>2
  <2>2. Min(ticks) \in ticks
    <3>1. ticks \in SUBSET Nat
      BY <2>1
    <3> HIDE DEF ticks
    <3> QED
      BY <2>1, <3>1, LeastExists DEF Min
  <2> HIDE DEF ticks
  <2>3. NextMatch = Min(ticks)
    BY DEF NextMatch, ticks
  <2> QED
    BY <2>1, <2>2, <2>3
<1>3. ASSUME NEW o \in CronObjects PROVE TaskStarts(o) \in 0 .. Beyond
  <2>1. o.next \in 0 .. Beyond
    BY DEF CronObjects
  <2> QED
    BY <1>1, <1>2, <2>1, Moments DEF TaskStarts, Later
<1> QED
  BY <1>1, <1>2, <1>3

\* What an execution makes of its schedule.
LEMMA RanFacts ==
  ASSUME CronTypes, NEW o \in CronObjects
  PROVE  /\ Ran(o) \in CronObjects
         /\ Ran(o).kind = o.kind /\ Ran(o).max = o.max /\ Ran(o).skip = o.skip
         /\ Ran(o).count = o.count + 1
         /\ Expired(Ran(o)) => Ran(o).status = "expired"
         /\ ~Expired(Ran(o)) => Ran(o).status = o.status
<1> DEFINE n == NextRun(o.kind, o.next)
           new == [o EXCEPT !.count = @ + 1, !.next = n]
<1>1. n \in 0 .. Beyond
  <2>1. o.next \in 0 .. Beyond /\ o.kind \in {"interval", "once", "cron"}
    BY DEF CronObjects
  <2>2. clock + Interval \in 0 .. Beyond /\ NextMatch \in 0 .. Beyond
    BY TimesFacts, Moments
  <2> QED
    BY <2>1, <2>2 DEF NextRun
<1> HIDE DEF n
<1>2. /\ new \in CronObjects /\ new.kind = o.kind /\ new.max = o.max /\ new.skip = o.skip
      /\ new.count = o.count + 1 /\ new.status = o.status
  <2>1. o.count + 1 \in Nat
    BY DEF CronObjects
  <2> DEFINE k == o.count + 1
  <2> HIDE DEF k
  <2>2. [o EXCEPT !.count = k, !.next = n] \in CronObjects
    BY <1>1, <2>1 DEF CronObjects, k
  <2>3. new = [o EXCEPT !.count = k, !.next = n]
    BY DEF k
  <2> QED
    BY <2>2, <2>3 DEF CronObjects, k
<1>3. Ran(o) = IF Expired(new) THEN [new EXCEPT !.status = "expired"] ELSE new
  BY DEF Ran, n
<1> HIDE DEF new
<1>4. CASE Expired(new)
  <2>1. Ran(o) = [new EXCEPT !.status = "expired"]
    BY <1>3, <1>4
  <2>2. /\ Ran(o) \in CronObjects /\ Ran(o).status = "expired" /\ Ran(o).kind = new.kind
        /\ Ran(o).max = new.max /\ Ran(o).skip = new.skip /\ Ran(o).count = new.count
        /\ Ran(o).end = new.end
    BY <1>2, <2>1 DEF CronObjects
  <2>3. Expired(Ran(o))
    BY <1>4, <2>2 DEF Expired
  <2> QED
    BY <1>2, <2>2, <2>3
<1>5. CASE ~Expired(new)
  <2>1. Ran(o) = new
    BY <1>3, <1>5
  <2> QED
    BY <1>2, <1>5, <2>1
<1> QED
  BY <1>4, <1>5

\* The three sums of the module are sums of functions.
LEMMA StrayIsSum ==
  ASSUME NEW s \in Schedule
  PROVE  MapThenSumSet(LAMBDA t : stray[s][t], Moment) = SumOf(stray[s], Moment)
<1> DEFINE f == stray[s]
           P(h) == h = [u \in SUBSET Moment |-> IF u = {} THEN 0 ELSE stray[s][Pick(u)] + h[u \ {Pick(u)}]]
           m == CHOOSE h : P(h)
           n == CHOOSE h : Adds(h, f, Moment)
<1>1. MapThenSumSet(LAMBDA t : stray[s][t], Moment) = m[Moment]
  BY DEF MapThenSumSet, MapThenFoldSet, Pick
<1>2. \A h : P(h) <=> Adds(h, f, Moment)
  BY DEF Adds
<1>3. Adds(n, f, Moment)
  BY Moments, AddsExists
<1>4. m[Moment] = n[Moment]
  <2>1. \E h : P(h)
    <3> HIDE DEF P
    <3> QED
      BY <1>2, Moments, AddsExists
  <2>2. P(m)
    <3> HIDE DEF P
    <3> QED
      BY <2>1
  <2> HIDE DEF m, n, P
  <2>3. Adds(m, f, Moment)
    BY <1>2, <2>2
  <2> HIDE DEF f
  <2> QED
    BY <1>3, <2>3, Moments, AddsAgree
<1> QED
  BY <1>1, <1>4 DEF SumOf

LEMMA ChainsAreSum == MapThenSumSet(LAMBDA s : chainRuns[s], Schedule) = SumOf(chainRuns, Schedule)
<1> DEFINE f == chainRuns
           P(h) == h = [u \in SUBSET Schedule |-> IF u = {} THEN 0 ELSE chainRuns[Pick(u)] + h[u \ {Pick(u)}]]
           m == CHOOSE h : P(h)
           n == CHOOSE h : Adds(h, f, Schedule)
<1>1. MapThenSumSet(LAMBDA s : chainRuns[s], Schedule) = m[Schedule]
  BY DEF MapThenSumSet, MapThenFoldSet, Pick
<1>2. \A h : P(h) <=> Adds(h, f, Schedule)
  BY DEF Adds
<1>3. Adds(n, f, Schedule)
  BY CronConstants, AddsExists
<1>4. m[Schedule] = n[Schedule]
  <2>1. \E h : P(h)
    <3> HIDE DEF P
    <3> QED
      BY <1>2, CronConstants, AddsExists
  <2>2. P(m)
    <3> HIDE DEF P
    <3> QED
      BY <2>1
  <2> HIDE DEF m, n, P
  <2>3. Adds(m, f, Schedule)
    BY <1>2, <2>2
  <2> HIDE DEF f
  <2> QED
    BY <1>3, <2>3, CronConstants, AddsAgree
<1> QED
  BY <1>1, <1>4 DEF SumOf

LEMMA ExecutionsAreSum ==
  CurrentExecutions = SumOf([s \in Schedule |-> chainRuns[s] + freeRuns[s]], Schedule)
<1> DEFINE f == [s \in Schedule |-> chainRuns[s] + freeRuns[s]]
           P(h) == h = [u \in SUBSET Schedule |->
                          IF u = {} THEN 0 ELSE chainRuns[Pick(u)] + freeRuns[Pick(u)] + h[u \ {Pick(u)}]]
           m == CHOOSE h : P(h)
           n == CHOOSE h : Adds(h, f, Schedule)
<1>1. CurrentExecutions = m[Schedule]
  BY DEF CurrentExecutions, MapThenSumSet, MapThenFoldSet, Pick
<1>2. \A h : P(h) <=> Adds(h, f, Schedule)
  <2>1. \A u \in SUBSET Schedule : u # {} => f[Pick(u)] = chainRuns[Pick(u)] + freeRuns[Pick(u)]
    BY PickIn
  <2> HIDE DEF f
  <2> QED
    BY <2>1 DEF Adds
<1>3. Adds(n, f, Schedule)
  BY CronConstants, AddsExists
<1>4. m[Schedule] = n[Schedule]
  <2>1. \E h : P(h)
    <3> HIDE DEF P
    <3> QED
      BY <1>2, CronConstants, AddsExists
  <2>2. P(m)
    <3> HIDE DEF P
    <3> QED
      BY <2>1
  <2> HIDE DEF m, n, P
  <2>3. Adds(m, f, Schedule)
    BY <1>2, <2>2
  <2> HIDE DEF f
  <2> QED
    BY <1>3, <2>3, CronConstants, AddsAgree
<1> QED
  BY <1>1, <1>4 DEF SumOf

\* One more or one less of one schedule's.
LEMMA OneMore ==
  ASSUME NEW f \in [Schedule -> Nat], NEW s \in Schedule
  PROVE  /\ SumOf(f, Schedule) \in Nat
         /\ SumOf([f EXCEPT ![s] = @ + 1], Schedule) = SumOf(f, Schedule) + 1
         /\ f[s] > 0 => SumOf([f EXCEPT ![s] = @ - 1], Schedule) <= SumOf(f, Schedule)
<1>1. SumOf(f, Schedule) \in Nat /\ SumOf(f, Schedule) = f[s] + SumOf(f, Schedule \ {s})
  BY CronConstants, SumFacts
<1> DEFINE g == [f EXCEPT ![s] = @ + 1]
           h == [f EXCEPT ![s] = @ - 1]
<1>2. g \in [Schedule -> Nat] /\ g[s] = f[s] + 1 /\ \A r \in Schedule \ {s} : g[r] = f[r]
  OBVIOUS
<1>3. SumOf(g, Schedule) = f[s] + 1 + SumOf(f, Schedule \ {s})
  <2> HIDE DEF g
  <2>1. SumOf(g, Schedule) = g[s] + SumOf(g, Schedule \ {s})
    BY <1>2, CronConstants, SumFacts
  <2>2. IsFiniteSet(Schedule \ {s})
    BY CronConstants, FS_Subset
  <2>3. SumOf(g, Schedule \ {s}) = SumOf(f, Schedule \ {s})
    BY <1>2, <2>2, SumCongruent
  <2> QED
    BY <1>2, <2>1, <2>3
<1>4. SumOf(f, Schedule \ {s}) \in Nat
  <2>1. IsFiniteSet(Schedule \ {s})
    BY CronConstants, FS_Subset
  <2> QED
    BY <2>1, SumFacts
<1>5. ASSUME f[s] > 0 PROVE SumOf(h, Schedule) <= SumOf(f, Schedule)
  <2>1. \A r \in Schedule : h[r] \in Nat /\ f[r] \in Nat /\ h[r] <= f[r]
    BY <1>5
  <2> HIDE DEF h
  <2> QED
    BY <2>1, CronConstants, SumMonotone
<1> HIDE DEF g, h
<1>6. SumOf(g, Schedule) = SumOf(f, Schedule) + 1
  BY <1>1, <1>3, <1>4
<1> QED
  BY <1>1, <1>5, <1>6 DEF g, h

\* What a call or a timer of s does not touch stays as it is.
LEMMA OthersKept ==
  ASSUME CronInv, NEW s \in Schedule, cronOn' = cronOn, Kept(s)',
         \A r \in Schedule \ {s} :
           /\ object'[r] = object[r] /\ mapped'[r] = mapped[r] /\ stray'[r] = stray[r]
           /\ chainRuns'[r] = chainRuns[r] /\ manual'[r] = manual[r]
           /\ r \in listed' <=> r \in listed
           /\ r \in disturbed' <=> r \in disturbed
  PROVE  \A r \in Schedule : Kept(r)'
<1> SUFFICES ASSUME NEW r \in Schedule, r # s PROVE Kept(r)'
  OBVIOUS
<1>1. Kept(r)
  BY DEF CronInv
<1> QED
  BY <1>1 DEF Kept, Active

\* There is no schedule yet.
LEMMA CronInitInv == CronInit => CronInv
<1> SUFFICES ASSUME CronInit PROVE CronInv
  OBVIOUS
<1> DEFINE new == [kind |-> "interval", max |-> Unlimited, skip |-> FALSE, end |-> Never,
                   status |-> "absent", next |-> 0, count |-> 0]
<1>1. new \in CronObjects
  <2>1. Unlimited \in Nat
    BY CronConstants DEF Unlimited
  <2> QED
    BY <2>1, Moments DEF CronObjects
<1>2. /\ clock = 0 /\ cronOn = FALSE /\ listed = {} /\ disturbed = {}
      /\ object = [s \in Schedule |-> new] /\ mapped = [s \in Schedule |-> Never]
      /\ stray = [s \in Schedule |-> [t \in Moment |-> 0]]
      /\ chainRuns = [s \in Schedule |-> 0] /\ freeRuns = [s \in Schedule |-> 0]
      /\ manual = [s \in Schedule |-> 0]
  BY DEF CronInit
<1>3. /\ new.status = "absent" /\ new.count = 0 /\ new.max \in Nat
  BY <1>1 DEF CronObjects
<1> HIDE DEF new
<1>4. CronTypes
  <2>1. 0 \in 0 .. MaxTime
    BY CronConstants
  <2> QED
    BY <1>1, <1>2, <2>1, Moments DEF CronTypes
<1>5. ASSUME NEW s \in Schedule PROVE Kept(s)
  BY <1>2, <1>3 DEF Kept, Active
<1>6. SumOf(chainRuns, Schedule) <= MaxConcurrent
  <2>1. SumOf(chainRuns, Schedule) = 0
    BY <1>2, CronConstants, SumOfZeros
  <2> QED
    BY <2>1, CronConstants
<1> QED
  BY <1>4, <1>5, <1>6 DEF CronInv

\* A start arms what is active; what is being executed then has two chains.
LEMMA StartSchedulerStep == ASSUME CronInv, StartScheduler PROVE CronInv'
<1>1. CronTypes /\ \A s \in Schedule : Kept(s)
  BY DEF CronInv
<1>2. /\ cronOn = FALSE /\ cronOn' = TRUE /\ clock' = clock /\ object' = object /\ listed' = listed
      /\ stray' = stray /\ chainRuns' = chainRuns /\ freeRuns' = freeRuns /\ manual' = manual
      /\ mapped' = [s \in Schedule |-> IF s \in listed /\ Active(s) THEN TaskStarts(object[s]) ELSE mapped[s]]
      /\ disturbed' = disturbed \cup {s \in listed : Active(s) /\ Executing(s)}
  BY <1>1 DEF StartScheduler, CronTypes
<1>3. \A s \in Schedule : TaskStarts(object[s]) \in 0 .. Beyond /\ object[s] \in CronObjects
  BY <1>1, TimesFacts DEF CronTypes
<1>4. CronTypes'
  <2>1. mapped' \in [Schedule -> Moment]
    BY <1>1, <1>2, <1>3, Moments DEF CronTypes
  <2>2. disturbed' \in SUBSET Schedule
    BY <1>1, <1>2 DEF CronTypes
  <2> QED
    BY <1>1, <1>2, <2>1, <2>2 DEF CronTypes
<1>5. ASSUME NEW s \in Schedule PROVE Kept(s)'
  <2>1. Kept(s)
    BY <1>1
  <2>2. CASE s \in listed /\ Active(s)
    <3>1. mapped'[s] # Never
      BY <1>2, <1>3, <2>2, Moments
    <3>2. chainRuns[s] \in Nat /\ (s \notin disturbed' => chainRuns[s] = 0)
      BY <1>1, <1>2, <2>2 DEF Executing, CronTypes
    <3> QED
      BY <1>2, <2>1, <2>2, <3>1, <3>2 DEF Kept, Active
  <2>3. CASE ~(s \in listed /\ Active(s))
    <3>1. mapped'[s] = mapped[s] /\ (s \in disturbed' <=> s \in disturbed)
      BY <1>2, <2>3
    <3> QED
      BY <1>2, <2>1, <2>3, <3>1 DEF Kept, Active
  <2> QED
    BY <2>2, <2>3
<1> QED
  BY <1>2, <1>4, <1>5 DEF CronInv

\* A stop clears the map, and not the chains that are being executed.
LEMMA StopSchedulerStep == ASSUME CronInv, StopScheduler PROVE CronInv'
<1>1. CronTypes /\ \A s \in Schedule : Kept(s)
  BY DEF CronInv
<1>2. /\ cronOn' = FALSE /\ clock' = clock /\ object' = object /\ listed' = listed
      /\ stray' = stray /\ chainRuns' = chainRuns /\ freeRuns' = freeRuns /\ manual' = manual
      /\ mapped' = [s \in Schedule |-> Never]
      /\ disturbed' = disturbed \cup {s \in Schedule : Executing(s)}
  BY DEF StopScheduler
<1>3. CronTypes'
  <2>1. mapped' \in [Schedule -> Moment] /\ disturbed' \in SUBSET Schedule
    BY <1>1, <1>2, Moments DEF CronTypes
  <2> QED
    BY <1>1, <1>2, <2>1 DEF CronTypes
<1>4. ASSUME NEW s \in Schedule PROVE Kept(s)'
  <2>1. Kept(s) /\ mapped'[s] = Never /\ (s \in disturbed => s \in disturbed')
    BY <1>1, <1>2
  <2> QED
    BY <1>2, <2>1 DEF Kept, Active
<1> QED
  BY <1>2, <1>3, <1>4 DEF CronInv

\* A new schedule has nothing at work.
LEMMA AddScheduleStep ==
  ASSUME CronInv, NEW s \in Schedule, NEW kind \in {"interval", "once", "cron"},
         NEW max \in {1, 2, Unlimited}, NEW skip \in BOOLEAN, NEW start \in {clock, clock + 1},
         NEW end \in {EndDate, Never}, AddSchedule(s, kind, max, skip, start, end)
  PROVE  CronInv'
<1>1. CronTypes /\ Kept(s)
  BY DEF CronInv
<1> DEFINE o == [kind |-> kind, max |-> max, skip |-> skip, end |-> end, status |-> "active",
                 next |-> NextRun(kind, start), count |-> 0]
<1>2. /\ object[s].status = "absent" /\ object' = [object EXCEPT ![s] = o] /\ listed' = listed \cup {s}
      /\ mapped' = IF cronOn THEN [mapped EXCEPT ![s] = TaskStarts(o)] ELSE mapped
      /\ clock' = clock /\ cronOn' = cronOn /\ stray' = stray /\ chainRuns' = chainRuns
      /\ freeRuns' = freeRuns /\ manual' = manual /\ disturbed' = disturbed
  BY DEF AddSchedule
<1>3. o \in CronObjects /\ o.status = "active" /\ o.count = 0
  <2>1. Unlimited \in Nat
    BY CronConstants DEF Unlimited
  <2>2. NextRun(kind, start) \in 0 .. Beyond
    <3>1. start \in 0 .. Beyond /\ clock + Interval \in 0 .. Beyond /\ NextMatch \in 0 .. Beyond
      BY <1>1, TimesFacts, Moments
    <3> QED
      BY <3>1 DEF NextRun
  <2>3. max \in Nat /\ end \in Nat
    BY <2>1, Moments, CronConstants
  <2> QED
    BY <2>2, <2>3 DEF CronObjects
<1>4. TaskStarts(o) \in 0 .. Beyond
  BY <1>1, <1>3, TimesFacts
<1> HIDE DEF o
<1>5. CronTypes'
  <2>1. object' \in [Schedule -> CronObjects] /\ mapped' \in [Schedule -> Moment] /\ listed' \in SUBSET Schedule
    BY <1>1, <1>2, <1>3, <1>4, Moments DEF CronTypes
  <2> QED
    BY <1>1, <1>2, <2>1 DEF CronTypes
<1>6. /\ object'[s] = o /\ (cronOn => mapped'[s] # Never) /\ (~cronOn => mapped'[s] = mapped[s])
      /\ \A r \in Schedule \ {s} : object'[r] = object[r] /\ mapped'[r] = mapped[r]
  BY <1>1, <1>2, <1>4, Moments DEF CronTypes
<1>7. chainRuns[s] = 0
  BY <1>1, <1>2 DEF Kept
<1>8. manual[s] \in Nat /\ o.max \in Nat
  BY <1>1, <1>3 DEF CronTypes, CronObjects
<1>9. o.count - manual[s] <= o.max
  BY <1>3, <1>8
<1>10. Kept(s)'
  BY <1>1, <1>2, <1>3, <1>6, <1>7, <1>9 DEF Kept, Active
<1> QED
  BY <1>2, <1>5, <1>6, <1>10, OthersKept DEF CronInv

\* A removal clears the timer in the map.
LEMMA RemoveScheduleStep == ASSUME CronInv, NEW s \in Schedule, RemoveSchedule(s) PROVE CronInv'
<1>1. CronTypes /\ Kept(s)
  BY DEF CronInv
<1>2. /\ s \in listed /\ listed' = listed \ {s} /\ mapped' = [mapped EXCEPT ![s] = Never]
      /\ disturbed' = IF Executing(s) THEN disturbed \cup {s} ELSE disturbed
      /\ clock' = clock /\ cronOn' = cronOn /\ object' = object /\ stray' = stray
      /\ chainRuns' = chainRuns /\ freeRuns' = freeRuns /\ manual' = manual
  BY DEF RemoveSchedule
<1>3. CronTypes'
  <2>1. mapped' \in [Schedule -> Moment] /\ listed' \in SUBSET Schedule /\ disturbed' \in SUBSET Schedule
    BY <1>1, <1>2, Moments DEF CronTypes
  <2> QED
    BY <1>1, <1>2, <2>1 DEF CronTypes
<1>4. /\ mapped'[s] = Never /\ s \notin listed' /\ (s \in disturbed => s \in disturbed')
      /\ s \notin disturbed' => ~(chainRuns[s] > 0)
      /\ \A r \in Schedule \ {s} : /\ mapped'[r] = mapped[r] /\ (r \in listed' <=> r \in listed)
                                   /\ (r \in disturbed' <=> r \in disturbed)
  BY <1>1, <1>2 DEF CronTypes, Executing
<1>5. Kept(s)'
  BY <1>1, <1>2, <1>4 DEF Kept, Active
<1> QED
  BY <1>2, <1>3, <1>4, <1>5, OthersKept DEF CronInv

\* The timer in the map is cleared before another one is armed.
LEMMA UpdateStatusStep ==
  ASSUME CronInv, NEW s \in Schedule, NEW status \in {"active", "paused"}, UpdateStatus(s, status)
  PROVE  CronInv'
<1>1. CronTypes /\ Kept(s) /\ object[s] \in CronObjects
  BY DEF CronInv, CronTypes
<1> DEFINE o == [object[s] EXCEPT !.status = status]
<1>2. /\ s \in listed /\ object' = [object EXCEPT ![s] = o]
      /\ mapped' = IF ~cronOn THEN mapped
                   ELSE [mapped EXCEPT ![s] = IF status = "active" THEN TaskStarts(o) ELSE Never]
      /\ disturbed' = IF Executing(s) THEN disturbed \cup {s} ELSE disturbed
      /\ clock' = clock /\ cronOn' = cronOn /\ listed' = listed /\ stray' = stray
      /\ chainRuns' = chainRuns /\ freeRuns' = freeRuns /\ manual' = manual
  BY DEF UpdateStatus
<1>3. /\ o \in CronObjects /\ o.status = status /\ o.count = object[s].count /\ o.max = object[s].max
      /\ o.skip = object[s].skip
  BY <1>1 DEF CronObjects
<1>4. TaskStarts(o) \in 0 .. Beyond
  BY <1>1, <1>3, TimesFacts
<1> HIDE DEF o
<1>5. CronTypes'
  <2>1. /\ object' \in [Schedule -> CronObjects] /\ mapped' \in [Schedule -> Moment]
        /\ disturbed' \in SUBSET Schedule
    BY <1>1, <1>2, <1>3, <1>4, Moments DEF CronTypes
  <2> QED
    BY <1>1, <1>2, <2>1 DEF CronTypes
<1>6. /\ object'[s] = o
      /\ ~cronOn => mapped'[s] = mapped[s]
      /\ cronOn => (mapped'[s] # Never <=> status = "active")
      /\ s \in disturbed => s \in disturbed'
      /\ s \notin disturbed' => ~(chainRuns[s] > 0) /\ chainRuns[s] \in Nat
      /\ \A r \in Schedule \ {s} : /\ object'[r] = object[r] /\ mapped'[r] = mapped[r]
                                   /\ (r \in disturbed' <=> r \in disturbed)
  BY <1>1, <1>2, <1>4, Moments DEF CronTypes, Executing
<1>7. Kept(s)'
  <2>1. s \in listed' /\ cronOn' /\ Active(s)' => mapped'[s] # Never \/ chainRuns'[s] > 0
    BY <1>2, <1>3, <1>6 DEF Active
  <2>2. s \notin disturbed' =>
          /\ \A t \in Moment : stray'[s][t] = 0
          /\ chainRuns'[s] <= 1 /\ (chainRuns'[s] > 0 => s \in listed')
          /\ mapped'[s] # Never => cronOn' /\ s \in listed' /\ Active(s)' /\ chainRuns'[s] = 0
    BY <1>1, <1>2, <1>3, <1>6 DEF Kept, Active
  <2>3. object'[s].status # "absent"
    BY <1>3, <1>6
  <2>4. object'[s].count - manual'[s] <= object'[s].max /\ (object'[s].skip => chainRuns'[s] <= 1)
    BY <1>1, <1>2, <1>3, <1>6 DEF Kept
  <2> QED
    BY <2>1, <2>2, <2>3, <2>4 DEF Kept
<1> QED
  BY <1>2, <1>5, <1>6, <1>7, OthersKept DEF CronInv

\* The next timer of the chain takes the place in the map; what it finds there
\* becomes stray.
LEMMA RearmsFacts ==
  ASSUME CronTypes, NEW s \in Schedule, NEW m \in [Schedule -> Moment],
         NEW w \in [Schedule -> [Moment -> Nat]], Rearms(s, m, w)
  PROVE  /\ mapped' \in [Schedule -> Moment] /\ stray' \in [Schedule -> [Moment -> Nat]]
         /\ \A r \in Schedule \ {s} : mapped'[r] = m[r] /\ stray'[r] = w[r]
         /\ cronOn /\ Active(s) => mapped'[s] # Never
         /\ ~(cronOn /\ Active(s)) => mapped'[s] = m[s]
         /\ m[s] = Never => stray'[s] = w[s]
<1> DEFINE next == clock + Interval
<1>1. next \in Moment /\ next # Never
  BY TimesFacts, Moments
<1>2. CASE cronOn /\ Active(s)
  <2>1. mapped' = [m EXCEPT ![s] = next]
    BY <1>2 DEF Rearms
  <2> HIDE DEF next
  <2>2. /\ mapped' \in [Schedule -> Moment] /\ mapped'[s] # Never
        /\ \A r \in Schedule \ {s} : mapped'[r] = m[r]
    BY <1>1, <2>1
  <2>3. CASE m[s] = Never
    <3>1. stray' = w
      BY <1>2, <2>3 DEF Rearms
    <3> QED
      BY <1>2, <2>2, <3>1
  <2>4. CASE m[s] # Never
    <3> DEFINE t == m[s]
    <3>1. stray' = [w EXCEPT ![s][m[s]] = @ + 1]
      BY <1>2, <2>4 DEF Rearms
    <3>2. stray' = [w EXCEPT ![s][t] = @ + 1] /\ t \in Moment
      BY <3>1
    <3> HIDE DEF t
    <3>3. stray' \in [Schedule -> [Moment -> Nat]] /\ \A r \in Schedule \ {s} : stray'[r] = w[r]
      BY <3>2
    <3> QED
      BY <1>2, <2>2, <2>4, <3>3
  <2> QED
    BY <2>3, <2>4
<1>3. CASE ~(cronOn /\ Active(s))
  <2>1. mapped' = m /\ stray' = w
    BY <1>3 DEF Rearms
  <2> QED
    BY <1>3, <2>1
<1> QED
  BY <1>2, <1>3

\* The schedule of an expired one.
LEMMA ExpiredFacts ==
  ASSUME NEW f \in [Schedule -> CronObjects], NEW s \in Schedule
  PROVE  LET e == [f EXCEPT ![s].status = "expired"]
         IN /\ e \in [Schedule -> CronObjects] /\ e[s].status = "expired" /\ e[s].count = f[s].count
            /\ e[s].max = f[s].max /\ e[s].skip = f[s].skip /\ \A r \in Schedule \ {s} : e[r] = f[r]
<1> DEFINE o == [f[s] EXCEPT !.status = "expired"]
           e == [f EXCEPT ![s].status = "expired"]
<1>1. /\ o \in CronObjects /\ o.status = "expired" /\ o.count = f[s].count
      /\ o.max = f[s].max /\ o.skip = f[s].skip
  BY DEF CronObjects
<1>2. e = [f EXCEPT ![s] = o]
  OBVIOUS
<1> HIDE DEF o, e
<1>3. e \in [Schedule -> CronObjects] /\ e[s] = o /\ \A r \in Schedule \ {s} : e[r] = f[r]
  BY <1>1, <1>2
<1> QED
  BY <1>1, <1>3 DEF e

\* A once schedule that is over has expired; no timer of it is left.
LEMMA ExpiresKeeps ==
  ASSUME CronInv, NEW s \in Schedule, NEW m \in [Schedule -> Moment],
         NEW w \in [Schedule -> [Moment -> Nat]], NEW c \in [Schedule -> Nat],
         \A r \in Schedule \ {s} : m[r] = mapped[r] /\ w[r] = stray[r] /\ c[r] = chainRuns[r],
         s \notin disturbed => m[s] = Never /\ \A t \in Moment : w[s][t] = 0,
         c[s] <= chainRuns[s], SumOf(c, Schedule) <= SumOf(chainRuns, Schedule),
         mapped' = m, stray' = w, chainRuns' = c, object' \in [Schedule -> CronObjects],
         \A r \in Schedule \ {s} : object'[r] = object[r],
         object'[s].status = "expired", object'[s].count = object[s].count,
         object'[s].max = object[s].max, object'[s].skip = object[s].skip,
         clock' = clock, cronOn' = cronOn, listed' = listed, freeRuns' = freeRuns, manual' = manual,
         disturbed' = disturbed
  PROVE  CronInv'
<1>1. /\ CronTypes /\ Kept(s) /\ object[s] \in CronObjects /\ SumOf(chainRuns, Schedule) <= MaxConcurrent
      /\ chainRuns \in [Schedule -> Nat]
  BY DEF CronInv, CronTypes
<1>5. CronTypes'
  BY <1>1 DEF CronTypes
<1>6. SumOf(chainRuns', Schedule) <= MaxConcurrent
  <2>1. SumOf(chainRuns, Schedule) \in Nat /\ SumOf(c, Schedule) \in Nat
    BY <1>1, OneMore
  <2> QED
    BY <1>1, <2>1, CronConstants
<1>7. Kept(s)'
  <2>1. c[s] \in Nat /\ chainRuns[s] \in Nat
    BY <1>1
  <2>2. s \notin disturbed => chainRuns[s] <= 1 /\ (chainRuns[s] > 0 => s \in listed)
    BY <1>1 DEF Kept
  <2>3. object[s].count - manual[s] <= object[s].max /\ (object[s].skip => chainRuns[s] <= 1)
    BY <1>1 DEF Kept
  <2>4. /\ object'[s].status = "expired"
        /\ object'[s].count - manual'[s] <= object'[s].max /\ (object'[s].skip => chainRuns'[s] <= 1)
    BY <2>1, <2>3
  <2>5. s \notin disturbed' => chainRuns'[s] <= 1 /\ (chainRuns'[s] > 0 => s \in listed')
    BY <2>1, <2>2
  <2> QED
    BY <2>4, <2>5 DEF Kept, Active
<1> QED
  BY <1>5, <1>6, <1>7, OthersKept DEF CronInv

\* The map loses the timer of a schedule that has expired by an execution.
LEMMA MapAfterFacts ==
  ASSUME CronTypes, NEW s \in Schedule, NEW m \in [Schedule -> Moment]
  PROVE  /\ MapAfter(s, m) \in [Schedule -> Moment]
         /\ \A r \in Schedule \ {s} : MapAfter(s, m)[r] = m[r]
         /\ Expired(Ran(object[s])) => MapAfter(s, m)[s] = Never
         /\ ~Expired(Ran(object[s])) => MapAfter(s, m)[s] = m[s]
<1> DEFINE e == Expired(Ran(object[s]))
<1>1. MapAfter(s, m) = IF e THEN [m EXCEPT ![s] = Never] ELSE m
  BY DEF MapAfter
<1>2. CASE e
  <2>1. MapAfter(s, m) = [m EXCEPT ![s] = Never]
    BY <1>1, <1>2
  <2> HIDE DEF e
  <2>2. e
    BY <1>2
  <2>3. /\ MapAfter(s, m) \in [Schedule -> Moment] /\ MapAfter(s, m)[s] = Never
        /\ \A r \in Schedule \ {s} : MapAfter(s, m)[r] = m[r]
    BY <2>1, Moments
  <2> QED
    BY <2>2, <2>3 DEF e
<1>3. CASE ~e
  <2>1. MapAfter(s, m) = m
    BY <1>1, <1>3
  <2> QED
    BY <1>3, <2>1
<1> QED
  BY <1>2, <1>3

\* The limits allow an execution to start.
LEMMA TriggersFacts ==
  ASSUME CronInv, NEW s \in Schedule, Triggers(s)
  PROVE  /\ Active(s) /\ object[s].count + 1 - manual[s] <= object[s].max
         /\ object[s].skip => chainRuns[s] = 0
         /\ SumOf(chainRuns, Schedule) + 1 <= MaxConcurrent
<1>1. CronTypes /\ object[s] \in CronObjects
  BY DEF CronInv, CronTypes
<1>2. Active(s)
  BY DEF Triggers, Due, Active
<1>3. object[s].count + 1 - manual[s] <= object[s].max
  <2>1. object[s].count \in Nat /\ object[s].max \in Nat /\ manual[s] \in Nat
    BY <1>1 DEF CronTypes, CronObjects
  <2>2. ~(object[s].count >= object[s].max)
    BY DEF Triggers, Due, Expired
  <2> QED
    BY <2>1, <2>2
<1>4. object[s].skip => chainRuns[s] = 0
  <2>1. chainRuns[s] \in Nat /\ freeRuns[s] \in Nat
    BY <1>1 DEF CronTypes
  <2>2. object[s].skip => chainRuns[s] + freeRuns[s] = 0
    BY DEF Triggers
  <2> QED
    BY <2>1, <2>2
<1>5. SumOf(chainRuns, Schedule) + 1 <= MaxConcurrent
  <2> DEFINE f == [r \in Schedule |-> chainRuns[r] + freeRuns[r]]
  <2>1. \A r \in Schedule : chainRuns[r] \in Nat /\ f[r] \in Nat /\ chainRuns[r] <= f[r]
    BY <1>1 DEF CronTypes
  <2>2. SumOf(f, Schedule) < MaxConcurrent
    BY ExecutionsAreSum DEF Triggers
  <2> HIDE DEF f
  <2>3. /\ SumOf(chainRuns, Schedule) <= SumOf(f, Schedule)
        /\ SumOf(chainRuns, Schedule) \in Nat /\ SumOf(f, Schedule) \in Nat
    BY <2>1, CronConstants, SumMonotone, SumFacts
  <2> QED
    BY <2>2, <2>3, CronConstants
<1> QED
  BY <1>2, <1>3, <1>4, <1>5

\* A manual trigger counts apart, and may make the schedule expire.
LEMMA ManualTriggerStep == ASSUME CronInv, NEW s \in Schedule, ManualTrigger(s) PROVE CronInv'
<1>1. CronTypes /\ Kept(s) /\ object[s] \in CronObjects
  BY DEF CronInv, CronTypes
<1> DEFINE o == Ran(object[s])
<1>2. /\ s \in listed /\ object' = [object EXCEPT ![s] = o] /\ mapped' = MapAfter(s, mapped)
      /\ freeRuns' = [freeRuns EXCEPT ![s] = @ + 1] /\ manual' = [manual EXCEPT ![s] = @ + 1]
      /\ clock' = clock /\ cronOn' = cronOn /\ listed' = listed /\ stray' = stray
      /\ chainRuns' = chainRuns /\ disturbed' = disturbed
  BY DEF ManualTrigger
<1>3. /\ o \in CronObjects /\ o.max = object[s].max /\ o.skip = object[s].skip
      /\ o.count = object[s].count + 1
      /\ Expired(o) => o.status = "expired"
      /\ ~Expired(o) => o.status = object[s].status
  BY <1>1, RanFacts
<1>4. /\ mapped' \in [Schedule -> Moment] /\ \A r \in Schedule \ {s} : mapped'[r] = mapped[r]
      /\ Expired(o) => mapped'[s] = Never
      /\ ~Expired(o) => mapped'[s] = mapped[s]
  <2>1. mapped \in [Schedule -> Moment]
    BY <1>1 DEF CronTypes
  <2> QED
    BY <1>1, <1>2, <2>1, MapAfterFacts
<1> HIDE DEF o
<1>5. CronTypes'
  <2>1. /\ object' \in [Schedule -> CronObjects] /\ freeRuns' \in [Schedule -> Nat]
        /\ manual' \in [Schedule -> Nat]
    BY <1>1, <1>2, <1>3 DEF CronTypes
  <2> QED
    BY <1>1, <1>2, <1>4, <2>1 DEF CronTypes
<1>6. /\ object'[s] = o /\ manual'[s] = manual[s] + 1
      /\ \A r \in Schedule \ {s} : object'[r] = object[r] /\ manual'[r] = manual[r]
  BY <1>1, <1>2 DEF CronTypes
<1>7. o.count - manual'[s] <= o.max
  <2>1. object[s].count \in Nat /\ object[s].max \in Nat /\ manual[s] \in Nat
    BY <1>1 DEF CronTypes, CronObjects
  <2>2. object[s].count - manual[s] <= object[s].max
    BY <1>1 DEF Kept
  <2> QED
    BY <1>3, <1>6, <2>1, <2>2
<1>8. Kept(s)'
  BY <1>1, <1>2, <1>3, <1>4, <1>6, <1>7 DEF Kept, Active
<1> QED
  BY <1>2, <1>4, <1>5, <1>6, <1>8, OthersKept DEF CronInv

\* A timer of s, the one in the map or a stray one, has gone off.
LEMMA FiresStep ==
  ASSUME CronInv, NEW s \in Schedule, NEW m \in [Schedule -> Moment],
         NEW w \in [Schedule -> [Moment -> Nat]], Fires(s, m, w),
         \A r \in Schedule \ {s} : m[r] = mapped[r] /\ w[r] = stray[r],
         s \notin disturbed => /\ m[s] = Never /\ chainRuns[s] = 0 /\ cronOn /\ s \in listed /\ Active(s)
                               /\ \A t \in Moment : w[s][t] = 0,
         UNCHANGED <<clock, cronOn, listed, freeRuns, manual, disturbed, cronCalls>>
  PROVE  CronInv'
<1>1. CronTypes /\ Kept(s) /\ object[s] \in CronObjects /\ SumOf(chainRuns, Schedule) <= MaxConcurrent
  BY DEF CronInv, CronTypes
<1>2. /\ clock' = clock /\ cronOn' = cronOn /\ listed' = listed /\ freeRuns' = freeRuns
      /\ manual' = manual /\ disturbed' = disturbed
  OBVIOUS
<1>3. CASE /\ Triggers(s)
           /\ object' = [object EXCEPT ![s] = Ran(object[s])]
           /\ mapped' = MapAfter(s, m) /\ stray' = w
           /\ chainRuns' = [chainRuns EXCEPT ![s] = @ + 1]
  <2> DEFINE o == Ran(object[s])
  <2>1. /\ o \in CronObjects /\ o.max = object[s].max /\ o.skip = object[s].skip
        /\ o.count = object[s].count + 1
        /\ Expired(o) => o.status = "expired"
        /\ ~Expired(o) => o.status = object[s].status
    BY <1>1, RanFacts
  <2>2. /\ mapped' \in [Schedule -> Moment] /\ \A r \in Schedule \ {s} : mapped'[r] = m[r]
        /\ Expired(o) => mapped'[s] = Never
        /\ ~Expired(o) => mapped'[s] = m[s]
    BY <1>1, <1>3, MapAfterFacts
  <2> HIDE DEF o
  <2>3. /\ Active(s) /\ object[s].count + 1 - manual[s] <= object[s].max
        /\ object[s].skip => chainRuns[s] = 0
        /\ SumOf(chainRuns, Schedule) + 1 <= MaxConcurrent
    BY <1>3, TriggersFacts
  <2>4. /\ object' = [object EXCEPT ![s] = o] /\ chainRuns' = [chainRuns EXCEPT ![s] = @ + 1] /\ stray' = w
        /\ object \in [Schedule -> CronObjects] /\ chainRuns \in [Schedule -> Nat]
    BY <1>1, <1>3 DEF o, CronTypes
  <2>5. /\ object' \in [Schedule -> CronObjects] /\ object'[s] = o
        /\ chainRuns' \in [Schedule -> Nat] /\ chainRuns'[s] = chainRuns[s] + 1 /\ chainRuns[s] \in Nat
        /\ \A r \in Schedule \ {s} : object'[r] = object[r] /\ chainRuns'[r] = chainRuns[r]
    BY <2>1, <2>4
  <2>6. CronTypes'
    BY <1>1, <1>2, <2>2, <2>4, <2>5 DEF CronTypes
  <2>7. SumOf(chainRuns', Schedule) <= MaxConcurrent
    BY <2>3, <2>4, OneMore
  <2>8. Kept(s)'
    <3>1. s \in listed' /\ cronOn' /\ Active(s)' => mapped'[s] # Never \/ chainRuns'[s] > 0
      BY <2>5
    <3>2. s \notin disturbed' =>
            /\ \A t \in Moment : stray'[s][t] = 0
            /\ chainRuns'[s] <= 1 /\ (chainRuns'[s] > 0 => s \in listed')
            /\ mapped'[s] # Never => cronOn' /\ s \in listed' /\ Active(s)' /\ chainRuns'[s] = 0
      BY <1>2, <2>2, <2>4, <2>5
    <3>3. object'[s].status # "absent"
      BY <2>1, <2>3, <2>5 DEF Active
    <3>4. object'[s].count - manual'[s] <= object'[s].max
      <4>1. /\ object[s].count + 1 - manual[s] <= object[s].max /\ object'[s] = o /\ manual'[s] = manual[s]
            /\ o.count = object[s].count + 1 /\ o.max = object[s].max
        BY <1>2, <2>1, <2>3, <2>5
      <4>2. object[s].count \in Nat /\ object[s].max \in Nat /\ manual[s] \in Nat
        BY <1>1 DEF CronTypes, CronObjects
      <4> QED
        BY <4>1, <4>2
    <3>5. object'[s].skip => chainRuns'[s] <= 1
      BY <2>1, <2>3, <2>5
    <3> QED
      BY <3>1, <3>2, <3>3, <3>4, <3>5 DEF Kept
  <2> QED
    BY <1>2, <2>2, <2>4, <2>5, <2>6, <2>7, <2>8, OthersKept DEF CronInv
<1>4. CASE Rearms(s, m, w) /\ UNCHANGED <<object, chainRuns>>
  <2>1. object' = object /\ chainRuns' = chainRuns
    BY <1>4
  <2>2. /\ mapped' \in [Schedule -> Moment] /\ stray' \in [Schedule -> [Moment -> Nat]]
        /\ \A r \in Schedule \ {s} : mapped'[r] = mapped[r] /\ stray'[r] = stray[r]
        /\ cronOn /\ Active(s) => mapped'[s] # Never
        /\ m[s] = Never => stray'[s] = w[s]
    BY <1>1, <1>4, RearmsFacts
  <2>3. CronTypes'
    BY <1>1, <1>2, <2>1, <2>2 DEF CronTypes
  <2>4. Kept(s)'
    <3>1. object[s].status = "absent" => s \notin listed /\ chainRuns[s] = 0
      BY <1>1 DEF Kept
    <3>2. object[s].count - manual[s] <= object[s].max /\ (object[s].skip => chainRuns[s] <= 1)
      BY <1>1 DEF Kept
    <3> QED
      BY <1>2, <2>1, <2>2, <3>1, <3>2 DEF Kept, Active
  <2> QED
    BY <1>1, <1>2, <2>1, <2>2, <2>3, <2>4, OthersKept DEF CronInv
<1>5. CASE object' = [object EXCEPT ![s].status = "expired"] /\ mapped' = m /\ stray' = w /\ chainRuns' = chainRuns
  <2>1. chainRuns \in [Schedule -> Nat] /\ chainRuns[s] \in Nat /\ SumOf(chainRuns, Schedule) \in Nat
    BY <1>1, OneMore DEF CronTypes
  <2>2. PICK c \in [Schedule -> Nat] : c = chainRuns
    BY <2>1
  <2>3. c[s] <= chainRuns[s] /\ SumOf(c, Schedule) <= SumOf(chainRuns, Schedule)
    BY <2>1, <2>2
  <2>4. \A r \in Schedule \ {s} : m[r] = mapped[r] /\ w[r] = stray[r] /\ c[r] = chainRuns[r]
    BY <2>2
  <2>5. s \notin disturbed => m[s] = Never /\ \A t \in Moment : w[s][t] = 0
    OBVIOUS
  <2>6. mapped' = m /\ stray' = w /\ chainRuns' = c
    BY <1>5, <2>2
  <2>7. /\ object' \in [Schedule -> CronObjects] /\ \A r \in Schedule \ {s} : object'[r] = object[r]
        /\ object'[s].status = "expired" /\ object'[s].count = object[s].count
        /\ object'[s].max = object[s].max /\ object'[s].skip = object[s].skip
    <3>1. object \in [Schedule -> CronObjects]
      BY <1>1 DEF CronTypes
    <3> QED
      BY <1>5, <3>1, ExpiredFacts
  <2> QED
    BY <1>2, <2>2, <2>3, <2>4, <2>5, <2>6, <2>7, ExpiresKeeps
<1> QED
  BY <1>3, <1>4, <1>5 DEF Fires

\* A stray timer fires only where one was touched; the one in the map leaves it.
LEMMA TimerFiresStep == ASSUME CronInv, NEW s \in Schedule, TimerFires(s) PROVE CronInv'
<1>1. CronTypes /\ Kept(s) /\ mapped \in [Schedule -> Moment] /\ stray \in [Schedule -> [Moment -> Nat]]
  BY DEF CronInv, CronTypes
<1>2. UNCHANGED <<clock, cronOn, listed, freeRuns, manual, disturbed, cronCalls>>
  BY DEF TimerFires
<1>3. CASE mapped[s] <= clock /\ Fires(s, [mapped EXCEPT ![s] = Never], stray)
  <2>1. mapped[s] # Never
    BY <1>1, <1>3, TimesFacts, Moments
  <2>2. PICK m \in [Schedule -> Moment] : m = [mapped EXCEPT ![s] = Never]
    BY <1>1, Moments
  <2>3. PICK w \in [Schedule -> [Moment -> Nat]] : w = stray
    BY <1>1
  <2>4. Fires(s, m, w)
    BY <1>3, <2>2, <2>3
  <2>5. \A r \in Schedule \ {s} : m[r] = mapped[r] /\ w[r] = stray[r]
    BY <1>1, <2>2, <2>3
  <2>6. s \notin disturbed => /\ m[s] = Never /\ chainRuns[s] = 0 /\ cronOn /\ s \in listed /\ Active(s)
                              /\ \A t \in Moment : w[s][t] = 0
    BY <1>1, <2>1, <2>2, <2>3 DEF Kept
  <2> QED
    BY <1>2, <2>2, <2>3, <2>4, <2>5, <2>6, FiresStep
<1>4. CASE \E t \in Moment : t <= clock /\ stray[s][t] > 0 /\ Fires(s, mapped, [stray EXCEPT ![s][t] = @ - 1])
  <2>1. PICK t \in Moment : /\ stray[s][t] > 0 /\ stray[s][t] \in Nat
                            /\ Fires(s, mapped, [stray EXCEPT ![s][t] = @ - 1])
    BY <1>1, <1>4
  <2>2. PICK w \in [Schedule -> [Moment -> Nat]] : w = [stray EXCEPT ![s][t] = @ - 1]
    <3>1. stray[s][t] - 1 \in Nat
      BY <2>1
    <3>2. [stray EXCEPT ![s][t] = @ - 1] \in [Schedule -> [Moment -> Nat]]
      BY <1>1, <3>1
    <3> QED
      BY <3>2
  <2>3. PICK m \in [Schedule -> Moment] : m = mapped
    BY <1>1
  <2>4. Fires(s, m, w)
    BY <2>1, <2>2, <2>3
  <2>5. \A r \in Schedule \ {s} : m[r] = mapped[r] /\ w[r] = stray[r]
    BY <1>1, <2>2, <2>3
  <2>6. s \in disturbed
    BY <1>1, <2>1 DEF Kept
  <2> QED
    BY <1>2, <2>2, <2>3, <2>4, <2>5, <2>6, FiresStep
<1> QED
  BY <1>3, <1>4 DEF TimerFires

\* The task of a cron schedule stays in the map, unless the schedule expires.
LEMMA TaskFiresStep == ASSUME CronInv, NEW s \in Schedule, TaskFires(s) PROVE CronInv'
<1>1. /\ CronTypes /\ Kept(s) /\ object[s] \in CronObjects /\ object \in [Schedule -> CronObjects]
      /\ mapped \in [Schedule -> Moment] /\ freeRuns \in [Schedule -> Nat]
  BY DEF CronInv, CronTypes
<1>2. PICK m \in [Schedule -> Moment] : m = [mapped EXCEPT ![s] = NextMatch]
  BY <1>1, TimesFacts, Moments
<1>3. m[s] # Never /\ mapped[s] # Never /\ \A r \in Schedule \ {s} : m[r] = mapped[r]
  BY <1>1, <1>2, TimesFacts, Moments DEF TaskFires
<1>4. /\ clock' = clock /\ cronOn' = cronOn /\ listed' = listed /\ stray' = stray
      /\ chainRuns' = chainRuns /\ manual' = manual /\ disturbed' = disturbed
  BY DEF TaskFires
<1>5. CASE /\ Triggers(s) /\ object' = [object EXCEPT ![s] = Ran(object[s])]
           /\ mapped' = MapAfter(s, m) /\ freeRuns' = [freeRuns EXCEPT ![s] = @ + 1]
  <2> DEFINE o == Ran(object[s])
  <2>1. /\ o \in CronObjects /\ o.max = object[s].max /\ o.skip = object[s].skip
        /\ o.count = object[s].count + 1
        /\ Expired(o) => o.status = "expired"
        /\ ~Expired(o) => o.status = object[s].status
    BY <1>1, RanFacts
  <2>2. /\ mapped' \in [Schedule -> Moment] /\ \A r \in Schedule \ {s} : mapped'[r] = m[r]
        /\ Expired(o) => mapped'[s] = Never
        /\ ~Expired(o) => mapped'[s] = m[s]
    BY <1>1, <1>5, MapAfterFacts
  <2>3. object' = [object EXCEPT ![s] = o]
    BY <1>5
  <2> HIDE DEF o
  <2>4. /\ object' \in [Schedule -> CronObjects] /\ object'[s] = o /\ freeRuns' \in [Schedule -> Nat]
        /\ \A r \in Schedule \ {s} : object'[r] = object[r]
    BY <1>1, <1>5, <2>1, <2>3
  <2>5. CronTypes'
    BY <1>1, <1>4, <2>2, <2>4 DEF CronTypes
  <2>6. object[s].status = "active" /\ object[s].count + 1 - manual[s] <= object[s].max
    BY <1>5, TriggersFacts DEF Active
  <2>7. object'[s].count - manual'[s] <= object'[s].max
    <3>1. object[s].count \in Nat /\ object[s].max \in Nat /\ manual[s] \in Nat
      BY <1>1 DEF CronTypes, CronObjects
    <3> QED
      BY <1>4, <2>1, <2>4, <2>6, <3>1
  <2>8. Kept(s)'
    <3>1. object'[s].status \in {"active", "expired"} /\ (object'[s].skip => chainRuns'[s] <= 1)
      BY <1>1, <1>4, <2>1, <2>4, <2>6 DEF Kept
    <3>2. s \in listed' /\ cronOn' /\ Active(s)' => mapped'[s] # Never
      BY <1>3, <2>1, <2>2, <2>4 DEF Active
    <3>3. mapped'[s] # Never => object'[s].status = "active"
      BY <2>1, <2>2, <2>4, <2>6
    <3>4. s \notin disturbed' =>
            /\ \A t \in Moment : stray'[s][t] = 0
            /\ chainRuns'[s] <= 1 /\ (chainRuns'[s] > 0 => s \in listed')
            /\ mapped'[s] # Never => cronOn' /\ s \in listed' /\ Active(s)' /\ chainRuns'[s] = 0
      BY <1>1, <1>3, <1>4, <3>3 DEF Kept, Active
    <3> QED
      BY <2>7, <3>1, <3>2, <3>4 DEF Kept
  <2> QED
    BY <1>3, <1>4, <2>2, <2>4, <2>5, <2>8, OthersKept DEF CronInv
<1>6. CASE mapped' = m /\ object' = object /\ freeRuns' = freeRuns
  <2>1. CronTypes'
    BY <1>1, <1>4, <1>6 DEF CronTypes
  <2>2. Kept(s)'
    BY <1>1, <1>3, <1>4, <1>6 DEF Kept, Active
  <2> QED
    BY <1>3, <1>4, <1>6, <2>1, <2>2, OthersKept DEF CronInv
<1> QED
  BY <1>2, <1>5, <1>6 DEF TaskFires

\* The execution that a chain waited for arms the next timer.
LEMMA ChainRunEndsStep == ASSUME CronInv, NEW s \in Schedule, ChainRunEnds(s) PROVE CronInv'
<1>1. /\ CronTypes /\ Kept(s) /\ SumOf(chainRuns, Schedule) <= MaxConcurrent
      /\ mapped \in [Schedule -> Moment] /\ stray \in [Schedule -> [Moment -> Nat]]
      /\ object \in [Schedule -> CronObjects] /\ chainRuns \in [Schedule -> Nat]
  BY DEF CronInv, CronTypes
<1>2. /\ chainRuns[s] > 0 /\ chainRuns' = [chainRuns EXCEPT ![s] = @ - 1]
      /\ clock' = clock /\ cronOn' = cronOn /\ listed' = listed /\ freeRuns' = freeRuns
      /\ manual' = manual /\ disturbed' = disturbed
  BY DEF ChainRunEnds
<1>3. PICK c \in [Schedule -> Nat] : c = [chainRuns EXCEPT ![s] = @ - 1]
  <2>1. chainRuns[s] - 1 \in Nat
    BY <1>1, <1>2
  <2>2. [chainRuns EXCEPT ![s] = @ - 1] \in [Schedule -> Nat]
    BY <1>1, <2>1
  <2> QED
    BY <2>2
<1>4. /\ chainRuns' = c /\ c[s] = chainRuns[s] - 1 /\ chainRuns[s] \in Nat
      /\ \A r \in Schedule \ {s} : c[r] = chainRuns[r]
      /\ SumOf(c, Schedule) <= SumOf(chainRuns, Schedule)
  BY <1>1, <1>2, <1>3, OneMore
<1>5. s \notin disturbed => mapped[s] = Never /\ chainRuns[s] = 1 /\ s \in listed
                            /\ \A t \in Moment : stray[s][t] = 0
  BY <1>1, <1>2, <1>4 DEF Kept
<1>6. PICK m \in [Schedule -> Moment] : m = mapped
  BY <1>1
<1>7. PICK w \in [Schedule -> [Moment -> Nat]] : w = stray
  BY <1>1
<1>8. CASE Rearms(s, mapped, stray) /\ object' = object
  <2>1. /\ mapped' \in [Schedule -> Moment] /\ stray' \in [Schedule -> [Moment -> Nat]]
        /\ \A r \in Schedule \ {s} : mapped'[r] = mapped[r] /\ stray'[r] = stray[r]
        /\ cronOn /\ Active(s) => mapped'[s] # Never
        /\ ~(cronOn /\ Active(s)) => mapped'[s] = mapped[s]
        /\ mapped[s] = Never => stray'[s] = stray[s]
    BY <1>1, <1>6, <1>7, <1>8, RearmsFacts
  <2>2. CronTypes'
    BY <1>1, <1>2, <1>3, <1>4, <1>8, <2>1 DEF CronTypes
  <2>3. SumOf(chainRuns', Schedule) <= MaxConcurrent
    <3>1. SumOf(chainRuns, Schedule) \in Nat /\ SumOf(c, Schedule) \in Nat
      BY <1>1, <1>3, OneMore
    <3> QED
      BY <1>1, <1>4, <3>1, CronConstants
  <2>4. Kept(s)'
    <3>1. object[s].status # "absent" /\ object[s].count - manual[s] <= object[s].max
      BY <1>1, <1>2, <1>4 DEF Kept
    <3>2. object[s].skip => c[s] <= 1
      BY <1>1, <1>4 DEF Kept
    <3> QED
      BY <1>2, <1>4, <1>5, <1>8, <2>1, <3>1, <3>2 DEF Kept, Active
  <2> QED
    BY <1>2, <1>4, <1>8, <2>1, <2>2, <2>3, <2>4, OthersKept DEF CronInv
<1>9. CASE object' = [object EXCEPT ![s].status = "expired"] /\ mapped' = mapped /\ stray' = stray
  <2>1. /\ object' \in [Schedule -> CronObjects] /\ \A r \in Schedule \ {s} : object'[r] = object[r]
        /\ object'[s].status = "expired" /\ object'[s].count = object[s].count
        /\ object'[s].max = object[s].max /\ object'[s].skip = object[s].skip
    BY <1>1, <1>9, ExpiredFacts
  <2>2. /\ mapped' = m /\ stray' = w /\ chainRuns' = c /\ c[s] <= chainRuns[s]
        /\ SumOf(c, Schedule) <= SumOf(chainRuns, Schedule)
    BY <1>4, <1>6, <1>7, <1>9
  <2>3. \A r \in Schedule \ {s} : m[r] = mapped[r] /\ w[r] = stray[r] /\ c[r] = chainRuns[r]
    BY <1>4, <1>6, <1>7
  <2>4. s \notin disturbed => m[s] = Never /\ \A t \in Moment : w[s][t] = 0
    BY <1>5, <1>6, <1>7
  <2>5. /\ clock' = clock /\ cronOn' = cronOn /\ listed' = listed /\ freeRuns' = freeRuns
        /\ manual' = manual /\ disturbed' = disturbed
    BY <1>2
  <2>6. m \in [Schedule -> Moment] /\ w \in [Schedule -> [Moment -> Nat]] /\ c \in [Schedule -> Nat]
    BY <1>3, <1>6, <1>7
  <2> QED
    BY <2>1, <2>2, <2>3, <2>4, <2>5, <2>6, ExpiresKeeps
<1> QED
  BY <1>8, <1>9 DEF ChainRunEnds

\* The other executions arm nothing.
LEMMA FreeRunEndsStep == ASSUME CronInv, NEW s \in Schedule, FreeRunEnds(s) PROVE CronInv'
<1>1. CronTypes /\ freeRuns \in [Schedule -> Nat]
  BY DEF CronInv, CronTypes
<1>2. /\ freeRuns[s] > 0 /\ freeRuns' = [freeRuns EXCEPT ![s] = @ - 1]
      /\ UNCHANGED <<clock, cronOn, object, listed, mapped, stray, chainRuns, manual, disturbed, cronCalls>>
  BY DEF FreeRunEnds
<1>3. freeRuns' \in [Schedule -> Nat]
  BY <1>1, <1>2
<1>4. CronTypes'
  BY <1>1, <1>2, <1>3 DEF CronTypes
<1> QED
  BY <1>2, <1>4 DEF CronInv, Kept, Active

\* Nothing depends on the time that has passed.
LEMMA ClockTicksStep == ASSUME CronInv, ClockTicks PROVE CronInv'
<1>1. CronTypes
  BY DEF CronInv
<1>2. /\ clock < MaxTime /\ clock' = clock + 1
      /\ UNCHANGED <<cronOn, object, listed, mapped, stray, chainRuns, freeRuns, manual, disturbed, cronCalls>>
  BY DEF ClockTicks
<1>3. clock' \in 0 .. MaxTime
  BY <1>1, <1>2, CronConstants DEF CronTypes
<1>4. CronTypes'
  BY <1>1, <1>2, <1>3 DEF CronTypes
<1> QED
  BY <1>2, <1>4 DEF CronInv, Kept, Active

\* The invariant is strong enough.
LEMMA CronInvImplies == CronInv => CronSafe
<1> SUFFICES ASSUME CronInv PROVE CronSafe
  OBVIOUS
<1>1. CronTypes /\ (\A s \in Schedule : Kept(s)) /\ SumOf(chainRuns, Schedule) <= MaxConcurrent
  BY DEF CronInv
<1>2. ASSUME NEW s \in Schedule
      PROVE  /\ Armed(s) \in Nat /\ (mapped[s] # Never => Armed(s) >= 1)
             /\ s \notin disturbed => Armed(s) = IF mapped[s] = Never THEN 0 ELSE 1
  <2>1. Armed(s) = (IF mapped[s] = Never THEN 0 ELSE 1) + SumOf(stray[s], Moment)
    BY StrayIsSum DEF Armed
  <2>2. SumOf(stray[s], Moment) \in Nat
    <3>1. \A t \in Moment : stray[s][t] \in Nat
      BY <1>1 DEF CronTypes
    <3> QED
      BY <3>1, Moments, SumFacts
  <2>3. s \notin disturbed => SumOf(stray[s], Moment) = 0
    BY <1>1, Moments, SumOfZeros DEF Kept
  <2> QED
    BY <2>1, <2>2, <2>3
<1>3. \A s \in Schedule : chainRuns[s] \in Nat
  BY <1>1 DEF CronTypes
<1>4. ActiveIsArmed
  <2> SUFFICES ASSUME NEW s \in listed, cronOn, Active(s) PROVE Armed(s) + chainRuns[s] > 0
    BY DEF ActiveIsArmed
  <2>1. s \in Schedule
    BY <1>1 DEF CronTypes
  <2>2. mapped[s] # Never \/ chainRuns[s] > 0
    BY <1>1, <2>1 DEF Kept
  <2> QED
    BY <1>2, <1>3, <2>1, <2>2
<1>5. OneChain
  <2> SUFFICES ASSUME NEW s \in Schedule, s \notin disturbed
               PROVE  /\ Armed(s) + chainRuns[s] <= 1
                      /\ Armed(s) > 0 => cronOn /\ s \in listed /\ Active(s)
    BY DEF OneChain
  <2>1. /\ Armed(s) = IF mapped[s] = Never THEN 0 ELSE 1
        /\ chainRuns[s] <= 1 /\ chainRuns[s] \in Nat
        /\ mapped[s] # Never => cronOn /\ s \in listed /\ Active(s) /\ chainRuns[s] = 0
    BY <1>1, <1>2, <1>3 DEF Kept
  <2> QED
    BY <2>1
<1>6. LimitsHold
  BY <1>1, ChainsAreSum DEF Kept, LimitsHold
<1> QED
  BY <1>4, <1>5, <1>6 DEF CronSafe

\* No schedule is forgotten, none has two chains without a reason, and none runs
\* beyond its limits, whatever the schedules, the interval, the cron's matches and
\* the limits are.
THEOREM CronIsSafe == CronSpec => []CronSafe
<1>1. CronInv /\ [CronNext]_cronVars => CronInv'
  <2> SUFFICES ASSUME CronInv, [CronNext]_cronVars PROVE CronInv'
    OBVIOUS
  <2>1. CASE UNCHANGED cronVars
    BY <2>1 DEF cronVars, CronInv, CronTypes, Kept, Active
  <2>2. CASE StartScheduler \/ StopScheduler \/ ClockTicks
    BY <2>2, StartSchedulerStep, StopSchedulerStep, ClockTicksStep
  <2>3. CASE \E s \in Schedule, kind \in {"interval", "once", "cron"}, max \in {1, 2, Unlimited},
               skip \in BOOLEAN, start \in {clock, clock + 1}, end \in {EndDate, Never} :
               AddSchedule(s, kind, max, skip, start, end)
    BY <2>3, AddScheduleStep
  <2>4. CASE \E s \in Schedule : RemoveSchedule(s) \/ ManualTrigger(s)
    BY <2>4, RemoveScheduleStep, ManualTriggerStep
  <2>5. CASE \E s \in Schedule, status \in {"active", "paused"} : UpdateStatus(s, status)
    BY <2>5, UpdateStatusStep
  <2>6. CASE \E s \in Schedule : TimerFires(s) \/ TaskFires(s) \/ ChainRunEnds(s) \/ FreeRunEnds(s)
    BY <2>6, TimerFiresStep, TaskFiresStep, ChainRunEndsStep, FreeRunEndsStep
  <2> QED
    BY <2>1, <2>2, <2>3, <2>4, <2>5, <2>6 DEF CronNext
<1> QED
  BY <1>1, CronInitInv, CronInvImplies, PTL DEF CronSpec

-----------------------------------------------------------------------------
(***************************************************************************)
(* Batches and their quota                                                 *)
(***************************************************************************)
BatchTypes ==
  /\ batch \in [at : {"loading", "rejected", "executing", "over"}, mode : Modes, failFast : BOOLEAN,
                enforced : BOOLEAN, wave : WaveSizes, workers : Parallel]
  /\ item \in [Item -> {"waiting"} \cup AtWork \cup Ended]
  /\ seen \in [Item -> [runs : Nat, steps : Nat]]
  /\ runRecords \in [Item -> {"none", "pending", "written"}]
  /\ stepRecords \in [Item -> [at : {"none", "pending", "written"}, count : 0 .. StepsOfWorkflow]]

\* How a workflow returns that was executed.
Returned == {"returned", "returned a failure"}

\* How far a workflow is, and the records of it.
Stages ==
  \A i \in Item :
    /\ batch.at \in {"loading", "rejected"} => item[i] = "waiting"
    /\ batch.at = "over" => item[i] \notin AtWork
    /\ item[i] \in {"waiting", "reading", "denied"} => runRecords[i] = "none"
    /\ runRecords[i] = "pending" => item[i] \in {"running", "failed at once"}
    /\ item[i] \notin Returned => stepRecords[i] = NoRecords
    /\ stepRecords[i].at = "none" => stepRecords[i].count = 0

\* Nobody starts before the waves in front of him have ended.
Frontier ==
  \A i, j \in Item : item[i] \notin Ended /\ WaveOf(i) < WaveOf(j) => item[j] = "waiting"

FailureStops ==
  batch.failFast /\ batch.mode # "parallel" =>
    \A i, j \in Item : Failed(i) /\ WaveOf(i) < WaveOf(j) => item[j] = "waiting"

\* The workflows that have been admitted, or are going to be.
Admissible ==
  {i \in Item : \/ runRecords[i] # "none" /\ item[i] # "failed at once"
                \/ item[i] = "reading" /\ Allowed(i)}

\* The workflows with steps that nextTick is to record, and those that return
\* before its next turn: all were at work at its last one.
Unwritten ==
  {i \in Item : stepRecords[i].at = "pending" \/ (item[i] = "running" /\ runRecords[i] = "written")}

\* The steps that a workflow has, or may yet have, in the records.
Weight == [i \in Item |-> IF item[i] = "running" \/ (item[i] = "reading" /\ Allowed(i))
                          THEN StepsOfWorkflow ELSE stepRecords[i].count]

Quotas ==
  /\ Cardinality(Busy) <= Workers /\ Cardinality(Unwritten) <= Workers
  /\ batch.enforced =>
       /\ Cardinality(Admissible) <= QuotaRuns + Workers - 1
       /\ SumOf(Weight, Item) <= QuotaSteps + StepsOfWorkflow * (2 * Workers - 1)

\* A batch that is over has left out only what is behind a failure.
NothingLeft ==
  /\ batch.at = "over" => \A i \in Item : item[i] \in Ended \/ Stopped(WaveOf(i))
  /\ batch.at = "rejected" => \A i \in Item : item[i] = "waiting" /\ runRecords[i] = "none"

BatchInv == BatchTypes /\ Stages /\ Frontier /\ FailureStops /\ NothingLeft /\ Quotas

\* The ranges of the constants, one by one.
LEMMA BatchConstants ==
  /\ Items \in Nat /\ WaveSizes \subseteq Nat \ {0} /\ Parallel \subseteq Nat \ {0}
  /\ StepsOfWorkflow \in Nat /\ QuotaRuns \in Nat /\ QuotaSteps \in Nat
  BY BatchRunsAssumption

\* The workflows of a batch are finitely many, numbered from 1.
LEMMA ItemsFinite == IsFiniteSet(Item) /\ \A i \in Item : i \in Nat \ {0}
<1>1. IsFiniteSet(1 .. Items)
  BY FS_Interval, BatchConstants
<1> QED
  BY <1>1, BatchConstants DEF Item

\* A wave's number is a quotient.
LEMMA QuotientIsNat == \A m \in Nat, n \in Nat \ {0} : m \div n \in Nat
  OBVIOUS

\* Every workflow has a wave, and every batch a worker.
LEMMA WaveIsNat ==
  ASSUME BatchTypes
  PROVE  /\ \A i \in Item : WaveOf(i) \in Nat
         /\ batch.workers \in Nat \ {0} /\ Workers \in Nat \ {0} /\ Workers <= batch.workers
<1>1. batch.mode \in Modes /\ batch.wave \in Nat \ {0} /\ batch.workers \in Nat \ {0}
  BY BatchConstants DEF BatchTypes
<1>2. ASSUME NEW i \in Item PROVE WaveOf(i) \in Nat
  <2>1. i \in Nat /\ i - 1 \in Nat
    BY ItemsFinite
  <2>2. ((i - 1) \div batch.wave) \in Nat
    BY <1>1, <2>1, QuotientIsNat
  <2>3. ((i - 1) \div batch.wave) + 1 \in Nat
    BY <2>2
  <2> QED
    BY <1>1, <2>1, <2>3 DEF WaveOf, Modes
<1> QED
  BY <1>1, <1>2 DEF Workers

\* The sets that are counted are finite.
LEMMA BusyFinite ==
  ASSUME BatchTypes
  PROVE  /\ IsFiniteSet(Busy) /\ Cardinality(Busy) \in Nat
         /\ IsFiniteSet(Unwritten) /\ Cardinality(Unwritten) \in Nat
         /\ \A S \in SUBSET Item : IsFiniteSet(S) /\ Cardinality(S) \in Nat
  BY ItemsFinite, FS_Subset, FS_CardinalityType DEF Busy, Unwritten

\* What the records of the workflows of T add up to.
LEMMA TotalIsSum ==
  ASSUME NEW T \in SUBSET Item
  PROVE  Total(T) = SumOf([i \in Item |-> stepRecords[i].count], T)
<1> DEFINE f == [i \in Item |-> stepRecords[i].count]
           P(h) == h = [s \in SUBSET T |-> IF s = {} THEN 0 ELSE stepRecords[Pick(s)].count + h[s \ {Pick(s)}]]
           m == CHOOSE h : P(h)
           n == CHOOSE h : Adds(h, f, T)
<1>1. IsFiniteSet(T)
  BY ItemsFinite, FS_Subset
<1>2. \A h : P(h) <=> Adds(h, f, T)
  <2>1. \A s \in SUBSET T : s # {} => f[Pick(s)] = stepRecords[Pick(s)].count
    BY PickIn
  <2> HIDE DEF f
  <2> QED
    BY <2>1 DEF Adds
<1>3. Total(T) = m[T]
  BY DEF Total, MapThenSumSet, MapThenFoldSet, Pick
<1>4. P(m)
  <2>1. \E h : P(h)
    <3> HIDE DEF P
    <3> QED
      BY <1>1, <1>2, AddsExists
  <2> HIDE DEF P
  <2> QED
    BY <2>1
<1>5. Adds(n, f, T)
  BY <1>1, AddsExists
<1>6. m[T] = n[T]
  <2> HIDE DEF m, n, P
  <2>1. Adds(m, f, T)
    BY <1>2, <1>4
  <2> HIDE DEF f
  <2> QED
    BY <1>1, <1>5, <2>1, AddsAgree
<1> QED
  BY <1>3, <1>6 DEF SumOf

\* What a workflow may have in the records is no more than its steps.
LEMMA WeightFacts ==
  ASSUME BatchTypes
  PROVE  /\ DOMAIN Weight = Item
         /\ \A i \in Item : Weight[i] \in 0 .. StepsOfWorkflow /\ Weight[i] \in Nat /\ stepRecords[i].count \in Nat
  BY BatchConstants DEF BatchTypes, Weight

\* What only ends or is written takes no more of the quotas.
LEMMA QuotasKept ==
  ASSUME BatchTypes, BatchTypes', Quotas, Workers' = Workers, batch'.enforced = batch.enforced,
         Busy' \subseteq Busy, Unwritten' \subseteq Unwritten, Admissible' \subseteq Admissible,
         \A i \in Item : Weight'[i] <= Weight[i]
  PROVE  Quotas'
<1>1. Workers \in Nat
  BY WaveIsNat
<1>2. IsFiniteSet(Busy) /\ IsFiniteSet(Unwritten) /\ IsFiniteSet(Admissible)
  BY BusyFinite DEF Admissible
<1>3. /\ Cardinality(Busy') <= Cardinality(Busy) /\ Cardinality(Unwritten') <= Cardinality(Unwritten)
      /\ Cardinality(Admissible') <= Cardinality(Admissible)
  BY <1>2, FS_Subset
<1>4. SumOf(Weight', Item) <= SumOf(Weight, Item)
  <2>1. \A i \in Item : Weight[i] \in Nat /\ Weight'[i] \in Nat
    <3>1. \A i \in Item : Weight'[i] \in Nat
      BY WeightFacts, BatchConstants DEF BatchTypes, Weight
    <3> QED
      BY <3>1, WeightFacts
  <2> QED
    BY <2>1, ItemsFinite, SumMonotone
<1>5. /\ Cardinality(Busy) \in Nat /\ Cardinality(Busy') \in Nat
      /\ Cardinality(Unwritten) \in Nat /\ Cardinality(Unwritten') \in Nat
      /\ Cardinality(Admissible) \in Nat /\ Cardinality(Admissible') \in Nat
  BY <1>2, FS_Subset, FS_CardinalityType
<1>6. SumOf(Weight, Item) \in Nat /\ SumOf(Weight', Item) \in Nat
  <2>1. \A i \in Item : Weight[i] \in Nat /\ Weight'[i] \in Nat
    BY WeightFacts, BatchConstants DEF BatchTypes, Weight
  <2> QED
    BY <2>1, ItemsFinite, SumFacts
<1>7. StepsOfWorkflow * (2 * Workers - 1) \in Int
  BY <1>1, BatchConstants
<1>8. Cardinality(Busy') <= Workers /\ Cardinality(Unwritten') <= Workers
  BY <1>1, <1>3, <1>5 DEF Quotas
<1>9. ASSUME batch.enforced
      PROVE  /\ Cardinality(Admissible') <= QuotaRuns + Workers - 1
             /\ SumOf(Weight', Item) <= QuotaSteps + StepsOfWorkflow * (2 * Workers - 1)
  <2>1. /\ Cardinality(Admissible) <= QuotaRuns + Workers - 1
        /\ SumOf(Weight, Item) <= QuotaSteps + StepsOfWorkflow * (2 * Workers - 1)
    BY <1>9 DEF Quotas
  <2>2. Cardinality(Admissible') <= QuotaRuns + Workers - 1
    BY <1>1, <1>3, <1>5, <2>1, BatchConstants
  <2> DEFINE c == StepsOfWorkflow * (2 * Workers - 1)
  <2>3. c \in Int /\ SumOf(Weight, Item) <= QuotaSteps + c
    BY <1>7, <2>1
  <2> HIDE DEF c
  <2>4. SumOf(Weight', Item) <= QuotaSteps + c
    BY <1>4, <1>6, <2>3, BatchConstants
  <2> QED
    BY <2>2, <2>4 DEF c
<1> QED
  BY <1>8, <1>9 DEF Quotas

\* Quotas of nothing.
LEMMA NothingAtWork ==
  ASSUME NEW w \in Nat \ {0}
  PROVE  /\ Cardinality({}) <= w /\ Cardinality({}) <= QuotaRuns + w - 1
         /\ 0 <= QuotaSteps + StepsOfWorkflow * (2 * w - 1)
<1>1. Cardinality({}) = 0
  BY FS_EmptySet
<1>2. 2 * w - 1 \in Nat
  OBVIOUS
<1>3. StepsOfWorkflow * (2 * w - 1) \in Nat
  BY <1>2, BatchConstants, ProductIsNat
<1> QED
  BY <1>1, <1>3, BatchConstants

\* Nothing is at work and nothing is recorded.
LEMMA BatchInitInv == BatchInit => BatchInv
<1> SUFFICES ASSUME BatchInit PROVE BatchInv
  OBVIOUS
<1>1. PICK failFast \in BOOLEAN, enforced \in BOOLEAN, wave \in WaveSizes, workers \in Parallel :
        batch = [at |-> "loading", mode |-> "sequential", failFast |-> failFast,
                 enforced |-> enforced, wave |-> wave, workers |-> workers]
  BY DEF BatchInit
<1>2. BatchTypes
  BY <1>1, BatchConstants DEF BatchInit, BatchTypes, Modes, NoRecords
<1>3. Stages /\ Frontier /\ FailureStops /\ NothingLeft
  BY <1>1 DEF BatchInit, Stages, Frontier, FailureStops, NothingLeft, AtWork, NoRecords, Failed
<1>4. Busy = {} /\ Unwritten = {} /\ Admissible = {} /\ \A i \in Item : Weight[i] = 0
  BY DEF BatchInit, Busy, Unwritten, Admissible, Weight, AtWork, NoRecords
<1>5. Quotas
  <2>1. SumOf(Weight, Item) = 0
    BY <1>4, ItemsFinite, SumOfZeros
  <2> QED
    BY <1>2, <1>4, <2>1, WaveIsNat, NothingAtWork DEF Quotas
<1> QED
  BY <1>2, <1>3, <1>5 DEF BatchInv

\* Loading executes nothing yet, whether it ends well or not.
LEMMA PreloadStep ==
  ASSUME BatchInv, NEW explicit \in Modes \cup {"none"}, NEW declared \in [Item -> Modes \cup {"none"}],
         NEW invalid \in BOOLEAN, Preload(explicit, declared, invalid)
  PROVE  BatchInv'
<1>1. BatchTypes /\ Stages
  BY DEF BatchInv
<1>2. /\ batch.at = "loading" /\ item' = item /\ seen' = seen /\ runRecords' = runRecords
      /\ stepRecords' = stepRecords
      /\ batch' = IF invalid THEN [batch EXCEPT !.at = "rejected"]
                  ELSE [batch EXCEPT !.at = "executing", !.mode = ResolvedMode(explicit, declared)]
  BY DEF Preload
<1>3. ResolvedMode(explicit, declared) \in Modes
  <2> DEFINE modes == {declared[i] : i \in Item} \cap Modes
  <2>1. modes \subseteq Modes /\ (modes # {} => (CHOOSE m \in modes : TRUE) \in modes)
    OBVIOUS
  <2> HIDE DEF modes
  <2>2. ResolvedMode(explicit, declared) =
          IF explicit \in Modes THEN explicit
          ELSE IF modes = {} THEN "sequential"
          ELSE IF Cardinality(modes) = 1 THEN CHOOSE m \in modes : TRUE
          ELSE "mixed"
    BY DEF ResolvedMode, modes
  <2> QED
    BY <2>1, <2>2 DEF Modes
<1>4. /\ batch' \in [at : {"loading", "rejected", "executing", "over"}, mode : Modes, failFast : BOOLEAN,
                     enforced : BOOLEAN, wave : WaveSizes, workers : Parallel]
      /\ batch'.at \in {"rejected", "executing"}
  BY <1>1, <1>2, <1>3 DEF BatchTypes
<1>5. BatchTypes'
  BY <1>1, <1>2, <1>4 DEF BatchTypes
<1>6. \A i \in Item : item[i] = "waiting" /\ runRecords[i] = "none" /\ stepRecords[i] = NoRecords
  BY <1>1, <1>2 DEF Stages, Returned
<1>7. Stages' /\ Frontier' /\ FailureStops' /\ NothingLeft'
  <2>1. \A i \in Item : item'[i] = "waiting" /\ runRecords'[i] = "none" /\ stepRecords'[i] = NoRecords
    BY <1>2, <1>6
  <2>2. Stages'
    <3>1. \A i \in Item : stepRecords'[i].count = 0
      BY <2>1 DEF NoRecords
    <3>2. batch'.at # "over"
      BY <1>4
    <3> QED
      BY <2>1, <3>1, <3>2 DEF Stages
  <2>3. Frontier' /\ FailureStops'
    BY <2>1 DEF Frontier, FailureStops
  <2>4. NothingLeft'
    BY <1>4, <2>1 DEF NothingLeft
  <2> QED
    BY <2>2, <2>3, <2>4
<1>8. Busy' = {} /\ Unwritten' = {} /\ Admissible' = {} /\ \A i \in Item : Weight'[i] = 0
  <2>1. \A i \in Item : /\ item'[i] = "waiting" /\ runRecords'[i] = "none"
                        /\ stepRecords'[i].at = "none" /\ stepRecords'[i].count = 0
    BY <1>2, <1>6 DEF NoRecords
  <2> QED
    BY <2>1 DEF Busy, Unwritten, Admissible, Weight, AtWork
<1>9. Quotas'
  <2>1. SumOf(Weight', Item) = 0
    BY <1>8, ItemsFinite, SumOfZeros
  <2>2. Workers' \in Nat \ {0}
    <3>1. batch'.workers \in Nat \ {0}
      BY <1>4, BatchConstants
    <3> QED
      BY <3>1 DEF Workers
  <2> QED
    BY <1>8, <2>1, <2>2, NothingAtWork DEF Quotas
<1> QED
  BY <1>5, <1>7, <1>9 DEF BatchInv

\* A quota check that comes too late is denied; one that does not has read what
\* was admitted but by the workers at work, and the steps but for those of the
\* workers at work and of the runs nextTick has not recorded.
LEMMA TakesKeepsQuotas ==
  ASSUME BatchInv, BatchTypes', NEW i \in Item, Takes(i)
  PROVE  Quotas'
<1>1. BatchTypes /\ Stages /\ Quotas
  BY DEF BatchInv
<1> DEFINE runsWritten == {j \in Item : runRecords[j] = "written"}
           stepsWritten == {j \in Item : stepRecords[j].at = "written"}
<1>2. /\ batch' = batch /\ runRecords' = runRecords /\ stepRecords' = stepRecords
      /\ item' = [item EXCEPT ![i] = "reading"]
      /\ seen' = [seen EXCEPT ![i] = [runs |-> Cardinality(runsWritten), steps |-> Total(stepsWritten)]]
      /\ item[i] = "waiting" /\ Cardinality(Busy) < Workers
  BY DEF Takes
<1> HIDE DEF runsWritten, stepsWritten
<1>3. /\ \A j \in Item : item'[j] = IF j = i THEN "reading" ELSE item[j]
      /\ \A j \in Item : j # i => seen'[j] = seen[j]
      /\ seen'[i].runs = Cardinality(runsWritten) /\ seen'[i].steps = Total(stepsWritten)
  BY <1>1, <1>2 DEF BatchTypes
<1>4. runRecords[i] = "none" /\ stepRecords[i] = NoRecords /\ stepRecords[i].count = 0
  <2>1. runRecords[i] = "none" /\ stepRecords[i] = NoRecords
    BY <1>1, <1>2 DEF Stages, Returned
  <2> QED
    BY <2>1 DEF NoRecords
<1>5. /\ Workers \in Nat \ {0} /\ Workers' = Workers /\ batch'.enforced = batch.enforced
      /\ \A j \in Item : j # i => (Allowed(j)' <=> Allowed(j))
  <2>1. Workers \in Nat \ {0}
    BY <1>1, WaveIsNat
  <2> QED
    BY <1>2, <1>3, <2>1 DEF Workers, Allowed
<1>6. /\ Busy' = Busy \cup {i} /\ i \notin Busy /\ Unwritten' = Unwritten
  <2>1. Busy' = Busy \cup {i} /\ i \notin Busy
    BY <1>2, <1>3 DEF Busy, AtWork
  <2>2. Unwritten' = Unwritten
    BY <1>2, <1>3, <1>4 DEF Unwritten, NoRecords
  <2> QED
    BY <2>1, <2>2
<1>7. /\ Cardinality(Busy') <= Workers /\ Cardinality(Unwritten') <= Workers
      /\ IsFiniteSet(Busy') /\ IsFiniteSet(Unwritten')
      /\ Cardinality(Busy') \in Nat /\ Cardinality(Unwritten') \in Nat
  <2>1. Cardinality(Busy') = Cardinality(Busy) + 1
    BY <1>1, <1>6, BusyFinite, FS_AddElement
  <2>2. IsFiniteSet(Busy) /\ IsFiniteSet(Unwritten) /\ Cardinality(Busy) \in Nat /\ Cardinality(Unwritten) \in Nat
    BY <1>1, BusyFinite
  <2>3. IsFiniteSet(Busy')
    BY <1>6, <2>2, FS_AddElement
  <2> QED
    BY <1>1, <1>2, <1>5, <1>6, <2>1, <2>2, <2>3 DEF Quotas
<1>8. CASE ~Allowed(i)'
  <2>1. Admissible' = Admissible
    BY <1>2, <1>3, <1>4, <1>5, <1>8 DEF Admissible
  <2>2. \A j \in Item : Weight'[j] = Weight[j]
    BY <1>2, <1>3, <1>4, <1>5, <1>8 DEF Weight
  <2>3. SumOf(Weight', Item) = SumOf(Weight, Item)
    BY <2>2, ItemsFinite, SumCongruent
  <2> QED
    BY <1>1, <1>5, <1>7, <2>1, <2>3 DEF Quotas
<1>9. CASE batch.enforced /\ Allowed(i)'
  <2>1. /\ seen'[i].runs + 1 <= QuotaRuns /\ seen'[i].steps + StepsOfWorkflow <= QuotaSteps
    BY <1>2, <1>9 DEF Allowed
  <2>2. Cardinality(Admissible') <= QuotaRuns + Workers - 1
    <3>1. Admissible' \subseteq runsWritten \cup Busy'
      BY <1>1, <1>2, <1>3 DEF Admissible, BatchTypes, Stages, Busy, AtWork, runsWritten
    <3>2. IsFiniteSet(runsWritten) /\ Cardinality(runsWritten) \in Nat
      BY <1>1, BusyFinite DEF runsWritten
    <3>3. /\ IsFiniteSet(runsWritten \cup Busy')
          /\ Cardinality(runsWritten \cup Busy') <= Cardinality(runsWritten) + Cardinality(Busy')
      <4>1. IsFiniteSet(runsWritten \cup Busy')
        BY <1>7, <3>2, FS_Union
      <4>2. /\ Cardinality(runsWritten \cup Busy') =
                 Cardinality(runsWritten) + Cardinality(Busy') - Cardinality(runsWritten \cap Busy')
            /\ Cardinality(runsWritten \cap Busy') \in Nat
        BY <1>7, <3>2, FS_Union, FS_Intersection, FS_CardinalityType
      <4> QED
        BY <1>7, <3>2, <4>1, <4>2
    <3>4. /\ Cardinality(Admissible') <= Cardinality(runsWritten \cup Busy')
          /\ Cardinality(Admissible') \in Nat /\ Cardinality(runsWritten \cup Busy') \in Nat
      BY <3>1, <3>3, FS_Subset, FS_CardinalityType
    <3> QED
      BY <1>3, <1>5, <1>7, <2>1, <3>2, <3>3, <3>4, BatchConstants
  <2>3. SumOf(Weight', Item) <= QuotaSteps + StepsOfWorkflow * (2 * Workers - 1)
    <3>0. \A j \in Item : Weight'[j] \in Nat /\ Weight'[j] <= StepsOfWorkflow
      <4>1. \A j \in Item : stepRecords'[j].count \in 0 .. StepsOfWorkflow
        BY DEF BatchTypes
      <4> QED
        BY <4>1, BatchConstants DEF Weight
    <3> DEFINE X == Item \ (Busy' \cup Unwritten)
               n == Cardinality(Item \ X)
               w == Weight'
    <3>1. \A j \in Item : w[j] \in Nat /\ w[j] <= StepsOfWorkflow
      BY <3>0
    <3>a. ASSUME NEW j \in stepsWritten
          PROVE  /\ j \in Item /\ item'[j] \in Returned /\ stepRecords[j].at = "written"
                 /\ j \notin Busy' /\ j \notin Unwritten
      <4>1. j \in Item /\ stepRecords[j].at = "written"
        BY DEF stepsWritten
      <4>2. stepRecords[j] # NoRecords
        BY <4>1 DEF NoRecords
      <4>3. item[j] \in Returned
        BY <1>1, <4>1, <4>2 DEF Stages
      <4>4. item'[j] \in Returned
        BY <1>2, <1>3, <4>1, <4>3 DEF Returned
      <4> QED
        BY <4>1, <4>3, <4>4 DEF Busy, Unwritten, AtWork, Returned
    <3>2. stepsWritten \in SUBSET X
      BY <3>a
    <3>3. \A j \in X \ stepsWritten : w[j] = 0
      <4> SUFFICES ASSUME NEW j \in X \ stepsWritten PROVE Weight'[j] = 0
        OBVIOUS
      <4>1. j \in Item /\ j \notin Busy' /\ j \notin Unwritten
        OBVIOUS
      <4>2. item'[j] \notin AtWork /\ stepRecords[j].at # "pending" /\ stepRecords[j].at # "written"
        BY <4>1 DEF stepsWritten, Unwritten, Busy
      <4>3. stepRecords[j].at = "none"
        BY <1>1, <4>1, <4>2 DEF BatchTypes
      <4>4. stepRecords[j].count = 0
        BY <1>1, <4>1, <4>3 DEF Stages
      <4> QED
        BY <1>2, <4>1, <4>2, <4>4 DEF Weight, AtWork
    <3>4. \A j \in stepsWritten : w[j] = [k \in Item |-> stepRecords[k].count][j]
      <4>1. \A j \in stepsWritten : Weight'[j] = stepRecords[j].count
        BY <1>2, <3>a DEF Weight, Returned
      <4> QED
        BY <3>a, <4>1
    <3>5. IsFiniteSet(Item) /\ X \in SUBSET Item /\ IsFiniteSet(X) /\ IsFiniteSet(stepsWritten)
      BY <3>2, ItemsFinite, FS_Subset
    <3>6. n \in Nat /\ n <= 2 * Workers
      <4>1. Item \ X = Busy' \cup Unwritten
        BY <1>6 DEF Busy, Unwritten
      <4>2. /\ Cardinality(Busy' \cup Unwritten) =
                 Cardinality(Busy') + Cardinality(Unwritten) - Cardinality(Busy' \cap Unwritten)
            /\ Cardinality(Busy' \cap Unwritten) \in Nat /\ Cardinality(Busy' \cup Unwritten) \in Nat
        BY <1>6, <1>7, FS_Union, FS_Intersection, FS_CardinalityType
      <4>3. Cardinality(Unwritten) \in Nat /\ Cardinality(Unwritten) <= Workers
        BY <1>6, <1>7
      <4>4. n = Cardinality(Busy' \cup Unwritten)
        BY <4>1
      <4> HIDE DEF n, X
      <4> QED
        BY <1>5, <1>7, <4>2, <4>3, <4>4
    <3> HIDE DEF X, n, w
    <3>7. SumOf(w, Item) <= SumOf(w, X) + StepsOfWorkflow * n
      BY <3>1, <3>5, BatchConstants, SumAtMost DEF n
    <3>8. SumOf(w, X) <= SumOf(w, stepsWritten) + 0 * Cardinality(X \ stepsWritten)
      <4>1. (\A j \in X : w[j] \in Nat) /\ (\A j \in X \ stepsWritten : w[j] <= 0)
        BY <3>1, <3>3, <3>5
      <4> QED
        BY <3>2, <3>5, <4>1, SumAtMost
    <3>9. SumOf(w, stepsWritten) = Total(stepsWritten)
      <4>1. stepsWritten \in SUBSET Item
        BY DEF stepsWritten
      <4>2. Total(stepsWritten) = SumOf([k \in Item |-> stepRecords[k].count], stepsWritten)
        BY <4>1, TotalIsSum
      <4> QED
        BY <3>4, <3>5, <4>2, SumCongruent
    <3>10. SumOf(w, X) \in Nat /\ SumOf(w, Item) \in Nat /\ SumOf(w, stepsWritten) \in Nat
           /\ Cardinality(X \ stepsWritten) \in Nat
      <4>1. \A j \in X : w[j] \in Nat
        BY <3>1, <3>5
      <4>2. \A j \in stepsWritten : w[j] \in Nat
        BY <3>2, <4>1
      <4>3. Cardinality(X \ stepsWritten) \in Nat
        BY <3>5, FS_Subset, FS_CardinalityType
      <4> QED
        BY <3>1, <3>5, <4>1, <4>2, <4>3, SumFacts
    <3>11. /\ StepsOfWorkflow * n \in Nat
           /\ StepsOfWorkflow * n <= StepsOfWorkflow * (2 * Workers - 1) + StepsOfWorkflow
           /\ StepsOfWorkflow * (2 * Workers - 1) \in Int
      <4>1. \A c, a, b \in Nat : b <= 2 * a => /\ c * b \in Nat /\ c * (2 * a - 1) \in Int
                                              /\ c * b <= c * (2 * a - 1) + c
        BY ProductGrows
      <4> QED
        BY <1>5, <3>6, <4>1, BatchConstants
    <3>12. 0 * Cardinality(X \ stepsWritten) = 0
      BY <3>10
    <3>13. SumOf(w, stepsWritten) + StepsOfWorkflow <= QuotaSteps
      BY <1>3, <2>1, <3>9
    <3> DEFINE c == StepsOfWorkflow * (2 * Workers - 1)
               m == StepsOfWorkflow * n
    <3>14. m \in Nat /\ m <= c + StepsOfWorkflow /\ c \in Int /\ SumOf(w, Item) <= SumOf(w, X) + m
      BY <3>7, <3>11
    <3>15. SumOf(w, X) <= SumOf(w, stepsWritten)
      BY <3>8, <3>10, <3>12
    <3> HIDE DEF c, m
    <3>16. SumOf(w, Item) <= QuotaSteps + c
      BY <3>10, <3>13, <3>14, <3>15, BatchConstants
    <3> QED
      BY <3>16 DEF c, w
  <2> QED
    BY <1>5, <1>7, <2>2, <2>3 DEF Quotas
<1>10. CASE ~batch.enforced
  BY <1>5, <1>7, <1>10 DEF Quotas
<1> QED
  BY <1>8, <1>9, <1>10

\* Whoever is taken is in the first wave that has not ended.
LEMMA TakesStep ==
  ASSUME BatchInv, NEW i \in Item, Takes(i)
  PROVE  BatchInv'
<1>1. BatchTypes /\ Stages /\ Frontier /\ FailureStops
  BY DEF BatchInv
<1> DEFINE runsWritten == {j \in Item : runRecords[j] = "written"}
           stepsWritten == {j \in Item : stepRecords[j].at = "written"}
<1>2. /\ batch' = batch /\ runRecords' = runRecords /\ stepRecords' = stepRecords
      /\ item' = [item EXCEPT ![i] = "reading"]
      /\ seen' = [seen EXCEPT ![i] = [runs |-> Cardinality(runsWritten), steps |-> Total(stepsWritten)]]
      /\ item[i] = "waiting" /\ batch.at = "executing" /\ Reached(WaveOf(i))
  BY DEF Takes
<1>3. Cardinality(runsWritten) \in Nat /\ Total(stepsWritten) \in Nat
  <2>1. Cardinality(runsWritten) \in Nat
    BY <1>1, BusyFinite
  <2> HIDE DEF stepsWritten
  <2>2. stepsWritten \in SUBSET Item /\ IsFiniteSet(stepsWritten)
    BY <1>1, BusyFinite DEF stepsWritten
  <2>3. \A j \in stepsWritten : [k \in Item |-> stepRecords[k].count][j] \in Nat
    BY <1>1, <2>2, WeightFacts
  <2>4. Total(stepsWritten) = SumOf([k \in Item |-> stepRecords[k].count], stepsWritten)
    BY <2>2, TotalIsSum
  <2> QED
    BY <2>1, <2>2, <2>3, <2>4, SumFacts
<1> HIDE DEF runsWritten, stepsWritten
<1>4. BatchTypes'
  BY <1>1, <1>2, <1>3 DEF BatchTypes, AtWork
<1>5. /\ \A j \in Item : item'[j] = IF j = i THEN "reading" ELSE item[j]
      /\ \A j \in Item : WaveOf(j)' = WaveOf(j) /\ WaveOf(j) \in Nat
  <2>1. \A j \in Item : item'[j] = IF j = i THEN "reading" ELSE item[j]
    BY <1>1, <1>2 DEF BatchTypes
  <2>2. \A j \in Item : WaveOf(j)' = WaveOf(j)
    BY <1>2 DEF WaveOf
  <2> QED
    BY <1>1, <2>1, <2>2, WaveIsNat
<1>6. /\ \A j \in Item : WaveOf(j) < WaveOf(i) => item[j] \in Ended
      /\ ~Stopped(WaveOf(i))
  BY <1>2 DEF Reached
<1>7. Stages'
  BY <1>1, <1>2, <1>5 DEF Stages, Returned
<1>8. Frontier'
  <2> SUFFICES ASSUME NEW a \in Item, NEW b \in Item, item'[a] \notin Ended, WaveOf(a) < WaveOf(b)
               PROVE  item'[b] = "waiting"
    BY <1>5 DEF Frontier
  <2>1. item[a] \notin Ended
    BY <1>2, <1>5 DEF Ended
  <2>2. b # i
    BY <1>6, <2>1
  <2>3. item[b] = "waiting"
    BY <1>1, <2>1 DEF Frontier
  <2> QED
    BY <1>5, <2>2, <2>3
<1>9. FailureStops'
  <2> SUFFICES ASSUME batch.failFast, batch.mode # "parallel",
                      NEW a \in Item, NEW b \in Item, Failed(a)', WaveOf(a) < WaveOf(b)
               PROVE  item'[b] = "waiting"
    BY <1>2, <1>5 DEF FailureStops
  <2>1. Failed(a)
    BY <1>5 DEF Failed
  <2>2. b # i
    BY <1>6, <2>1 DEF Stopped
  <2>3. item[b] = "waiting"
    BY <1>1, <2>1 DEF FailureStops
  <2> QED
    BY <1>5, <2>2, <2>3
<1>10. NothingLeft'
  BY <1>2 DEF NothingLeft
<1> QED
  BY <1>4, <1>7, <1>8, <1>9, <1>10, TakesKeepsQuotas DEF BatchInv

\* Whoever is at work goes on or ends: nobody else may start by that.
LEMMA ItemMoves ==
  ASSUME BatchInv, BatchTypes', batch' = batch, NEW i \in Item, item[i] \in AtWork,
         NEW entry \in {"running"} \cup Ended, item' = [item EXCEPT ![i] = entry]
  PROVE  /\ Frontier' /\ FailureStops' /\ NothingLeft'
         /\ Workers' = Workers /\ batch'.enforced = batch.enforced /\ Busy' \subseteq Busy
         /\ \A j \in Item : item'[j] = IF j = i THEN entry ELSE item[j]
         /\ batch.at = "executing"
<1>1. BatchTypes /\ Stages /\ Frontier /\ FailureStops
  BY DEF BatchInv
<1>2. \A j \in Item : item'[j] = IF j = i THEN entry ELSE item[j]
  BY <1>1 DEF BatchTypes
<1>3. \A j \in Item : WaveOf(j)' = WaveOf(j)
  BY DEF WaveOf
<1>4. batch.at = "executing"
  BY <1>1 DEF BatchTypes, Stages, AtWork
<1>5. item[i] \notin Ended /\ item[i] # "waiting" /\ entry # "waiting"
  BY DEF AtWork, Ended
<1>6. Frontier'
  <2> SUFFICES ASSUME NEW a \in Item, NEW b \in Item, item'[a] \notin Ended, WaveOf(a) < WaveOf(b)
               PROVE  item'[b] = "waiting"
    BY <1>3 DEF Frontier
  <2>1. item[a] \notin Ended
    BY <1>2, <1>5
  <2>2. item[b] = "waiting"
    BY <1>1, <2>1 DEF Frontier
  <2> QED
    BY <1>2, <1>5, <2>2
<1>7. FailureStops'
  <2> SUFFICES ASSUME batch.failFast, batch.mode # "parallel",
                      NEW a \in Item, NEW b \in Item, Failed(a)', WaveOf(a) < WaveOf(b)
               PROVE  item'[b] = "waiting"
    BY <1>3 DEF FailureStops
  <2>1. item[b] = "waiting"
    <3>1. CASE a = i
      BY <1>1, <1>5, <3>1 DEF Frontier
    <3>2. CASE a # i
      BY <1>1, <1>2, <3>2 DEF Failed, FailureStops
    <3> QED
      BY <3>1, <3>2
  <2> QED
    BY <1>2, <1>5, <2>1
<1>8. NothingLeft'
  BY <1>4 DEF NothingLeft
<1>9. Busy' \subseteq Busy /\ Workers' = Workers
  BY <1>2 DEF Busy, Workers
<1> QED
  BY <1>2, <1>4, <1>6, <1>7, <1>8, <1>9

\* An admitted workflow was counted when its check read the usage.
LEMMA DecidesStep ==
  ASSUME BatchInv, NEW i \in Item, Decides(i)
  PROVE  BatchInv'
<1>1. BatchTypes /\ Stages /\ Quotas
  BY DEF BatchInv
<1>2. item[i] = "reading" /\ batch' = batch /\ seen' = seen /\ stepRecords' = stepRecords
  BY DEF Decides
<1>3. /\ Allowed(i) => /\ item' = [item EXCEPT ![i] = "running"]
                      /\ runRecords' = [runRecords EXCEPT ![i] = "pending"]
      /\ ~Allowed(i) => item' = [item EXCEPT ![i] = "denied"] /\ runRecords' = runRecords
  BY DEF Decides
<1> DEFINE entry == IF Allowed(i) THEN "running" ELSE "denied"
<1>4. entry \in {"running"} \cup Ended /\ item' = [item EXCEPT ![i] = entry]
  BY <1>3 DEF Ended
<1>5. \A j \in Item : runRecords'[j] = IF j = i /\ Allowed(i) THEN "pending" ELSE runRecords[j]
  BY <1>1, <1>3 DEF BatchTypes
<1>6. BatchTypes'
  <2>1. item' \in [Item -> {"waiting"} \cup AtWork \cup Ended]
    BY <1>1, <1>4 DEF BatchTypes, AtWork
  <2>2. runRecords' \in [Item -> {"none", "pending", "written"}]
    BY <1>1, <1>3 DEF BatchTypes
  <2> QED
    BY <1>1, <1>2, <2>1, <2>2 DEF BatchTypes
<1>7. item[i] \in AtWork
  BY <1>2 DEF AtWork
<1> HIDE DEF entry
<1>8. /\ Frontier' /\ FailureStops' /\ NothingLeft'
      /\ Workers' = Workers /\ batch'.enforced = batch.enforced /\ Busy' \subseteq Busy
      /\ \A j \in Item : item'[j] = IF j = i THEN entry ELSE item[j]
      /\ batch.at = "executing"
  BY <1>2, <1>4, <1>6, <1>7, ItemMoves
<1>9. runRecords[i] = "none" /\ stepRecords[i] = NoRecords /\ stepRecords[i].at = "none" /\ stepRecords[i].count = 0
  <2>1. runRecords[i] = "none" /\ stepRecords[i] = NoRecords
    BY <1>1, <1>2 DEF Stages, Returned
  <2> QED
    BY <2>1 DEF NoRecords
<1>10. Stages'
  BY <1>1, <1>2, <1>5, <1>8, <1>9 DEF Stages, entry
<1>11. \A j \in Item : Allowed(j)' <=> Allowed(j)
  BY <1>2 DEF Allowed
<1>12. Admissible' \subseteq Admissible /\ Unwritten' \subseteq Unwritten
  <2>1. Admissible' \subseteq Admissible
    BY <1>2, <1>5, <1>8, <1>11 DEF Admissible, entry
  <2>2. Unwritten' \subseteq Unwritten
    BY <1>2, <1>5, <1>8, <1>9 DEF Unwritten, entry
  <2> QED
    BY <2>1, <2>2
<1>13. \A j \in Item : Weight'[j] <= Weight[j]
  <2>1. \A j \in Item : Weight[j] \in Nat /\ stepRecords[j].count \in Nat
    BY <1>1, WeightFacts
  <2>2. \A j \in Item : j # i => Weight'[j] = Weight[j]
    BY <1>2, <1>8, <1>11 DEF Weight
  <2>3. Weight'[i] = Weight[i]
    BY <1>2, <1>8, <1>9, <1>11 DEF Weight, entry
  <2> QED
    BY <2>1, <2>2, <2>3
<1>14. Quotas'
  BY <1>1, <1>6, <1>8, <1>12, <1>13, QuotasKept
<1> QED
  BY <1>6, <1>8, <1>10, <1>14 DEF BatchInv

\* What nextTick records is counted already; what is left unwritten is at work.
LEMMA RecordsAreWrittenStep ==
  ASSUME BatchInv, RecordsAreWritten
  PROVE  BatchInv'
<1>1. BatchTypes /\ Stages /\ Frontier /\ FailureStops /\ NothingLeft /\ Quotas
  BY DEF BatchInv
<1>2. batch' = batch /\ item' = item /\ seen' = seen
  BY DEF RecordsAreWritten
<1>3. \A i \in Item : runRecords'[i] = IF runRecords[i] = "pending" THEN "written" ELSE runRecords[i]
  BY DEF RecordsAreWritten
<1>4. \A i \in Item :
        /\ stepRecords'[i].at = IF stepRecords[i].at = "pending" THEN "written" ELSE stepRecords[i].at
        /\ stepRecords'[i].count = stepRecords[i].count
        /\ stepRecords[i].at # "pending" => stepRecords'[i] = stepRecords[i]
  BY <1>1 DEF RecordsAreWritten, BatchTypes
<1>5. BatchTypes'
  <2>1. runRecords' \in [Item -> {"none", "pending", "written"}]
    <3>1. runRecords' = [i \in Item |-> IF runRecords[i] = "pending" THEN "written" ELSE runRecords[i]]
      BY DEF RecordsAreWritten
    <3> QED
      BY <1>1, <3>1 DEF BatchTypes
  <2>2. stepRecords' \in [Item -> [at : {"none", "pending", "written"}, count : 0 .. StepsOfWorkflow]]
    <3> DEFINE After(i) == IF stepRecords[i].at = "pending"
                           THEN [stepRecords[i] EXCEPT !.at = "written"] ELSE stepRecords[i]
    <3>1. \A i \in Item : After(i) \in [at : {"none", "pending", "written"}, count : 0 .. StepsOfWorkflow]
      BY <1>1 DEF BatchTypes
    <3>2. stepRecords' = [i \in Item |-> After(i)]
      BY DEF RecordsAreWritten
    <3> HIDE DEF After
    <3> QED
      BY <3>1, <3>2
  <2> QED
    BY <1>1, <1>2, <2>1, <2>2 DEF BatchTypes
<1>6. Stages'
  <2>1. ASSUME NEW i \in Item
        PROVE  /\ batch'.at \in {"loading", "rejected"} => item'[i] = "waiting"
               /\ batch'.at = "over" => item'[i] \notin AtWork
               /\ item'[i] \in {"waiting", "reading", "denied"} => runRecords'[i] = "none"
               /\ runRecords'[i] = "pending" => item'[i] \in {"running", "failed at once"}
               /\ item'[i] \notin Returned => stepRecords'[i] = NoRecords
               /\ stepRecords'[i].at = "none" => stepRecords'[i].count = 0
    <3>1. item[i] \notin Returned => stepRecords'[i] = NoRecords
      <4>1. item[i] \notin Returned => stepRecords[i] = NoRecords
        BY <1>1 DEF Stages
      <4>2. stepRecords[i] = NoRecords => stepRecords[i].at # "pending"
        BY DEF NoRecords
      <4> QED
        BY <1>4, <4>1, <4>2
    <3>2. stepRecords'[i].at = "none" => stepRecords'[i].count = 0
      BY <1>1, <1>4 DEF Stages
    <3> QED
      BY <1>1, <1>2, <1>3, <3>1, <3>2 DEF Stages
  <2> QED
    BY <2>1 DEF Stages
<1>7. \A i \in Item : WaveOf(i)' = WaveOf(i) /\ (Allowed(i)' <=> Allowed(i)) /\ (Failed(i)' <=> Failed(i))
  BY <1>2 DEF WaveOf, Allowed, Failed
<1>8. Frontier' /\ FailureStops'
  BY <1>1, <1>2, <1>7 DEF Frontier, FailureStops
<1>9. NothingLeft'
  <2>1. \A i \in Item : Stopped(WaveOf(i))' <=> Stopped(WaveOf(i))
    BY <1>2, <1>7 DEF Stopped
  <2> QED
    BY <1>1, <1>2, <1>3, <2>1 DEF NothingLeft
<1>10. Admissible' = Admissible
  BY <1>2, <1>3, <1>7 DEF Admissible
<1>11. SumOf(Weight', Item) = SumOf(Weight, Item)
  <2>1. \A i \in Item : Weight'[i] = Weight[i]
    BY <1>2, <1>4, <1>7 DEF Weight
  <2> QED
    BY <2>1, ItemsFinite, SumCongruent
<1>12. Busy' = Busy /\ Workers' = Workers
  BY <1>2 DEF Busy, Workers
<1>13. Cardinality(Unwritten') <= Workers
  <2>1. Unwritten' \subseteq Busy
    BY <1>1, <1>2, <1>3, <1>4 DEF Unwritten, Busy, AtWork
  <2>2. /\ Cardinality(Unwritten') <= Cardinality(Busy) /\ Cardinality(Unwritten') \in Nat
        /\ Cardinality(Busy) \in Nat /\ Workers \in Nat
    BY <1>1, <2>1, BusyFinite, WaveIsNat, FS_Subset, FS_CardinalityType
  <2> QED
    BY <1>1, <2>2 DEF Quotas
<1>14. Quotas'
  BY <1>1, <1>2, <1>10, <1>11, <1>12, <1>13 DEF Quotas
<1> QED
  BY <1>5, <1>6, <1>8, <1>9, <1>14 DEF BatchInv

\* Its steps were counted when it was admitted.
LEMMA ReturnsStep ==
  ASSUME BatchInv, NEW i \in Item, NEW steps \in 0 .. StepsOfWorkflow, Returns(i, steps)
  PROVE  BatchInv'
<1> PICK result \in Returned : item' = [item EXCEPT ![i] = result]
  BY DEF Returns, Returned
<1>1. BatchTypes /\ Stages /\ Quotas
  BY DEF BatchInv
<1>2. /\ item[i] = "running" /\ runRecords[i] = "written" /\ batch' = batch /\ seen' = seen
      /\ runRecords' = runRecords /\ item' = [item EXCEPT ![i] = result]
      /\ stepRecords' = [stepRecords EXCEPT ![i] = [at |-> "pending", count |-> steps]]
  BY DEF Returns
<1>0. result \in Ended /\ result \notin AtWork /\ result \notin {"waiting", "reading", "denied"}
  BY DEF Returned, Ended, AtWork
<1>3. BatchTypes'
  <2>1. item' \in [Item -> {"waiting"} \cup AtWork \cup Ended]
    BY <1>0, <1>1, <1>2 DEF BatchTypes, Ended
  <2>2. stepRecords' \in [Item -> [at : {"none", "pending", "written"}, count : 0 .. StepsOfWorkflow]]
    BY <1>1, <1>2 DEF BatchTypes
  <2> QED
    BY <1>1, <1>2, <2>1, <2>2 DEF BatchTypes
<1>4. item[i] \in AtWork /\ result \in {"running"} \cup Ended
  BY <1>0, <1>2 DEF AtWork
<1>5. /\ Frontier' /\ FailureStops' /\ NothingLeft'
      /\ Workers' = Workers /\ batch'.enforced = batch.enforced /\ Busy' \subseteq Busy
      /\ \A j \in Item : item'[j] = IF j = i THEN result ELSE item[j]
      /\ batch.at = "executing"
  BY <1>2, <1>3, <1>4, ItemMoves
<1>6. /\ \A j \in Item : j # i => stepRecords'[j] = stepRecords[j]
      /\ stepRecords'[i].at = "pending" /\ stepRecords'[i].count = steps
  BY <1>1, <1>2 DEF BatchTypes
<1>7. Stages'
  <2>1. ASSUME NEW j \in Item
        PROVE  /\ batch'.at \in {"loading", "rejected"} => item'[j] = "waiting"
               /\ batch'.at = "over" => item'[j] \notin AtWork
               /\ item'[j] \in {"waiting", "reading", "denied"} => runRecords'[j] = "none"
               /\ runRecords'[j] = "pending" => item'[j] \in {"running", "failed at once"}
               /\ item'[j] \notin Returned => stepRecords'[j] = NoRecords
               /\ stepRecords'[j].at = "none" => stepRecords'[j].count = 0
    <3>1. batch'.at = "executing"
      BY <1>2, <1>5
    <3>2. CASE j = i
      <4>1. item'[j] = result /\ runRecords'[j] = "written" /\ stepRecords'[j].at = "pending"
        BY <1>2, <1>5, <1>6, <3>2
      <4> QED
        BY <1>0, <3>1, <4>1 DEF AtWork
    <3>3. CASE j # i
      <4>1. item'[j] = item[j] /\ runRecords'[j] = runRecords[j] /\ stepRecords'[j] = stepRecords[j]
        BY <1>2, <1>5, <1>6, <3>3
      <4> QED
        BY <1>1, <3>1, <4>1 DEF Stages
    <3> QED
      BY <3>2, <3>3
  <2> QED
    BY <2>1 DEF Stages
<1>8. \A j \in Item : Allowed(j)' <=> Allowed(j)
  BY <1>2 DEF Allowed
<1>9. Admissible' \subseteq Admissible /\ Unwritten' \subseteq Unwritten
  <2>1. Admissible' \subseteq Admissible
    BY <1>2, <1>5, <1>8 DEF Admissible
  <2>2. Unwritten' \subseteq Unwritten
    BY <1>2, <1>5, <1>6 DEF Unwritten
  <2> QED
    BY <2>1, <2>2
<1>10. \A j \in Item : Weight'[j] <= Weight[j]
  <2>1. \A j \in Item : Weight[j] \in Nat
    BY <1>1, WeightFacts
  <2>2. \A j \in Item : j # i => Weight'[j] = Weight[j]
    BY <1>5, <1>6, <1>8 DEF Weight
  <2>3. Weight'[i] = steps /\ Weight[i] = StepsOfWorkflow
    BY <1>0, <1>2, <1>5, <1>6 DEF Weight, AtWork
  <2> QED
    BY <2>1, <2>2, <2>3, BatchConstants
<1>11. Quotas'
  BY <1>1, <1>3, <1>5, <1>9, <1>10, QuotasKept
<1> QED
  BY <1>3, <1>5, <1>7, <1>11 DEF BatchInv

\* One that throws leaves no steps, and no run if it throws at once.
LEMMA ThrowsStep ==
  ASSUME BatchInv, NEW i \in Item, Throws(i)
  PROVE  BatchInv'
<1>1. BatchTypes /\ Stages /\ Quotas
  BY DEF BatchInv
<1> DEFINE entry == IF runRecords[i] = "pending" THEN "failed at once" ELSE "failed"
<1>2. /\ item[i] = "running" /\ batch' = batch /\ seen' = seen /\ runRecords' = runRecords
      /\ stepRecords' = stepRecords /\ item' = [item EXCEPT ![i] = entry]
  BY DEF Throws
<1>3. item[i] \in AtWork /\ entry \in {"running"} \cup Ended
  BY <1>2 DEF AtWork, Ended
<1>4. BatchTypes'
  <2>1. item' \in [Item -> {"waiting"} \cup AtWork \cup Ended]
    BY <1>1, <1>2 DEF BatchTypes, Ended
  <2> QED
    BY <1>1, <1>2, <2>1 DEF BatchTypes
<1>3a. entry \in {"failed", "failed at once"} /\ (runRecords[i] = "pending" => entry = "failed at once")
      /\ (entry # "failed at once" => entry = "failed")
  OBVIOUS
<1> HIDE DEF entry
<1>5. /\ Frontier' /\ FailureStops' /\ NothingLeft'
      /\ Workers' = Workers /\ batch'.enforced = batch.enforced /\ Busy' \subseteq Busy
      /\ \A j \in Item : item'[j] = IF j = i THEN entry ELSE item[j]
      /\ batch.at = "executing"
  BY <1>2, <1>3, <1>4, ItemMoves
<1>6. stepRecords[i] = NoRecords /\ stepRecords[i].count = 0
  <2>1. stepRecords[i] = NoRecords
    BY <1>1, <1>2 DEF Stages, Returned
  <2> QED
    BY <2>1 DEF NoRecords
<1>7. Stages'
  <2>1. ASSUME NEW j \in Item
        PROVE  /\ batch'.at \in {"loading", "rejected"} => item'[j] = "waiting"
               /\ batch'.at = "over" => item'[j] \notin AtWork
               /\ item'[j] \in {"waiting", "reading", "denied"} => runRecords'[j] = "none"
               /\ runRecords'[j] = "pending" => item'[j] \in {"running", "failed at once"}
               /\ item'[j] \notin Returned => stepRecords'[j] = NoRecords
               /\ stepRecords'[j].at = "none" => stepRecords'[j].count = 0
    <3>1. batch'.at = "executing"
      BY <1>2, <1>5
    <3>2. CASE j = i
      BY <1>3a, <1>2, <1>5, <1>6, <3>1, <3>2
    <3>3. CASE j # i
      BY <1>1, <1>2, <1>5, <1>6, <3>1, <3>3 DEF Stages
    <3> QED
      BY <3>2, <3>3
  <2> QED
    BY <2>1 DEF Stages
<1>8. \A j \in Item : Allowed(j)' <=> Allowed(j)
  BY <1>2 DEF Allowed
<1>9. Admissible' \subseteq Admissible /\ Unwritten' \subseteq Unwritten
  <2>1. Admissible' \subseteq Admissible
    BY <1>3a, <1>2, <1>5, <1>8 DEF Admissible
  <2>2. Unwritten' \subseteq Unwritten
    BY <1>3a, <1>2, <1>5 DEF Unwritten
  <2> QED
    BY <2>1, <2>2
<1>10. \A j \in Item : Weight'[j] <= Weight[j]
  <2>1. \A j \in Item : Weight[j] \in Nat
    BY <1>1, WeightFacts
  <2>2. \A j \in Item : j # i => Weight'[j] = Weight[j]
    BY <1>2, <1>5, <1>8 DEF Weight
  <2>3. Weight'[i] = 0
    BY <1>3a, <1>2, <1>5, <1>6 DEF Weight
  <2> QED
    BY <2>1, <2>2, <2>3
<1>11. Quotas'
  BY <1>1, <1>4, <1>5, <1>9, <1>10, QuotasKept
<1> QED
  BY <1>4, <1>5, <1>7, <1>11 DEF BatchInv

\* What is left waits for the first wave that is not stopped; that one would be
\* reached.
LEMMA BatchEndsStep ==
  ASSUME BatchInv, BatchEnds
  PROVE  BatchInv'
<1>1. BatchTypes /\ Stages /\ Frontier /\ FailureStops /\ Quotas
  BY DEF BatchInv
<1>2. /\ batch' = [batch EXCEPT !.at = "over"] /\ item' = item /\ seen' = seen
      /\ runRecords' = runRecords /\ stepRecords' = stepRecords
      /\ Busy = {} /\ \A i \in Item : item[i] = "waiting" => ~Reached(WaveOf(i))
  BY DEF BatchEnds
<1>3. /\ batch'.at = "over" /\ batch'.mode = batch.mode /\ batch'.failFast = batch.failFast
      /\ batch'.enforced = batch.enforced /\ batch'.wave = batch.wave /\ batch'.workers = batch.workers
  BY <1>1, <1>2 DEF BatchTypes
<1>4. BatchTypes'
  BY <1>1, <1>2 DEF BatchTypes
<1>5. \A i \in Item : item[i] \notin AtWork
  BY <1>2 DEF Busy
<1>6. Stages'
  BY <1>1, <1>2, <1>3, <1>5 DEF Stages
<1>7. /\ \A i \in Item : WaveOf(i)' = WaveOf(i) /\ (Allowed(i)' <=> Allowed(i)) /\ (Failed(i)' <=> Failed(i))
      /\ Workers' = Workers
  BY <1>2, <1>3 DEF WaveOf, Allowed, Failed, Workers
<1>8. Frontier' /\ FailureStops'
  BY <1>1, <1>2, <1>3, <1>7 DEF Frontier, FailureStops
<1>9. NothingLeft'
  <2>1. \A i \in Item : Stopped(WaveOf(i))' <=> Stopped(WaveOf(i))
    BY <1>2, <1>3, <1>7 DEF Stopped
  <2>2. \A i \in Item : WaveOf(i) \in Nat
    BY <1>1, WaveIsNat
  <2> DEFINE left == {WaveOf(i) : i \in {j \in Item : item[j] \notin Ended /\ ~Stopped(WaveOf(j))}}
  <2>3. left = {}
    <3> SUFFICES ASSUME left # {} PROVE FALSE
      OBVIOUS
    <3>1. left \in SUBSET Nat
      BY <2>2
    <3>2. \E n \in left : \A m \in left : n <= m
      <4> HIDE DEF left
      <4> QED
        BY <3>1, LeastExists
    <3>3. PICK i \in Item : /\ item[i] \notin Ended /\ ~Stopped(WaveOf(i))
                            /\ \A m \in left : WaveOf(i) <= m
      BY <3>2
    <3>4. item[i] = "waiting"
      BY <1>1, <1>5, <3>3 DEF BatchTypes
    <3>5. PICK j \in Item : WaveOf(j) < WaveOf(i) /\ item[j] \notin Ended
      BY <1>2, <3>3, <3>4 DEF Reached
    <3>6. ~Stopped(WaveOf(j))
      BY <2>2, <3>3, <3>5 DEF Stopped
    <3>7. WaveOf(j) \in left
      BY <3>5, <3>6
    <3> QED
      BY <2>2, <3>3, <3>5, <3>7
  <2>4. \A i \in Item : item[i] \in Ended \/ Stopped(WaveOf(i))
    BY <2>3
  <2> QED
    BY <1>2, <1>3, <2>1, <2>4 DEF NothingLeft
<1>10. Busy' = Busy /\ Unwritten' = Unwritten /\ Admissible' = Admissible
  BY <1>2, <1>7 DEF Busy, Unwritten, Admissible
<1>11. SumOf(Weight', Item) = SumOf(Weight, Item)
  <2>1. \A i \in Item : Weight'[i] = Weight[i]
    BY <1>2, <1>7 DEF Weight
  <2> QED
    BY <2>1, ItemsFinite, SumCongruent
<1>12. Quotas'
  BY <1>1, <1>3, <1>7, <1>10, <1>11 DEF Quotas
<1> QED
  BY <1>4, <1>6, <1>8, <1>9, <1>12 DEF BatchInv

\* The invariant is strong enough.
LEMMA BatchInvImplies == BatchInv => BatchSafe
<1> SUFFICES ASSUME BatchInv PROVE BatchSafe
  OBVIOUS
<1>1. BatchTypes /\ Stages /\ Frontier /\ FailureStops /\ NothingLeft /\ Quotas
  BY DEF BatchInv
<1>2. /\ \A i \in Item : WaveOf(i) \in Nat
      /\ batch.workers \in Nat \ {0} /\ Workers \in Nat \ {0} /\ Workers <= batch.workers
  BY <1>1, WaveIsNat
<1>3. WavesApart
  <2>1. ASSUME NEW i \in Busy, NEW j \in Busy PROVE WaveOf(i) = WaveOf(j)
    <3>1. /\ i \in Item /\ item[i] \notin Ended /\ item[i] # "waiting"
          /\ j \in Item /\ item[j] \notin Ended /\ item[j] # "waiting"
      BY DEF Busy, AtWork, Ended
    <3>2. ~(WaveOf(i) < WaveOf(j)) /\ ~(WaveOf(j) < WaveOf(i))
      BY <1>1, <3>1 DEF Frontier
    <3> QED
      BY <1>2, <3>1, <3>2
  <2>2. Cardinality(Busy) <= batch.workers
    BY <1>1, <1>2, BusyFinite DEF Quotas
  <2>3. batch.failFast /\ batch.mode # "parallel" =>
          \A i, j \in Item : Failed(i) /\ WaveOf(j) > WaveOf(i) => item[j] = "waiting"
    BY <1>1, <1>2 DEF FailureStops
  <2> QED
    BY <2>1, <2>2, <2>3 DEF WavesApart
<1>4. ASSUME batch.enforced
      PROVE  /\ Cardinality({i \in Item : runRecords[i] # "none" /\ item[i] # "failed at once"})
                  <= QuotaRuns + Workers - 1
             /\ Total(Item) <= QuotaSteps + StepsOfWorkflow * (2 * Workers - 1)
  <2> DEFINE admitted == {i \in Item : runRecords[i] # "none" /\ item[i] # "failed at once"}
             counts == [i \in Item |-> stepRecords[i].count]
  <2>1. /\ Cardinality(Admissible) <= QuotaRuns + Workers - 1
        /\ SumOf(Weight, Item) <= QuotaSteps + StepsOfWorkflow * (2 * Workers - 1)
    BY <1>1, <1>4 DEF Quotas
  <2>2. admitted \subseteq Admissible /\ Admissible \subseteq Item /\ admitted \subseteq Item
    <3>1. ASSUME NEW i \in Item, runRecords[i] # "none", item[i] # "failed at once"
          PROVE  i \in Admissible
      BY <3>1 DEF Admissible
    <3> QED
      BY <3>1 DEF Admissible
  <2>3. Cardinality(admitted) <= QuotaRuns + Workers - 1
    <3> HIDE DEF admitted
    <3>1. /\ IsFiniteSet(Admissible) /\ Cardinality(Admissible) \in Nat
          /\ Cardinality(admitted) \in Nat
      BY <1>1, <2>2, BusyFinite
    <3>2. Cardinality(admitted) <= Cardinality(Admissible)
      BY <2>2, <3>1, FS_Subset
    <3> QED
      BY <1>2, <2>1, <3>1, <3>2, BatchConstants
  <2>4. \A i \in Item : counts[i] \in Nat /\ Weight[i] \in Nat /\ counts[i] <= Weight[i]
    <3>1. \A i \in Item : stepRecords[i].count \in 0 .. StepsOfWorkflow
      BY <1>1 DEF BatchTypes
    <3> QED
      BY <3>1, BatchConstants DEF Weight
  <2>5. Total(Item) = SumOf(counts, Item)
    BY TotalIsSum
  <2> HIDE DEF counts
  <2>6. SumOf(counts, Item) <= SumOf(Weight, Item)
    BY <2>4, ItemsFinite, SumMonotone
  <2>7. SumOf(counts, Item) \in Nat /\ SumOf(Weight, Item) \in Nat
    BY <2>4, ItemsFinite, SumFacts
  <2> DEFINE c == StepsOfWorkflow * (2 * Workers - 1)
  <2>8. c \in Nat
    <3>1. 2 * Workers - 1 \in Nat
      BY <1>2
    <3> QED
      BY <3>1, BatchConstants, ProductIsNat
  <2>9. SumOf(Weight, Item) <= QuotaSteps + c
    BY <2>1
  <2> HIDE DEF c
  <2>10. Total(Item) <= QuotaSteps + c
    BY <2>5, <2>6, <2>7, <2>8, <2>9, BatchConstants
  <2> QED
    BY <2>3, <2>10 DEF c
<1>5. QuotaOvershoot
  BY <1>4 DEF QuotaOvershoot
<1>6. NothingSkipped
  BY <1>1 DEF NothingLeft, NothingSkipped, Stopped, Failed
<1> QED
  BY <1>3, <1>5, <1>6 DEF BatchSafe

\* runMany keeps its waves apart, executes all it may, and overdraws the quota of
\* runs and of steps by no more than its workers can have at work unrecorded,
\* whatever the sizes of the batch, of the waves and of the quota are.
THEOREM BatchIsSafe == BatchSpec => []BatchSafe
<1>1. BatchInv /\ [BatchNext]_batchVars => BatchInv'
  <2> SUFFICES ASSUME BatchInv, [BatchNext]_batchVars PROVE BatchInv'
    OBVIOUS
  <2>1. CASE UNCHANGED batchVars
    BY <2>1 DEF batchVars, BatchInv, BatchTypes, Stages, Frontier, FailureStops, NothingLeft, Quotas,
                WaveOf, Failed, Stopped, Workers, Busy, Unwritten, Admissible, Weight, Allowed
  <2>2. CASE \E explicit \in Modes \cup {"none"}, declared \in [Item -> Modes \cup {"none"}],
               invalid \in BOOLEAN : Preload(explicit, declared, invalid)
    BY <2>2, PreloadStep
  <2>3. CASE \E i \in Item : Takes(i)
    BY <2>3, TakesStep
  <2>4. CASE \E i \in Item : Decides(i)
    BY <2>4, DecidesStep
  <2>5. CASE \E i \in Item : Throws(i)
    BY <2>5, ThrowsStep
  <2>6. CASE \E i \in Item, steps \in 0 .. StepsOfWorkflow : Returns(i, steps)
    BY <2>6, ReturnsStep
  <2>7. CASE RecordsAreWritten
    BY <2>7, RecordsAreWrittenStep
  <2>8. CASE BatchEnds
    BY <2>8, BatchEndsStep
  <2> QED
    BY <2>1, <2>2, <2>3, <2>4, <2>5, <2>6, <2>7, <2>8 DEF BatchNext
<1> QED
  BY <1>1, BatchInitInv, BatchInvImplies, PTL DEF BatchSpec

-----------------------------------------------------------------------------
(***************************************************************************)
(* The planner                                                             *)
(***************************************************************************)
\* A turn of the sorter's loop, and the state in which the loop begins.
Turned(g, k) == IF Ready(k) = {} THEN k ELSE Peel(g, k)
Unsorted(g) == [degree |-> InDegrees(g), processed |-> {}, phases |-> <<>>]

\* What Kahn recurses with: t[n] is the state after n turns.
Turns(g, t) == t = [n \in Nat |-> IF n = 0 THEN Unsorted(g) ELSE Turned(g, t[n - 1])]

LEMMA TurnsExist ==
  ASSUME NEW g
  PROVE  \E t : Turns(g, t)
<1> DEFINE Upto(h, n) == h = [m \in 0 .. n |-> IF m = 0 THEN Unsorted(g) ELSE Turned(g, h[m - 1])]
           B == {n \in Nat : ~\E h : Upto(h, n)}
<1>1. ASSUME NEW n \in Nat, n \in B, \A m \in B : n <= m PROVE FALSE
  <2>1. CASE n = 0
    <3> DEFINE h == [m \in 0 .. 0 |-> Unsorted(g)]
    <3>1. h = [m \in 0 .. 0 |-> IF m = 0 THEN Unsorted(g) ELSE Turned(g, h[m - 1])]
      OBVIOUS
    <3> HIDE DEF h
    <3> QED
      BY <1>1, <2>1, <3>1
  <2>2. CASE n # 0
    <3>1. n - 1 \in Nat /\ n - 1 \notin B
      <4> HIDE DEF B
      <4> QED
        BY <1>1, <2>2
    <3>2. PICK h : Upto(h, n - 1)
      BY <3>1
    <3> DEFINE k == [m \in 0 .. n |-> IF m = 0 THEN Unsorted(g) ELSE Turned(g, h[m - 1])]
    <3>3. \A m \in 0 .. n - 1 : h[m] = IF m = 0 THEN Unsorted(g) ELSE Turned(g, h[m - 1])
      BY <3>2
    <3>4. \A m \in 0 .. n - 1 : k[m] = h[m]
      BY <3>1, <3>3
    <3>5. k = [m \in 0 .. n |-> IF m = 0 THEN Unsorted(g) ELSE Turned(g, k[m - 1])]
      <4>1. \A m \in 0 .. n : m # 0 => m - 1 \in 0 .. n - 1
        OBVIOUS
      <4> HIDE DEF Upto
      <4>2. \A m \in 0 .. n : k[m] = IF m = 0 THEN Unsorted(g) ELSE Turned(g, k[m - 1])
        BY <3>4, <4>1
      <4> QED
        BY <4>2
    <3> HIDE DEF k
    <3> QED
      BY <1>1, <3>5
  <2> QED
    BY <2>1, <2>2
<1>2. B = {}
  <2> HIDE DEF B
  <2>1. B \subseteq Nat
    BY DEF B
  <2> QED
    BY <1>1, <2>1, LeastExists
<1> DEFINE pre == [n \in Nat |-> CHOOSE h : Upto(h, n)]
<1>3. \A n \in Nat : Upto(pre[n], n)
  <2> HIDE DEF Upto
  <2> QED
    BY <1>2
<1> HIDE DEF pre
<1>4. \A n \in Nat : \A m \in 0 .. n : pre[n][m] = IF m = 0 THEN Unsorted(g) ELSE Turned(g, pre[n][m - 1])
  BY <1>3
<1> HIDE DEF Upto, B
\* Two of them agree as far as both go.
<1>5. \A n \in Nat \ {0} : \A m \in 0 .. n - 1 : pre[n][m] = pre[n - 1][m]
  <2> SUFFICES ASSUME NEW n \in Nat \ {0}, NEW m0 \in 0 .. n - 1, pre[n][m0] # pre[n - 1][m0] PROVE FALSE
    OBVIOUS
  <2> DEFINE C == {m \in 0 .. n - 1 : pre[n][m] # pre[n - 1][m]}
  <2>1. C \in SUBSET Nat /\ C # {}
    OBVIOUS
  <2> HIDE DEF C
  <2>2. PICK m \in C : \A j \in C : m <= j
    BY <2>1, LeastExists
  <2>3. m \in 0 .. n - 1 /\ pre[n][m] # pre[n - 1][m]
    BY <2>2 DEF C
  <2>4. m # 0 /\ m - 1 \in 0 .. n - 1 /\ m - 1 \notin C
    BY <1>4, <2>2, <2>3
  <2>5. pre[n][m - 1] = pre[n - 1][m - 1]
    BY <2>4 DEF C
  <2> QED
    BY <1>4, <2>3, <2>4, <2>5
<1> DEFINE t == [n \in Nat |-> pre[n][n]]
<1>6. \A n \in Nat : t[n] = IF n = 0 THEN Unsorted(g) ELSE Turned(g, t[n - 1])
  <2> SUFFICES ASSUME NEW n \in Nat PROVE t[n] = IF n = 0 THEN Unsorted(g) ELSE Turned(g, t[n - 1])
    OBVIOUS
  <2>1. n # 0 => n - 1 \in Nat /\ n - 1 \in 0 .. n - 1 /\ pre[n][n - 1] = pre[n - 1][n - 1]
    BY <1>5
  <2>2. pre[n][n] = IF n = 0 THEN Unsorted(g) ELSE Turned(g, pre[n][n - 1])
    BY <1>4
  <2> QED
    BY <2>1, <2>2
<1>7. t = [n \in Nat |-> IF n = 0 THEN Unsorted(g) ELSE Turned(g, t[n - 1])]
  BY <1>6
<1> HIDE DEF t
<1> QED
  BY <1>7 DEF Turns

LEMMA KahnTurns ==
  ASSUME NEW g
  PROVE  \E t : Turns(g, t) /\ Kahn(g) = t[Cardinality(DOMAIN g)]
<1> DEFINE t == CHOOSE t : Turns(g, t)
<1>1. Turns(g, t)
  BY TurnsExist
<1>2. Kahn(g) = t[Cardinality(DOMAIN g)]
  BY DEF Kahn, Turns, Turned, Unsorted
<1> HIDE DEF t
<1> QED
  BY <1>1, <1>2

\* How many members of S are smaller.
Rank(S, x) == Cardinality({y \in S : y < x})

\* Each rank below the size of a finite set of numbers is that of one member.
LEMMA RanksFacts ==
  ASSUME NEW S \in SUBSET Nat, IsFiniteSet(S)
  PROVE  /\ Cardinality(S) \in Nat
         /\ \A x \in S : Rank(S, x) \in 0 .. Cardinality(S) - 1
         /\ \A x, y \in S : Rank(S, x) = Rank(S, y) => x = y
         /\ \A x, y \in S : x < y => Rank(S, x) < Rank(S, y)
         /\ \A i \in 1 .. Cardinality(S) : \E x \in S : Rank(S, x) = i - 1
<1> DEFINE Under(x) == {y \in S : y < x}
           n == Cardinality(S)
           rank == [x \in S |-> Rank(S, x)]
<1>1. n \in Nat
  BY FS_CardinalityType
<1>2. \A x \in S : IsFiniteSet(Under(x)) /\ Cardinality(Under(x)) \in Nat /\ Rank(S, x) = Cardinality(Under(x))
  BY FS_Subset, FS_CardinalityType DEF Rank
<1>3. ASSUME NEW x \in S PROVE Cardinality(Under(x)) < n
  <2>1. Under(x) \in SUBSET S /\ x \notin Under(x)
    OBVIOUS
  <2>2. Cardinality(Under(x)) <= n /\ Cardinality(Under(x)) # n
    BY <2>1, FS_Subset
  <2> QED
    BY <1>1, <1>2, <2>2
<1>4. ASSUME NEW x \in S, NEW y \in S, x < y PROVE Cardinality(Under(x)) < Cardinality(Under(y))
  <2>1. x \in Nat /\ y \in Nat /\ \A z \in S : z \in Nat
    OBVIOUS
  <2>2. Under(x) \in SUBSET Under(y)
    <3> SUFFICES ASSUME NEW z \in S, z < x PROVE z < y
      OBVIOUS
    <3> QED
      BY <1>4, <2>1
  <2>3. x \in Under(y) /\ x \notin Under(x)
    BY <1>4, <2>1
  <2>4. Cardinality(Under(x)) <= Cardinality(Under(y)) /\ Cardinality(Under(x)) # Cardinality(Under(y))
    BY <1>2, <2>2, <2>3, FS_Subset
  <2> QED
    BY <1>2, <2>4
<1> HIDE DEF Under, n
<1>5. rank \in [S -> 0 .. n - 1]
  BY <1>1, <1>2, <1>3
<1>6. ASSUME NEW x \in S, NEW y \in S, rank[x] = rank[y] PROVE x = y
  <2>1. ~(x < y) /\ ~(y < x)
    BY <1>2, <1>4, <1>6
  <2> QED
    BY <2>1
<1>7. \A x \in S : rank[x] = Rank(S, x)
  OBVIOUS
<1> HIDE DEF rank
<1>8. rank \in Injection(S, 0 .. n - 1)
  BY <1>5, <1>6, Fun_IsInj
<1>9. IsFiniteSet(0 .. n - 1) /\ Cardinality(0 .. n - 1) = n
  <2>1. 0 \in Int /\ n - 1 \in Int /\ (0 > n - 1 => n = 0) /\ n - 1 - 0 + 1 = n
    BY <1>1
  <2> QED
    BY <2>1, FS_Interval
<1>10. rank \in Surjection(S, 0 .. n - 1)
  BY <1>8, <1>9, FS_Injection DEF n
<1>11. \A i \in 0 .. n - 1 : \E x \in S : rank[x] = i
  BY <1>10, Fun_SurjectionProperties
<1>12. \A i \in 1 .. n : \E x \in S : rank[x] = i - 1
  <2>1. \A i \in 1 .. n : i - 1 \in 0 .. n - 1
    BY <1>1
  <2> QED
    BY <1>11, <2>1
<1>13. \A x, y \in S : x < y => Rank(S, x) < Rank(S, y)
  BY <1>2, <1>4
<1> QED
  BY <1>1, <1>5, <1>6, <1>7, <1>12, <1>13 DEF n

LEMMA SortedFacts ==
  ASSUME NEW T \in SUBSET Nat, NEW S \in SUBSET T, IsFiniteSet(S)
  PROVE  /\ Sorted(S) \in Seq(T) /\ Len(Sorted(S)) = Cardinality(S)
         /\ ToSet(Sorted(S)) = S /\ Distinct(Sorted(S))
<1> DEFINE n == Cardinality(S)
           r == [i \in 1 .. n |-> CHOOSE x \in S : Rank(S, x) = i - 1]
<1>1. /\ n \in Nat /\ \A x \in S : Rank(S, x) \in 0 .. n - 1
      /\ \A x, y \in S : Rank(S, x) = Rank(S, y) => x = y
      /\ \A i \in 1 .. n : \E x \in S : Rank(S, x) = i - 1
  <2>1. S \in SUBSET Nat
    OBVIOUS
  <2> QED
    BY <2>1, RanksFacts
<1>2. Sorted(S) = r
  BY DEF Sorted, Rank
<1> HIDE DEF n
<1>3. \A i \in 1 .. n : r[i] \in S /\ Rank(S, r[i]) = i - 1
  BY <1>1
<1>4. DOMAIN r = 1 .. n
  OBVIOUS
<1>5. r \in [1 .. n -> T]
  BY <1>3
<1> HIDE DEF r
<1>6. r \in Seq(T) /\ Len(r) = n
  BY <1>1, <1>5, SeqDef, LenProperties
<1>7. ASSUME NEW x \in S PROVE x \in ToSet(r)
  <2> DEFINE i == Rank(S, x) + 1
  <2>1. i \in 1 .. n /\ i - 1 = Rank(S, x)
    BY <1>1
  <2>2. r[i] = x
    BY <1>1, <1>3, <2>1
  <2> HIDE DEF i
  <2> QED
    BY <1>4, <2>1, <2>2 DEF ToSet
<1>8. ToSet(r) \subseteq S
  BY <1>3, <1>4 DEF ToSet
<1>9. Distinct(r)
  <2> SUFFICES ASSUME NEW i \in 1 .. n, NEW k \in 1 .. n, r[i] = r[k] PROVE i = k
    BY <1>4 DEF Distinct
  <2>1. i - 1 = k - 1
    BY <1>3
  <2> QED
    BY <1>1, <2>1
<1> QED
  BY <1>2, <1>6, <1>7, <1>8, <1>9 DEF n

\* A sequence without repetition is as long as it has elements.
LEMMA DistinctLength ==
  ASSUME NEW T, NEW s \in Seq(T), Distinct(s)
  PROVE  Len(s) = Cardinality(ToSet(s))
<1> DEFINE I == 1 .. Len(s)
<1>1. Len(s) \in Nat /\ DOMAIN s = I /\ s \in [I -> T]
  BY LenProperties
<1>2. s \in [I -> ToSet(s)] /\ \A x \in ToSet(s) : \E i \in I : s[i] = x
  BY <1>1 DEF ToSet
<1>3. s \in Bijection(I, ToSet(s))
  <2>1. s \in Injection(I, ToSet(s))
    BY <1>1, <1>2, Fun_IsInj DEF Distinct
  <2>2. s \in Surjection(I, ToSet(s))
    BY <1>2, Fun_IsSurj
  <2> QED
    BY <2>1, <2>2 DEF Bijection
<1>4. IsFiniteSet(I) /\ Cardinality(I) = Len(s)
  <2>1. 1 \in Int /\ Len(s) \in Int /\ (1 > Len(s) => Len(s) = 0) /\ Len(s) - 1 + 1 = Len(s)
    BY <1>1
  <2> QED
    BY <2>1, FS_Interval
<1> HIDE DEF I
<1> QED
  BY <1>3, <1>4, FS_Bijection DEF ExistsBijection

\* The edges from a step to a set.
EdgesOf(g, s, S) == {i \in DOMAIN g[s] : g[s][i] \in S}

LEMMA EdgesCounted ==
  ASSUME NEW D, NEW g \in [D -> Seq(D)], NEW s \in D, NEW S
  PROVE  /\ IsFiniteSet(EdgesOf(g, s, S)) /\ Cardinality(EdgesOf(g, s, S)) \in Nat
         /\ EdgesTo(g, s, S) = Cardinality(EdgesOf(g, s, S))
<1> DEFINE I == EdgesOf(g, s, S)
<1>1. Len(g[s]) \in Nat /\ DOMAIN g[s] = 1 .. Len(g[s])
  BY LenProperties
<1>2. IsFiniteSet(DOMAIN g[s])
  BY <1>1, FS_Interval
<1>3. IsFiniteSet(I) /\ Cardinality(I) \in Nat
  BY <1>2, FS_Subset, FS_CardinalityType DEF EdgesOf
<1> QED
  BY <1>3 DEF EdgesTo, EdgesOf

LEMMA NoEdges ==
  ASSUME NEW D, NEW g \in [D -> Seq(D)], NEW s \in D, NEW S
  PROVE  EdgesTo(g, s, S) = 0 <=> ToSet(g[s]) \cap S = {}
<1>1. /\ IsFiniteSet(EdgesOf(g, s, S))
      /\ EdgesTo(g, s, S) = Cardinality(EdgesOf(g, s, S))
  BY EdgesCounted, Zenon
<1>2. EdgesTo(g, s, S) = 0 <=> EdgesOf(g, s, S) = {}
  BY <1>1, FS_EmptySet
<1> QED
  BY <1>2 DEF ToSet, EdgesOf

LEMMA EdgesLeft ==
  ASSUME NEW D \in SUBSET Nat, NEW g \in [D -> Seq(D)], NEW s \in D, NEW S \in SUBSET D, NEW T \in SUBSET S
  PROVE  EdgesTo(g, s, S) - EdgesTo(g, s, T) = EdgesTo(g, s, S \ T)
<1> DEFINE I(U) == EdgesOf(g, s, U)
<1>1. \A U : IsFiniteSet(I(U)) /\ Cardinality(I(U)) \in Nat /\ EdgesTo(g, s, U) = Cardinality(I(U))
  BY EdgesCounted, Zenon
<1>2. I(T) \cap I(S \ T) = {} /\ I(S) = I(T) \cup I(S \ T)
  BY DEF EdgesOf
<1>3. IsFiniteSet(I(T)) /\ IsFiniteSet(I(S \ T))
  BY <1>1
<1> HIDE DEF I
<1>4. Cardinality(I(T) \cup I(S \ T))
        = Cardinality(I(T)) + Cardinality(I(S \ T)) - Cardinality(I(T) \cap I(S \ T))
  BY <1>3, FS_Union
<1>5. Cardinality(I(S)) = Cardinality(I(T)) + Cardinality(I(S \ T)) - 0
  BY <1>2, <1>4, FS_EmptySet
<1> QED
  BY <1>1, <1>5

LEMMA AllEdges ==
  ASSUME NEW D, NEW g \in [D -> Seq(D)], NEW s \in D
  PROVE  EdgesTo(g, s, D) = Len(g[s])
<1> DEFINE I == {i \in DOMAIN g[s] : g[s][i] \in D}
<1>1. g[s] \in Seq(D) /\ Len(g[s]) \in Nat /\ DOMAIN g[s] = 1 .. Len(g[s])
  BY LenProperties
<1>2. Cardinality(DOMAIN g[s]) = Len(g[s])
  <2>1. 1 \in Int /\ Len(g[s]) \in Int /\ (1 > Len(g[s]) => Len(g[s]) = 0) /\ Len(g[s]) - 1 + 1 = Len(g[s])
    BY <1>1
  <2> QED
    BY <1>1, <2>1, FS_Interval
<1>3. I = DOMAIN g[s]
  BY <1>1, ElementOfSeq
<1>4. EdgesTo(g, s, D) = Cardinality(I)
  BY DEF EdgesTo
<1> QED
  BY <1>2, <1>3, <1>4

\* What every turn of the sorter keeps, of the steps D with the needs g: how
\* many needs of a step are not processed, and what the phases are; a step that
\* waits needs one of the last phase or one that waits too.
SortInv(D, g, k) ==
  /\ k.processed \subseteq D /\ k.degree = [s \in D |-> EdgesTo(g, s, D \ k.processed)]
  /\ k.phases \in Seq(Seq(D)) /\ \A i \in DOMAIN k.phases : ToSet(k.phases[i]) \subseteq k.processed
  /\ \A s \in k.processed : \E i \in DOMAIN k.phases : s \in ToSet(k.phases[i])
  /\ \A i \in DOMAIN k.phases : Distinct(k.phases[i])
  /\ \A i, j \in DOMAIN k.phases : i # j => ToSet(k.phases[i]) \cap ToSet(k.phases[j]) = {}
  /\ \A i \in DOMAIN k.phases : \A s \in ToSet(k.phases[i]) : \A d \in ToSet(g[s]) :
       \E j \in 1 .. i - 1 : d \in ToSet(k.phases[j])
  /\ \A i \in DOMAIN k.phases : i > 1 =>
       \A s \in ToSet(k.phases[i]) : ToSet(g[s]) \cap ToSet(k.phases[i - 1]) # {}
  /\ k.phases # <<>> =>
       \A s \in D \ k.processed : \E d \in ToSet(g[s]) :
         d \in ToSet(k.phases[Len(k.phases)]) \/ d \notin k.processed

LEMMA ReadyFacts ==
  ASSUME NEW D \in SUBSET Nat, NEW g \in [D -> Seq(D)], NEW k, SortInv(D, g, k)
  PROVE  Ready(k) = {s \in D \ k.processed : ToSet(g[s]) \subseteq k.processed}
<1>1. \A s \in D : ToSet(g[s]) \subseteq D
  BY RangeIn DEF ToSet
<1>2. \A s \in D : k.degree[s] = 0 <=> ToSet(g[s]) \cap (D \ k.processed) = {}
  <2> SUFFICES ASSUME NEW s \in D PROVE k.degree[s] = 0 <=> ToSet(g[s]) \cap (D \ k.processed) = {}
    OBVIOUS
  <2>1. k.degree[s] = EdgesTo(g, s, D \ k.processed)
    BY DEF SortInv
  <2>2. EdgesTo(g, s, D \ k.processed) = 0 <=> ToSet(g[s]) \cap (D \ k.processed) = {}
    BY NoEdges, Zenon
  <2> QED
    BY <2>1, <2>2
<1>3. DOMAIN k.degree = D
  BY DEF SortInv
<1> QED
  BY <1>1, <1>2, <1>3 DEF Ready

LEMMA UnsortedInv ==
  ASSUME NEW D \in SUBSET Nat, NEW g \in [D -> Seq(D)]
  PROVE  SortInv(D, g, Unsorted(g))
<1> DEFINE k == Unsorted(g)
<1>1. k.processed = {} /\ k.phases = <<>> /\ k.degree = [s \in D |-> Len(g[s])]
  BY DEF Unsorted, InDegrees
<1>2. k.degree = [s \in D |-> EdgesTo(g, s, D \ k.processed)]
  <2>1. D \ k.processed = D
    BY <1>1
  <2>2. \A s \in D : EdgesTo(g, s, D) = Len(g[s])
    BY AllEdges
  <2> HIDE DEF k
  <2> QED
    BY <1>1, <2>1, <2>2
<1>3. DOMAIN k.phases = {} /\ k.phases \in Seq(Seq(D)) /\ k.processed \subseteq D
  BY <1>1
<1> HIDE DEF k
<1>4. \A s \in k.processed : \E i \in DOMAIN k.phases : s \in ToSet(k.phases[i])
  BY <1>1
<1>5. ~(k.phases # <<>>)
  BY <1>1
<1> QED
  BY <1>2, <1>3, <1>4, <1>5, Zenon DEF SortInv, k

LEMMA PeelKeeps ==
  ASSUME NEW D \in SUBSET Nat, IsFiniteSet(D), NEW g \in [D -> Seq(D)], NEW k, SortInv(D, g, k)
  PROVE  SortInv(D, g, Peel(g, k))
<1> DEFINE P == k.processed
           R == Ready(k)
           q == k.phases
           l == Peel(g, k)
           n == Len(q)
<1>1. R = {s \in D \ P : ToSet(g[s]) \subseteq P} /\ R \in SUBSET D /\ IsFiniteSet(R)
  BY ReadyFacts, FS_Subset
<1>2. Sorted(R) \in Seq(D) /\ ToSet(Sorted(R)) = R /\ Distinct(Sorted(R))
  BY <1>1, SortedFacts
<1>3. /\ l.processed = P \cup R /\ l.phases = Append(q, Sorted(R))
      /\ l.degree = [s \in D |-> k.degree[s] - EdgesTo(g, s, R)]
  BY DEF Peel
<1>4. q \in Seq(Seq(D)) /\ P \in SUBSET D /\ n \in Nat /\ DOMAIN q = 1 .. n
  BY LenProperties DEF SortInv
<1>5. /\ l.phases \in Seq(Seq(D)) /\ Len(l.phases) = n + 1 /\ DOMAIN l.phases = 1 .. n + 1
      /\ \A i \in 1 .. n : l.phases[i] = q[i]
      /\ l.phases[n + 1] = Sorted(R)
  BY <1>2, <1>3, <1>4, AppendProperties
<1>6. l.degree = [s \in D |-> EdgesTo(g, s, D \ l.processed)]
  <2>1. ASSUME NEW s \in D PROVE k.degree[s] - EdgesTo(g, s, R) = EdgesTo(g, s, D \ l.processed)
    <3>1. k.degree[s] = EdgesTo(g, s, D \ P)
      BY DEF SortInv
    <3>2. R \in SUBSET (D \ P) /\ D \ P \in SUBSET D /\ (D \ P) \ R = D \ (P \cup R)
      BY <1>1
    <3>3. EdgesTo(g, s, D \ P) - EdgesTo(g, s, R) = EdgesTo(g, s, (D \ P) \ R)
      <4> HIDE DEF P, R
      <4> QED
        BY <3>2, EdgesLeft
    <3> QED
      BY <1>3, <3>1, <3>2, <3>3
  <2> QED
    BY <1>3, <2>1
<1>7. \A i \in 1 .. n + 1 : i \in 1 .. n \/ i = n + 1
  BY <1>4
<1> HIDE DEF l, n
<1> DEFINE set == [i \in 1 .. n + 1 |-> ToSet(l.phases[i])]
<1>8. /\ \A i \in 1 .. n + 1 : set[i] = ToSet(l.phases[i])
      /\ \A i \in 1 .. n : set[i] = ToSet(q[i]) /\ i \in 1 .. n + 1
      /\ set[n + 1] = R /\ n + 1 \in 1 .. n + 1
  BY <1>2, <1>4, <1>5
<1> HIDE DEF set
<1>9. \A i \in 1 .. n : set[i] \subseteq P
  <2>1. \A i \in 1 .. n : ToSet(q[i]) \subseteq P
    BY <1>4 DEF SortInv
  <2> QED
    BY <1>8, <2>1
<1>10. \A i, j \in 1 .. n : i # j => set[i] \cap set[j] = {}
  <2>1. \A i, j \in 1 .. n : i # j => ToSet(q[i]) \cap ToSet(q[j]) = {}
    BY <1>4 DEF SortInv
  <2> QED
    BY <1>8, <2>1
<1>11. \A d \in P : \E i \in 1 .. n : d \in set[i]
  BY <1>4, <1>8 DEF SortInv
<1>12. \A i \in 1 .. n : \A s \in set[i] : \A d \in ToSet(g[s]) : \E j \in 1 .. i - 1 : d \in set[j]
  <2> SUFFICES ASSUME NEW i \in 1 .. n, NEW s \in set[i], NEW d \in ToSet(g[s])
               PROVE  \E j \in 1 .. i - 1 : d \in set[j]
    OBVIOUS
  <2>1. \A j \in 1 .. i - 1 : j \in 1 .. n
    BY <1>4
  <2>2. i \in DOMAIN q /\ s \in ToSet(q[i])
    BY <1>4, <1>8
  <2>3. \E j \in 1 .. i - 1 : d \in ToSet(q[j])
    BY <2>2 DEF SortInv
  <2> QED
    BY <1>8, <2>1, <2>3
<1>13. \A i \in 1 .. n : i > 1 => \A s \in set[i] : ToSet(g[s]) \cap set[i - 1] # {}
  <2> SUFFICES ASSUME NEW i \in 1 .. n, i > 1, NEW s \in set[i] PROVE ToSet(g[s]) \cap set[i - 1] # {}
    OBVIOUS
  <2>1. i - 1 \in 1 .. n
    BY <1>4
  <2>2. i \in DOMAIN q /\ s \in ToSet(q[i])
    BY <1>4, <1>8
  <2>3. ToSet(g[s]) \cap ToSet(q[i - 1]) # {}
    BY <2>2 DEF SortInv
  <2> QED
    BY <1>8, <2>1, <2>3
<1>14. n > 0 => \A s \in D \ P : \E d \in ToSet(g[s]) : d \in set[n] \/ d \notin P
  <2>1. n > 0 => n \in 1 .. n /\ q # <<>>
    BY <1>4
  <2>2. n > 0 => \A s \in D \ P : \E d \in ToSet(g[s]) : d \in ToSet(q[n]) \/ d \notin P
    BY <2>1 DEF SortInv, n
  <2> QED
    BY <1>8, <2>1, <2>2
<1>15. /\ \A i \in 1 .. n : Distinct(q[i])
       /\ \A s \in D \ P : ~(ToSet(g[s]) \subseteq P) \/ s \in R
       /\ R \cap P = {} /\ \A s \in R : ToSet(g[s]) \subseteq P
  BY <1>1, <1>4 DEF SortInv
<1> HIDE DEF P, R, q
<1>16. /\ \A i \in DOMAIN l.phases : ToSet(l.phases[i]) \subseteq l.processed
       /\ \A s \in l.processed : \E i \in DOMAIN l.phases : s \in ToSet(l.phases[i])
  <2>1. \A i \in 1 .. n + 1 : ToSet(l.phases[i]) \subseteq P \cup R
    BY <1>7, <1>8, <1>9
  <2>2. \A d \in P \cup R : \E i \in 1 .. n + 1 : d \in ToSet(l.phases[i])
    BY <1>8, <1>11
  <2> QED
    BY <1>3, <1>5, <2>1, <2>2
<1>17. \A i \in DOMAIN l.phases : Distinct(l.phases[i])
  BY <1>2, <1>5, <1>7, <1>15
<1>18. \A i, j \in DOMAIN l.phases : i # j => ToSet(l.phases[i]) \cap ToSet(l.phases[j]) = {}
  <2> SUFFICES ASSUME NEW i \in 1 .. n + 1, NEW j \in 1 .. n + 1, i # j PROVE set[i] \cap set[j] = {}
    BY <1>5, <1>8
  <2>1. CASE i \in 1 .. n /\ j \in 1 .. n
    BY <1>10, <2>1
  <2>2. CASE i = n + 1 \/ j = n + 1
    BY <1>7, <1>8, <1>9, <1>15, <2>2
  <2> QED
    BY <1>7, <2>1, <2>2
<1>19. \A i \in DOMAIN l.phases : \A s \in ToSet(l.phases[i]) : \A d \in ToSet(g[s]) :
         \E j \in 1 .. i - 1 : d \in ToSet(l.phases[j])
  <2>1. \A i \in 1 .. n + 1 : \A j \in 1 .. i - 1 : j \in 1 .. n + 1
    BY <1>4
  <2>2. \A i \in 1 .. n + 1 : \A s \in set[i] : \A d \in ToSet(g[s]) : \E j \in 1 .. i - 1 : d \in set[j]
    <3>1. ASSUME NEW s \in R, NEW d \in ToSet(g[s]) PROVE \E j \in 1 .. (n + 1) - 1 : d \in set[j]
      <4>1. (n + 1) - 1 = n
        BY <1>4
      <4> QED
        BY <1>11, <1>15, <4>1
    <3> QED
      BY <1>7, <1>8, <1>12, <3>1
  <2> QED
    <3> SUFFICES ASSUME NEW i \in 1 .. n + 1, NEW s \in ToSet(l.phases[i]), NEW d \in ToSet(g[s])
                 PROVE  \E j \in 1 .. i - 1 : d \in ToSet(l.phases[j])
      BY <1>5
    <3>1. s \in set[i]
      BY <1>8
    <3>2. PICK j \in 1 .. i - 1 : d \in set[j]
      BY <2>2, <3>1
    <3>3. j \in 1 .. n + 1
      BY <2>1
    <3>4. set[j] = ToSet(l.phases[j])
      BY <1>8, <3>3
    <3> QED
      BY <3>2, <3>4
<1>20. \A i \in DOMAIN l.phases : i > 1 =>
         \A s \in ToSet(l.phases[i]) : ToSet(g[s]) \cap ToSet(l.phases[i - 1]) # {}
  <2>1. \A i \in 1 .. n + 1 : i > 1 => i - 1 \in 1 .. n + 1
    BY <1>4
  <2>2. n + 1 > 1 => (n + 1) - 1 = n /\ n > 0
    BY <1>4
  <2>3. n + 1 > 1 => \A s \in R : ToSet(g[s]) \cap set[n] # {}
    <3> SUFFICES ASSUME n > 0, NEW s \in R PROVE ToSet(g[s]) \cap set[n] # {}
      BY <2>2
    <3>1. s \in D \ P /\ ToSet(g[s]) \subseteq P
      BY <1>1
    <3> QED
      BY <1>14, <3>1
  <2>4. \A i \in 1 .. n + 1 : i > 1 => \A s \in set[i] : ToSet(g[s]) \cap set[i - 1] # {}
    BY <1>7, <1>8, <1>13, <2>2, <2>3
  <2> QED
    BY <1>5, <1>8, <2>1, <2>4
<1>21. \A s \in D \ l.processed : \E d \in ToSet(g[s]) :
         d \in ToSet(l.phases[Len(l.phases)]) \/ d \notin l.processed
  <2> SUFFICES ASSUME NEW s \in D \ (P \cup R) PROVE \E d \in ToSet(g[s]) : d \in R \/ d \notin P \cup R
    BY <1>2, <1>3, <1>5
  <2> QED
    BY <1>15
<1>22. l.processed \subseteq D
  BY <1>1, <1>3, <1>4
<1> QED
  BY <1>5, <1>6, <1>16, <1>17, <1>18, <1>19, <1>20, <1>21, <1>22 DEF SortInv, l

\* When the sorter ends no step is ready, and all it did holds.
LEMMA KahnEnds ==
  ASSUME NEW D \in SUBSET Nat, IsFiniteSet(D), NEW g \in [D -> Seq(D)]
  PROVE  SortInv(D, g, Kahn(g)) /\ Ready(Kahn(g)) = {}
<1> DEFINE N == Cardinality(D)
<1>1. PICK t : Turns(g, t) /\ Kahn(g) = t[N]
  <2>1. DOMAIN g = D
    OBVIOUS
  <2> QED
    BY <2>1, KahnTurns
<1>2. t[0] = Unsorted(g) /\ \A n \in Nat \ {0} : t[n] = Turned(g, t[n - 1])
  BY <1>1 DEF Turns
<1>3. N \in Nat
  BY FS_CardinalityType
<1> DEFINE Going(n) == Ready(t[n]) = {} \/ Cardinality(t[n].processed) >= n
           Bad == {n \in Nat : ~(SortInv(D, g, t[n]) /\ Going(n))}
<1>4. Bad = {}
  <2> SUFFICES ASSUME NEW n \in Bad, \A m \in Bad : n <= m PROVE FALSE
    <3>1. Bad \in SUBSET Nat
      OBVIOUS
    <3> HIDE DEF Bad
    <3> QED
      BY <3>1, LeastExists
  <2>1. n \in Nat
    OBVIOUS
  <2>2. CASE n = 0
    <3>1. SortInv(D, g, t[0])
      BY <1>2, UnsortedInv
    <3>2. Cardinality(t[0].processed) = 0
      BY <1>2, FS_EmptySet DEF Unsorted
    <3> QED
      BY <2>2, <3>1, <3>2
  <2>3. CASE n # 0
    <3> DEFINE m == n - 1
               k == t[m]
    <3>1. m \in Nat /\ n = m + 1 /\ ~(n <= m)
      BY <2>1, <2>3
    <3>2. m \notin Bad
      BY <3>1
    <3>3. SortInv(D, g, k) /\ Going(m)
      BY <3>1, <3>2
    <3>4. t[n] = Turned(g, k)
      BY <1>2, <2>1, <2>3
    <3> HIDE DEF m, k
    <3>5. CASE Ready(k) = {}
      <4>1. t[n] = k
        BY <3>4, <3>5 DEF Turned
      <4> QED
        BY <3>3, <3>5, <4>1
    <3>6. CASE Ready(k) # {}
      <4>1. t[n] = Peel(g, k)
        BY <3>4, <3>6 DEF Turned
      <4>2. SortInv(D, g, t[n])
        BY <3>3, <4>1, PeelKeeps
      <4>3. k.processed \in SUBSET D /\ t[n].processed = k.processed \cup Ready(k)
        BY <3>3, <4>1 DEF SortInv, Peel
      <4>4. Ready(k) \in SUBSET (D \ k.processed)
        BY <3>3, ReadyFacts
      <4>5. PICK s \in Ready(k) : TRUE
        BY <3>6
      <4>6. Cardinality(k.processed) >= m
        BY <3>3, <3>6 DEF k
      <4>7. /\ IsFiniteSet(k.processed) /\ IsFiniteSet(t[n].processed)
            /\ Cardinality(k.processed) \in Nat /\ Cardinality(t[n].processed) \in Nat
        <5>1. t[n].processed \in SUBSET D
          BY <4>3, <4>4
        <5> QED
          BY <4>3, <5>1, FS_Subset, FS_CardinalityType
      <4>8. k.processed \subseteq t[n].processed /\ k.processed # t[n].processed
        BY <4>3, <4>4, <4>5
      <4>9. /\ Cardinality(k.processed) <= Cardinality(t[n].processed)
            /\ Cardinality(k.processed) # Cardinality(t[n].processed)
        BY <4>7, <4>8, FS_Subset
      <4>10. Cardinality(t[n].processed) >= n
        BY <3>1, <4>6, <4>7, <4>9
      <4> QED
        BY <4>2, <4>10
    <3> QED
      BY <3>5, <3>6
  <2> QED
    BY <2>2, <2>3
<1>5. SortInv(D, g, t[N]) /\ Going(N)
  BY <1>3, <1>4
<1>6. ASSUME Cardinality(t[N].processed) >= N PROVE Ready(t[N]) = {}
  <2>1. t[N].processed \in SUBSET D
    BY <1>5 DEF SortInv
  <2>2. Cardinality(t[N].processed) <= N /\ Cardinality(t[N].processed) \in Nat
    BY <2>1, FS_Subset, FS_CardinalityType
  <2>3. Cardinality(t[N].processed) = N
    BY <1>3, <1>6, <2>2
  <2>4. t[N].processed = D
    BY <2>1, <2>3, FS_Subset
  <2> QED
    BY <1>5, <2>4, ReadyFacts
<1> QED
  BY <1>1, <1>5, <1>6

-----------------------------------------------------------------------------
PlansInv == needs \in [PlanStep -> Seq(PlanStep)]

LEMMA PlanStepFacts == PlanStep \in SUBSET Nat /\ IsFiniteSet(PlanStep)
<1>1. Steps \in Nat
  BY WorkflowPlansAssumption
<1>2. PlanStep \in SUBSET Nat
  BY <1>1 DEF PlanStep
<1>3. IsFiniteSet(PlanStep)
  BY <1>1, FS_Interval DEF PlanStep
<1> QED
  BY <1>2, <1>3

\* The steps of an acyclic workflow are what the sorter can process.
LEMMA SortsAcyclic == ASSUME PlansInv PROVE Sorts(needs) <=> Acyclic
<1> DEFINE k == Kahn(needs)
           P == k.processed
           q == k.phases
<1>1. SortInv(PlanStep, needs, k) /\ Ready(k) = {}
  BY PlanStepFacts, KahnEnds DEF PlansInv
<1>2. P \in SUBSET PlanStep /\ DOMAIN needs = PlanStep
  BY <1>1 DEF SortInv, PlansInv
<1>3. \A s \in PlanStep \ P : ~(ToSet(needs[s]) \subseteq P)
  BY <1>1, PlanStepFacts, ReadyFacts DEF PlansInv
<1>4. \A s \in PlanStep : ToSet(needs[s]) \subseteq PlanStep
  BY RangeIn DEF ToSet, PlansInv
<1>5. ASSUME Acyclic PROVE P = PlanStep
  <2> SUFFICES ASSUME PlanStep \ P # {} PROVE FALSE
    BY <1>2
  <2>1. PlanStep \ P \in SUBSET PlanStep
    OBVIOUS
  <2>2. PICK s \in PlanStep \ P : ToSet(needs[s]) \cap (PlanStep \ P) = {}
    BY <1>5, <2>1 DEF Acyclic
  <2> QED
    BY <1>3, <1>4, <2>2
<1>6. ASSUME P = PlanStep, NEW S \in SUBSET PlanStep, S # {} PROVE \E s \in S : ToSet(needs[s]) \cap S = {}
  <2> DEFINE Met == {i \in DOMAIN q : ToSet(q[i]) \cap S # {}}
  <2>1. q \in Seq(Seq(PlanStep)) /\ Len(q) \in Nat /\ DOMAIN q = 1 .. Len(q)
    BY <1>1, LenProperties DEF SortInv
  <2>2. Met \in SUBSET Nat
    BY <2>1
  <2>3. Met # {}
    <3>1. PICK s \in S : TRUE
      BY <1>6
    <3>2. \E i \in DOMAIN q : s \in ToSet(q[i])
      BY <1>1, <1>6 DEF SortInv
    <3> QED
      BY <3>2
  <2> HIDE DEF Met
  <2>4. PICK i \in Met : \A j \in Met : i <= j
    BY <2>2, <2>3, LeastExists
  <2>5. i \in DOMAIN q /\ i \in Nat
    BY <2>2 DEF Met
  <2>6. PICK s \in ToSet(q[i]) : s \in S
    BY <2>4 DEF Met
  <2>7. ASSUME NEW d \in ToSet(needs[s]), d \in S PROVE FALSE
    <3>1. PICK j \in 1 .. i - 1 : d \in ToSet(q[j])
      BY <1>1, <2>5, <2>6 DEF SortInv
    <3>2. j \in DOMAIN q /\ ~(i <= j)
      BY <2>1, <2>5
    <3> QED
      BY <2>4, <2>7, <3>1, <3>2 DEF Met
  <2> QED
    BY <2>6, <2>7
<1> QED
  BY <1>2, <1>5, <1>6 DEF Acyclic, Sorts

LEMMA PlansInvImplies == PlansInv => PlannerSound
<1> SUFFICES ASSUME PlansInv PROVE PlannerSound
  OBVIOUS
<1> DEFINE k == Kahn(needs)
           q == Phases(needs)
<1>1. SortInv(PlanStep, needs, k) /\ q = k.phases
  BY PlanStepFacts, KahnEnds DEF PlansInv, Phases
<1>2. ASSUME Acyclic PROVE Resolves(needs)
  <2>1. DOMAIN needs = PlanStep
    BY DEF PlansInv
  <2>2. \A s \in PlanStep : ToSet(needs[s]) \subseteq PlanStep
    BY RangeIn DEF ToSet, PlansInv
  <2>3. ASSUME NEW s \in PlanStep PROVE s \notin ToSet(needs[s])
    <3>1. {s} \in SUBSET PlanStep /\ {s} # {}
      OBVIOUS
    <3> QED
      BY <1>2, <3>1 DEF Acyclic
  <2> QED
    BY <2>1, <2>2, <2>3 DEF Resolves
<1>3. Plans(needs) <=> Acyclic
  BY <1>2, SortsAcyclic DEF Plans
<1>4. ASSUME Plans(needs) PROVE EachStepOnce(q)
  <2>1. UNION {ToSet(q[i]) : i \in DOMAIN q} = PlanStep
    <3>1. k.processed = PlanStep
      BY <1>4 DEF Plans, Sorts, PlansInv
    <3> QED
      BY <1>1, <3>1 DEF SortInv
  <2>2. \A i, j \in DOMAIN q : i # j => ToSet(q[i]) \cap ToSet(q[j]) = {}
    BY <1>1 DEF SortInv
  <2>3. ASSUME NEW i \in DOMAIN q PROVE Len(q[i]) = Cardinality(ToSet(q[i]))
    <3>1. Distinct(q[i]) /\ q[i] \in Seq(PlanStep)
      BY <1>1, ElementOfSeq DEF SortInv
    <3> QED
      BY <3>1, DistinctLength
  <2> QED
    BY <2>1, <2>2, <2>3 DEF EachStepOnce
<1>5. NeedsBefore(q)
  <2> SUFFICES ASSUME NEW i \in DOMAIN q, NEW j \in DOMAIN q, NEW s \in ToSet(q[i]), NEW d \in ToSet(q[j]),
                      d \in ToSet(needs[s])
               PROVE  j < i
    BY DEF NeedsBefore
  <2>1. q \in Seq(Seq(PlanStep)) /\ Len(q) \in Nat /\ DOMAIN q = 1 .. Len(q)
    BY <1>1, LenProperties DEF SortInv
  <2>2. PICK m \in 1 .. i - 1 : d \in ToSet(q[m])
    BY <1>1 DEF SortInv
  <2>3. m \in DOMAIN q /\ m < i
    BY <2>1
  <2>4. m = j
    BY <1>1, <2>2, <2>3 DEF SortInv
  <2> QED
    BY <2>3, <2>4
<1>6. NoneWaitsLonger(q)
  BY <1>1 DEF SortInv, NoneWaitsLonger
<1> QED
  BY <1>3, <1>4, <1>5, <1>6 DEF PlannerSound

LEMMA PlansStay == PlansSpec => []PlansInv
<1>1. PlansInit => PlansInv
  <2> SUFFICES ASSUME PlansInit PROVE PlansInv
    OBVIOUS
  <2>1. <<>> \in Seq(PlanStep)
    OBVIOUS
  <2> QED
    BY <2>1 DEF PlansInit, PlansInv
<1>2. PlansInv /\ [PlansNext]_needs => PlansInv'
  <2>1. ASSUME PlansInv, NEW s \in PlanStep, NEW d \in PlanStep, Needs(s, d) PROVE PlansInv'
    <3>1. needs[s] \in Seq(PlanStep) /\ Append(needs[s], d) \in Seq(PlanStep)
      BY <2>1 DEF PlansInv
    <3> QED
      BY <2>1, <3>1 DEF PlansInv, Needs
  <2> QED
    BY <2>1 DEF PlansNext, PlansInv
<1> QED
  BY <1>1, <1>2, PTL DEF PlansSpec

\* What the workflow needs, the planner accepts it when nothing in it is cyclic
\* and only then; and its plan has every step once, after its needs and in the
\* first phase in which it can be.
THEOREM PlannerIsSound == PlansSpec => []PlannerSound
BY PlansStay, PlansInvImplies, PTL

-----------------------------------------------------------------------------
LEMMA MaxFacts ==
  ASSUME NEW S \in SUBSET Nat, IsFiniteSet(S), S # {}
  PROVE  Max(S) \in S /\ \A y \in S : y <= Max(S)
<1> DEFINE n == Cardinality(S)
<1>1. n \in Nat /\ n # 0
  BY FS_CardinalityType, FS_EmptySet
<1>2. n \in 1 .. n
  BY <1>1
<1>3. PICK x \in S : Rank(S, x) = n - 1
  BY <1>2, RanksFacts
<1>4. ASSUME NEW y \in S PROVE x >= y
  <2>1. ~(x < y)
    <3>1. Rank(S, y) \in 0 .. n - 1
      BY RanksFacts
    <3>2. x < y => Rank(S, x) < Rank(S, y)
      BY RanksFacts
    <3> QED
      BY <1>1, <1>3, <3>1, <3>2
  <2> QED
    BY <2>1
<1>5. Max(S) \in S /\ \A y \in S : Max(S) >= y
  BY <1>4 DEF Max
<1> QED
  BY <1>5

\* The largest of the lengths h[d] + b[d], and of zero.
Longest(G, h, b, s) == Max({0} \cup {h[d] + b[d] : d \in G[s]})

LEMMA LongestFacts ==
  ASSUME NEW D, IsFiniteSet(D), NEW G \in [D -> SUBSET D], NEW s \in D, NEW b \in [D -> Nat], NEW h,
         \A d \in G[s] : h[d] \in Nat
  PROVE  /\ Longest(G, h, b, s) \in Nat
         /\ \A d \in G[s] : h[d] + b[d] <= Longest(G, h, b, s)
         /\ Longest(G, h, b, s) = 0 \/ \E d \in G[s] : Longest(G, h, b, s) = h[d] + b[d]
<1> DEFINE L == {h[d] + b[d] : d \in G[s]}
           M == {0} \cup L
<1>1. G[s] \in SUBSET D /\ IsFiniteSet(G[s])
  BY FS_Subset
<1>2. IsFiniteSet(L)
  <2> DEFINE f == [d \in G[s] |-> h[d] + b[d]]
  <2>1. f \in [G[s] -> L] /\ \A x \in L : \E d \in G[s] : f[d] = x
    OBVIOUS
  <2> HIDE DEF f, L
  <2>2. f \in Surjection(G[s], L)
    BY <2>1, Fun_IsSurj
  <2> QED
    BY <1>1, <2>2, FS_Surjection
<1>3. IsFiniteSet(M)
  <2> HIDE DEF L
  <2>1. M = L \cup {0}
    OBVIOUS
  <2> QED
    BY <1>2, <2>1, FS_AddElement
<1>4. M \in SUBSET Nat /\ M # {} /\ 0 \in M
  <2>1. \A d \in G[s] : h[d] + b[d] \in Nat
    BY <1>1
  <2> QED
    BY <2>1
<1>5. \A x \in M : x = 0 \/ x \in L
  OBVIOUS
<1>6. \A d \in G[s] : h[d] + b[d] \in M
  OBVIOUS
<1>7. Longest(G, h, b, s) = Max(M)
  BY DEF Longest
<1>8. \A x \in L : \E d \in G[s] : x = h[d] + b[d]
  OBVIOUS
<1> HIDE DEF M, L
<1>9. Max(M) \in M /\ \A y \in M : y <= Max(M)
  BY <1>3, <1>4, MaxFacts
<1> QED
  BY <1>4, <1>5, <1>6, <1>7, <1>8, <1>9

\* The members of each G[s] rank below s.
Ranked(D, G) ==
  \E N \in Nat : \E r \in [D -> 0 .. N] : \A s \in D : \A d \in G[s] : r[d] < r[s]

\* Of the steps of a set, one has none of the set below it then.
LEMMA LeastRank ==
  ASSUME NEW D, NEW G \in [D -> SUBSET D], Ranked(D, G), NEW B \in SUBSET D, B # {}
  PROVE  \E s \in B : \A d \in G[s] : d \notin B
<1>1. PICK N \in Nat : \E r \in [D -> 0 .. N] : \A s \in D : \A d \in G[s] : r[d] < r[s]
  BY DEF Ranked
<1>2. PICK r \in [D -> 0 .. N] : \A s \in D : \A d \in G[s] : r[d] < r[s]
  BY <1>1
<1> DEFINE R == {r[s] : s \in B}
<1>3. \A s \in D : r[s] \in Nat
  BY <1>1, <1>2
<1>4. R \in SUBSET Nat /\ R # {}
  BY <1>3
<1> HIDE DEF R
<1>5. PICK i \in R : \A j \in R : i <= j
  BY <1>4, LeastExists
<1>6. PICK s \in B : r[s] = i
  BY <1>5 DEF R
<1>7. ASSUME NEW d \in G[s], d \in B PROVE FALSE
  <2>1. r[d] < r[s] /\ r[d] \in Nat /\ r[s] \in Nat
    BY <1>2, <1>3
  <2>2. r[s] <= r[d]
    BY <1>5, <1>6, <1>7 DEF R
  <2> QED
    BY <2>1, <2>2
<1> QED
  BY <1>7

\* There are lengths of longest chains then.
LEMMA LengthsExist ==
  ASSUME NEW D, IsFiniteSet(D), NEW G \in [D -> SUBSET D], Ranked(D, G),
         NEW a \in [D -> Nat], NEW b \in [D -> Nat]
  PROVE  \E h \in [D -> Nat] : h = [s \in D |-> a[s] + Longest(G, h, b, s)]
<1>n. PICK N \in Nat : \E r \in [D -> 0 .. N] : \A s \in D : \A d \in G[s] : r[d] < r[s]
  BY DEF Ranked
<1>r. PICK r \in [D -> 0 .. N] : \A s \in D : \A d \in G[s] : r[d] < r[s]
  BY <1>n
<1> DEFINE Upto(h, n) == /\ h \in [D -> Nat]
                         /\ \A s \in D : r[s] < n => h[s] = a[s] + Longest(G, h, b, s)
           B == {n \in Nat : ~\E h : Upto(h, n)}
<1>1. ASSUME NEW n \in Nat, n \in B, \A m \in B : n <= m PROVE FALSE
  <2>1. CASE n = 0
    <3> DEFINE h == [s \in D |-> 0]
    <3>1. h \in [D -> Nat] /\ \A s \in D : ~(r[s] < 0)
      BY <1>n, <1>r
    <3> HIDE DEF h
    <3> QED
      BY <1>1, <2>1, <3>1
  <2>2. CASE n # 0
    <3>1. n - 1 \in Nat /\ n - 1 \notin B
      <4> HIDE DEF B
      <4> QED
        BY <1>1, <2>2
    <3>2. PICK h : Upto(h, n - 1)
      BY <3>1
    <3> DEFINE k == [s \in D |-> IF r[s] < n - 1 THEN h[s] ELSE a[s] + Longest(G, h, b, s)]
    <3>3. \A s \in D : Longest(G, h, b, s) \in Nat
      BY <3>2, LongestFacts
    <3>4. k \in [D -> Nat]
      BY <3>2, <3>3
    <3>5. \A s \in D : r[s] < n - 1 => k[s] = h[s]
      OBVIOUS
    <3>6. \A s \in D : k[s] = a[s] + Longest(G, h, b, s) \/ ~(r[s] < n)
      <4>1. \A s \in D : r[s] < n - 1 => h[s] = a[s] + Longest(G, h, b, s)
        BY <3>2
      <4> QED
        BY <1>n, <1>r, <4>1
    <3> HIDE DEF k
    <3>7. ASSUME NEW s \in D, r[s] < n PROVE Longest(G, k, b, s) = Longest(G, h, b, s)
      <4>1. \A d \in G[s] : d \in D /\ r[d] < n - 1
        BY <1>n, <1>r, <3>7
      <4>2. \A d \in G[s] : k[d] = h[d]
        BY <3>5, <4>1
      <4>3. {k[d] + b[d] : d \in G[s]} = {h[d] + b[d] : d \in G[s]}
        BY <4>2
      <4> QED
        BY <4>3 DEF Longest
    <3>8. \A s \in D : r[s] < n => k[s] = a[s] + Longest(G, k, b, s)
      BY <3>6, <3>7
    <3> QED
      BY <1>1, <3>4, <3>8
  <2> QED
    BY <2>1, <2>2
<1>2. B = {}
  <2> HIDE DEF B
  <2>1. B \subseteq Nat
    BY DEF B
  <2> QED
    BY <1>1, <2>1, LeastExists
<1>3. PICK h : Upto(h, N + 1)
  <2>1. N + 1 \in Nat
    BY <1>n
  <2>2. N + 1 \notin B
    <3> HIDE DEF B
    <3> QED
      BY <1>2
  <2> HIDE DEF Upto
  <2> QED
    BY <2>1, <2>2
<1>4. \A s \in D : r[s] < N + 1
  BY <1>n, <1>r
<1>5. \A s \in D : h[s] = a[s] + Longest(G, h, b, s)
  BY <1>3, <1>4
<1>6. h \in [D -> Nat]
  BY <1>3
<1>7. h = [s \in D |-> a[s] + Longest(G, h, b, s)]
  BY <1>5, <1>6
<1> QED
  BY <1>6, <1>7

NeedsOf == [s \in PlanStep |-> ToSet(needs[s])]
Dependents == [s \in PlanStep |-> DependentsOf(needs, s)]

LEMMA GraphFacts ==
  ASSUME PlansInv
  PROVE  /\ NeedsOf \in [PlanStep -> SUBSET PlanStep] /\ Dependents \in [PlanStep -> SUBSET PlanStep]
         /\ \A s, d \in PlanStep : d \in NeedsOf[s] <=> s \in Dependents[d]
         /\ \A s \in PlanStep : NeedsOf[s] = ToSet(needs[s]) /\ Dependents[s] = DependentsOf(needs, s)
         /\ DOMAIN needs = PlanStep
<1>1. DOMAIN needs = PlanStep
  BY DEF PlansInv
<1>2. \A s \in PlanStep : ToSet(needs[s]) \subseteq PlanStep
  BY RangeIn DEF ToSet, PlansInv
<1> QED
  BY <1>1, <1>2 DEF NeedsOf, Dependents, DependentsOf

\* The steps of an acyclic workflow have ranks, the phases of their plan.
LEMMA RanksOfSteps ==
  ASSUME PlansInv, Acyclic
  PROVE  Ranked(PlanStep, NeedsOf) /\ Ranked(PlanStep, Dependents)
<1> DEFINE k == Kahn(needs)
           q == k.phases
           N == Len(q)
           r == [s \in PlanStep |-> CHOOSE i \in DOMAIN q : s \in ToSet(q[i])]
<1>1. SortInv(PlanStep, needs, k)
  BY PlanStepFacts, KahnEnds DEF PlansInv
<1>2. k.processed = PlanStep
  BY SortsAcyclic DEF Sorts, PlansInv
<1>3. N \in Nat /\ DOMAIN q = 1 .. N
  BY <1>1, LenProperties DEF SortInv
<1>4. \A s \in PlanStep : r[s] \in DOMAIN q /\ s \in ToSet(q[r[s]])
  BY <1>1, <1>2 DEF SortInv
<1>5. r \in [PlanStep -> DOMAIN q]
  BY <1>4
<1> HIDE DEF r
<1>6. r \in [PlanStep -> 0 .. N]
  BY <1>3, <1>5
<1>7. ASSUME NEW s \in PlanStep, NEW d \in ToSet(needs[s]) PROVE r[d] < r[s]
  <2>1. d \in PlanStep
    BY RangeIn DEF ToSet, PlansInv
  <2>2. PICK j \in 1 .. r[s] - 1 : d \in ToSet(q[j])
    <3>1. \A i \in DOMAIN q : \A x \in ToSet(q[i]) : \A y \in ToSet(needs[x]) :
            \E j \in 1 .. i - 1 : y \in ToSet(q[j])
      BY <1>1 DEF SortInv
    <3> HIDE DEF q
    <3> QED
      BY <1>4, <3>1
  <2>3. j \in DOMAIN q /\ j < r[s]
    BY <1>3, <1>4, <2>2
  <2>4. j = r[d]
    BY <1>1, <1>4, <2>1, <2>2, <2>3 DEF SortInv
  <2> QED
    BY <2>3, <2>4
<1>8. \A s \in PlanStep : \A d \in NeedsOf[s] : r[d] < r[s]
  BY <1>7, GraphFacts
<1> DEFINE t == [s \in PlanStep |-> N - r[s]]
<1>9. t \in [PlanStep -> 0 .. N]
  BY <1>3, <1>6
<1>10. \A s \in PlanStep : \A d \in Dependents[s] : t[d] < t[s]
  <2> SUFFICES ASSUME NEW s \in PlanStep, NEW d \in Dependents[s] PROVE t[d] < t[s]
    OBVIOUS
  <2>1. d \in PlanStep /\ s \in NeedsOf[d]
    BY GraphFacts
  <2>2. r[s] < r[d]
    BY <1>8, <2>1
  <2> QED
    BY <1>3, <1>6, <2>1, <2>2
<1> HIDE DEF t, N
<1>11. Ranked(PlanStep, NeedsOf)
  BY <1>3, <1>6, <1>8 DEF Ranked
<1>12. Ranked(PlanStep, Dependents)
  BY <1>3, <1>9, <1>10 DEF Ranked
<1> QED
  BY <1>11, <1>12

LEMMA EarliestFacts ==
  ASSUME PlansInv, Acyclic, NEW dur \in [PlanStep -> Nat]
  PROVE  LET e == Earliest(needs, dur)
         IN  e \in [PlanStep -> Nat] /\ \A s \in PlanStep : e[s] = Longest(NeedsOf, e, dur, s)
<1> DEFINE Is(f) == f = [s \in DOMAIN needs |-> Max({0} \cup {f[d] + dur[d] : d \in ToSet(needs[s])})]
           e == Earliest(needs, dur)
           zero == [s \in PlanStep |-> 0]
<1>2. PICK h \in [PlanStep -> Nat] : h = [s \in PlanStep |-> zero[s] + Longest(NeedsOf, h, dur, s)]
  <2>1. zero \in [PlanStep -> Nat] /\ NeedsOf \in [PlanStep -> SUBSET PlanStep]
    BY GraphFacts
  <2> HIDE DEF zero
  <2> QED
    <3>1. Ranked(PlanStep, NeedsOf) /\ IsFiniteSet(PlanStep)
      BY RanksOfSteps, PlanStepFacts
    <3> QED
      BY <2>1, <3>1, LengthsExist
<1>3. Is(h)
  <2>1. \A s \in PlanStep : Longest(NeedsOf, h, dur, s) \in Nat
    BY PlanStepFacts, GraphFacts, LongestFacts
  <2>2. \A s \in PlanStep : h[s] = Longest(NeedsOf, h, dur, s)
    BY <1>2, <2>1
  <2>3. h = [s \in PlanStep |-> Longest(NeedsOf, h, dur, s)]
    BY <2>2
  <2>4. \A s \in PlanStep : Longest(NeedsOf, h, dur, s) = Max({0} \cup {h[d] + dur[d] : d \in ToSet(needs[s])})
    BY GraphFacts DEF Longest
  <2> QED
    BY <2>3, <2>4, GraphFacts
<1>4. Is(e)
  <2>1. e = CHOOSE f : Is(f)
    BY DEF Earliest
  <2> HIDE DEF Is, e
  <2> QED
    BY <1>3, <2>1
<1>5. DOMAIN e = PlanStep /\ \A s \in PlanStep : e[s] = Longest(NeedsOf, e, dur, s)
  <2>1. \A s \in PlanStep : Longest(NeedsOf, e, dur, s) = Max({0} \cup {e[d] + dur[d] : d \in ToSet(needs[s])})
    BY GraphFacts DEF Longest
  <2> HIDE DEF e
  <2> QED
    BY <1>4, <2>1, GraphFacts
<1> HIDE DEF e, Is
<1>6. \A s \in PlanStep : e[s] \in Nat
  <2> DEFINE B == {s \in PlanStep : e[s] \notin Nat}
  <2> SUFFICES ASSUME B # {} PROVE FALSE
    OBVIOUS
  <2>1. PICK s \in B : \A d \in NeedsOf[s] : d \notin B
    <3>1. B \in SUBSET PlanStep
      OBVIOUS
    <3>2. Ranked(PlanStep, NeedsOf) /\ NeedsOf \in [PlanStep -> SUBSET PlanStep]
      BY RanksOfSteps, GraphFacts
    <3> HIDE DEF B
    <3> QED
      BY <3>1, <3>2, LeastRank
  <2>2. \A d \in NeedsOf[s] : d \in PlanStep
    BY GraphFacts
  <2>3. \A d \in NeedsOf[s] : e[d] \in Nat
    BY <2>1, <2>2
  <2>4. Longest(NeedsOf, e, dur, s) \in Nat
    BY <2>3, PlanStepFacts, GraphFacts, LongestFacts
  <2> QED
    BY <1>5, <2>4
<1>7. e \in [PlanStep -> Nat]
  <2>1. e = [s \in PlanStep |-> e[s]]
    BY <1>4, <1>5, GraphFacts DEF Is
  <2> QED
    BY <1>6, <2>1
<1> QED
  BY <1>5, <1>7 DEF e

NoTime == [s \in PlanStep |-> 0]

LEMMA RemainingFacts ==
  ASSUME PlansInv, Acyclic, NEW dur \in [PlanStep -> Nat]
  PROVE  LET left == Remaining(dur)
         IN  left \in [PlanStep -> Nat] /\ \A s \in PlanStep : left[s] = dur[s] + Longest(Dependents, left, NoTime, s)
<1> DEFINE Is(f) == f = [s \in PlanStep |-> dur[s] + Max({0} \cup {f[d] : d \in DependentsOf(needs, s)})]
           left == Remaining(dur)
<1>1. /\ NoTime \in [PlanStep -> Nat] /\ Dependents \in [PlanStep -> SUBSET PlanStep]
      /\ Ranked(PlanStep, Dependents) /\ IsFiniteSet(PlanStep)
  BY GraphFacts, RanksOfSteps, PlanStepFacts DEF NoTime
<1>2. PICK h \in [PlanStep -> Nat] : h = [s \in PlanStep |-> dur[s] + Longest(Dependents, h, NoTime, s)]
  BY <1>1, LengthsExist
<1>3. ASSUME NEW f, NEW s \in PlanStep, \A d \in Dependents[s] : f[d] \in Nat
      PROVE  Longest(Dependents, f, NoTime, s) = Max({0} \cup {f[d] : d \in DependentsOf(needs, s)})
  <2>1. Dependents[s] = DependentsOf(needs, s) /\ Dependents[s] \in SUBSET PlanStep
    BY GraphFacts
  <2>2. \A d \in Dependents[s] : f[d] + NoTime[d] = f[d]
    BY <1>3, <2>1 DEF NoTime
  <2>3. {f[d] + NoTime[d] : d \in Dependents[s]} = {f[d] : d \in DependentsOf(needs, s)}
    BY <2>1, <2>2
  <2> QED
    BY <2>3 DEF Longest
<1>4. Is(h)
  <2>1. \A s \in PlanStep : \A d \in Dependents[s] : h[d] \in Nat
    BY <1>1
  <2>2. \A s \in PlanStep : Longest(Dependents, h, NoTime, s) = Max({0} \cup {h[d] : d \in DependentsOf(needs, s)})
    BY <1>3, <2>1
  <2> QED
    BY <1>2, <2>2
<1>5. Is(left)
  <2>1. left = CHOOSE f : Is(f)
    BY DEF Remaining
  <2> HIDE DEF Is, left
  <2> QED
    BY <1>4, <2>1
<1> HIDE DEF left
<1>6. \A s \in PlanStep : left[s] = dur[s] + Max({0} \cup {left[d] : d \in DependentsOf(needs, s)})
  BY <1>5
<1>7. \A s \in PlanStep : left[s] \in Nat
  <2> DEFINE B == {s \in PlanStep : left[s] \notin Nat}
  <2> SUFFICES ASSUME B # {} PROVE FALSE
    OBVIOUS
  <2>1. PICK s \in B : \A d \in Dependents[s] : d \notin B
    <3>1. B \in SUBSET PlanStep
      OBVIOUS
    <3> HIDE DEF B
    <3> QED
      BY <1>1, <3>1, LeastRank
  <2>2. \A d \in Dependents[s] : left[d] \in Nat
    BY <1>1, <2>1
  <2>3. Longest(Dependents, left, NoTime, s) \in Nat
    BY <1>1, <2>2, LongestFacts
  <2>4. left[s] = dur[s] + Longest(Dependents, left, NoTime, s)
    BY <1>3, <1>6, <2>2
  <2> QED
    BY <2>3, <2>4
<1>8. left \in [PlanStep -> Nat]
  <2>1. left = [s \in PlanStep |-> left[s]]
    BY <1>5
  <2> QED
    BY <1>7, <2>1
<1>9. \A s \in PlanStep : left[s] = dur[s] + Longest(Dependents, left, NoTime, s)
  <2>1. \A s \in PlanStep : \A d \in Dependents[s] : left[d] \in Nat
    BY <1>1, <1>7
  <2> QED
    BY <1>3, <1>6, <2>1
<1> QED
  BY <1>8, <1>9 DEF left

\* The largest of the members of a set of steps under f, and of zero.
LEMMA LargestFacts ==
  ASSUME NEW f \in [PlanStep -> Nat]
  PROVE  LET m == Max({0} \cup {f[s] : s \in PlanStep})
         IN  m \in Nat /\ (\A s \in PlanStep : f[s] <= m) /\ (m = 0 \/ \E s \in PlanStep : m = f[s])
<1> DEFINE G == [s \in PlanStep \cup {0} |-> PlanStep]
           D == PlanStep \cup {0}
           h == [s \in D |-> IF s = 0 THEN 0 ELSE f[s]]
           b == [s \in D |-> 0]
           m == Max({0} \cup {f[s] : s \in PlanStep})
<1>1. IsFiniteSet(D) /\ 0 \in D /\ G \in [D -> SUBSET D] /\ G[0] = PlanStep /\ b \in [D -> Nat]
  BY PlanStepFacts, FS_AddElement
<1>2. \A s \in PlanStep : h[s] = f[s] /\ b[s] = 0 /\ h[s] \in Nat
  BY DEF PlanStep
<1> HIDE DEF G, D, h, b
<1>3. \A s \in PlanStep : h[s] + b[s] = f[s]
  BY <1>2
<1>4. {h[s] + b[s] : s \in G[0]} = {f[s] : s \in PlanStep}
  BY <1>1, <1>3
<1>5. Longest(G, h, b, 0) = m
  BY <1>4 DEF Longest
<1>6. /\ Longest(G, h, b, 0) \in Nat
      /\ \A d \in G[0] : h[d] + b[d] <= Longest(G, h, b, 0)
      /\ Longest(G, h, b, 0) = 0 \/ \E d \in G[0] : Longest(G, h, b, 0) = h[d] + b[d]
  <2>1. \A d \in G[0] : h[d] \in Nat
    BY <1>1, <1>2
  <2> QED
    BY <1>1, <2>1, LongestFacts
<1> HIDE DEF m
<1> QED
  BY <1>1, <1>3, <1>5, <1>6 DEF m

\* A step that must be done by the first of what its dependents have for their
\* latest starts starts as much before the end as the longest chain takes.
LEMMA LatestFacts ==
  ASSUME PlansInv, Acyclic, NEW dur \in [PlanStep -> Nat], Duration(needs, dur) \in Nat,
         \A s \in PlanStep : Remaining(dur)[s] <= Duration(needs, dur)
  PROVE  \A s \in PlanStep : Latest(needs, dur)[s] = Duration(needs, dur) - Remaining(dur)[s]
<1> DEFINE E == Duration(needs, dur)
           left == Remaining(dur)
           Is(f) == f = [s \in DOMAIN needs |-> Min({E} \cup {f[d] : d \in DependentsOf(needs, s)}) - dur[s]]
           l == Latest(needs, dur)
           h == [s \in PlanStep |-> E - left[s]]
<1>1. /\ NoTime \in [PlanStep -> Nat] /\ Dependents \in [PlanStep -> SUBSET PlanStep]
      /\ Ranked(PlanStep, Dependents) /\ IsFiniteSet(PlanStep)
  BY GraphFacts, RanksOfSteps, PlanStepFacts DEF NoTime
<1>2. left \in [PlanStep -> Nat] /\ \A s \in PlanStep : left[s] = dur[s] + Longest(Dependents, left, NoTime, s)
  BY RemainingFacts
<1>3. E \in Nat /\ \A s \in PlanStep : left[s] <= E
  OBVIOUS
<1> HIDE DEF E, left
<1>4. ASSUME NEW f, NEW s \in PlanStep, \A d \in Dependents[s] : f[d] = E - left[d]
      PROVE  Min({E} \cup {f[d] : d \in DependentsOf(needs, s)}) - dur[s] = E - left[s]
  <2> DEFINE M == {E} \cup {f[d] : d \in DependentsOf(needs, s)}
             L == Longest(Dependents, left, NoTime, s)
  <2>1. Dependents[s] = DependentsOf(needs, s) /\ Dependents[s] \in SUBSET PlanStep
    BY GraphFacts
  <2>2. \A d \in Dependents[s] : left[d] \in Nat /\ left[d] + NoTime[d] = left[d] /\ left[d] <= E
    BY <1>2, <1>3, <2>1 DEF NoTime
  <2>3. /\ L \in Nat /\ \A d \in Dependents[s] : left[d] + NoTime[d] <= L
        /\ L = 0 \/ \E d \in Dependents[s] : L = left[d] + NoTime[d]
    BY <1>1, <2>2, LongestFacts
  <2>4. M \in SUBSET Nat /\ M # {}
    BY <1>3, <1>4, <2>1, <2>2
  <2>5. E - L \in M
    BY <1>3, <1>4, <2>1, <2>2, <2>3
  <2>6. \A m \in M : E - L <= m
    BY <1>3, <1>4, <2>1, <2>2, <2>3
  <2> HIDE DEF M
  <2>7. Min(M) \in M /\ \A j \in M : Min(M) <= j
    BY <2>4, MinFacts
  <2>8. Min(M) = E - L
    <3>1. Min(M) \in Nat /\ Min(M) <= E - L /\ E - L <= Min(M)
      BY <2>4, <2>5, <2>6, <2>7
    <3> QED
      BY <1>3, <2>3, <3>1
  <2>9. left[s] = dur[s] + L
    BY <1>2
  <2> QED
    BY <1>3, <2>3, <2>8, <2>9 DEF M
<1>5. Is(h)
  <2>1. \A s \in PlanStep : \A d \in Dependents[s] : h[d] = E - left[d]
    BY <1>1
  <2>2. \A s \in PlanStep : h[s] = Min({E} \cup {h[d] : d \in DependentsOf(needs, s)}) - dur[s]
    BY <1>4, <2>1
  <2>3. h = [s \in PlanStep |-> h[s]]
    OBVIOUS
  <2> HIDE DEF h
  <2> QED
    BY <2>2, <2>3, GraphFacts
<1>6. Is(l)
  <2>1. l = CHOOSE f : Is(f)
    BY DEF Latest, E
  <2> HIDE DEF Is, l
  <2> QED
    BY <1>5, <2>1
<1> HIDE DEF l
<1>7. \A s \in PlanStep : l[s] = Min({E} \cup {l[d] : d \in DependentsOf(needs, s)}) - dur[s]
  BY <1>6, GraphFacts
<1>8. \A s \in PlanStep : l[s] = E - left[s]
  <2> DEFINE B == {s \in PlanStep : l[s] # E - left[s]}
  <2> SUFFICES ASSUME B # {} PROVE FALSE
    OBVIOUS
  <2>1. PICK s \in B : \A d \in Dependents[s] : d \notin B
    <3>1. B \in SUBSET PlanStep
      OBVIOUS
    <3> HIDE DEF B
    <3> QED
      BY <1>1, <3>1, LeastRank
  <2>2. \A d \in Dependents[s] : l[d] = E - left[d]
    BY <1>1, <2>1
  <2>3. s \in PlanStep /\ l[s] # E - left[s]
    OBVIOUS
  <2> HIDE DEF B, Is, h
  <2>4. Min({E} \cup {l[d] : d \in DependentsOf(needs, s)}) - dur[s] = E - left[s]
    BY <1>4, <2>2, <2>3
  <2> QED
    BY <1>7, <2>3, <2>4
<1> QED
  BY <1>8 DEF E, left, l

LEMMA CriticalPathFacts == PlansInv => CriticalPathIsLongest
<1> SUFFICES ASSUME PlansInv, Acyclic, NEW dur \in [PlanStep -> Durations]
             PROVE  LET before == Earliest(needs, dur)
                        left == Remaining(dur)
                        total == Max({0} \cup {left[s] : s \in PlanStep})
                    IN /\ Duration(needs, dur) = total
                       /\ CriticalPath(needs, dur) = {s \in PlanStep : before[s] + left[s] = total}
  BY DEF CriticalPathIsLongest
<1> DEFINE before == Earliest(needs, dur)
           left == Remaining(dur)
           ends == [s \in PlanStep |-> before[s] + dur[s]]
           total == Max({0} \cup {left[s] : s \in PlanStep})
           E == Duration(needs, dur)
<1>1. dur \in [PlanStep -> Nat]
  BY WorkflowPlansAssumption
<1>2. /\ NoTime \in [PlanStep -> Nat] /\ IsFiniteSet(PlanStep)
      /\ NeedsOf \in [PlanStep -> SUBSET PlanStep] /\ Dependents \in [PlanStep -> SUBSET PlanStep]
      /\ Ranked(PlanStep, NeedsOf) /\ Ranked(PlanStep, Dependents)
      /\ \A s, d \in PlanStep : d \in NeedsOf[s] <=> s \in Dependents[d]
  BY GraphFacts, RanksOfSteps, PlanStepFacts DEF NoTime
<1>3. before \in [PlanStep -> Nat] /\ \A s \in PlanStep : before[s] = Longest(NeedsOf, before, dur, s)
  BY <1>1, EarliestFacts
<1>4. left \in [PlanStep -> Nat] /\ \A s \in PlanStep : left[s] = dur[s] + Longest(Dependents, left, NoTime, s)
  BY <1>1, RemainingFacts
<1>5. ends \in [PlanStep -> Nat] /\ \A s \in PlanStep : ends[s] = before[s] + dur[s]
  BY <1>1, <1>3
<1>6. E = Max({0} \cup {ends[s] : s \in PlanStep})
  <2>1. {ends[s] : s \in PlanStep} = {before[s] + dur[s] : s \in DOMAIN needs}
    BY <1>5, GraphFacts
  <2> HIDE DEF ends
  <2> QED
    BY <2>1 DEF Duration
<1> HIDE DEF before, left, ends
<1>7. E \in Nat /\ (\A s \in PlanStep : before[s] + dur[s] <= E) /\ (E = 0 \/ \E s \in PlanStep : E = before[s] + dur[s])
  BY <1>5, <1>6, LargestFacts
<1>8. total \in Nat /\ (\A s \in PlanStep : left[s] <= total) /\ (total = 0 \/ \E s \in PlanStep : total = left[s])
  BY <1>4, LargestFacts
<1> HIDE DEF E, total
<1>9. \A s \in PlanStep : \A d \in NeedsOf[s] :
        d \in PlanStep /\ before[d] + dur[d] <= before[s] /\ dur[d] + left[s] <= left[d]
  <2> SUFFICES ASSUME NEW s \in PlanStep, NEW d \in NeedsOf[s]
               PROVE  d \in PlanStep /\ before[d] + dur[d] <= before[s] /\ dur[d] + left[s] <= left[d]
    OBVIOUS
  <2>1. d \in PlanStep /\ s \in Dependents[d]
    BY <1>2
  <2>2. before[d] + dur[d] <= Longest(NeedsOf, before, dur, s)
    <3>1. \A t \in NeedsOf[s] : before[t] \in Nat
      BY <1>2, <1>3
    <3> QED
      BY <1>1, <1>2, <3>1, LongestFacts
  <2>3. left[s] + NoTime[s] <= Longest(Dependents, left, NoTime, d) /\ Longest(Dependents, left, NoTime, d) \in Nat
    <3>1. \A t \in Dependents[d] : left[t] \in Nat
      BY <1>2, <1>4, <2>1
    <3> QED
      BY <1>2, <2>1, <3>1, LongestFacts
  <2>4. left[s] \in Nat /\ dur[d] \in Nat /\ NoTime[s] = 0
    BY <1>1, <1>4, <2>1 DEF NoTime
  <2> QED
    BY <1>3, <1>4, <2>1, <2>2, <2>3, <2>4
\* Along the needs the sum grows to at most the total.
<1>10. \A s \in PlanStep : before[s] + left[s] <= total
  <2> DEFINE B == {s \in PlanStep : ~(before[s] + left[s] <= total)}
  <2> SUFFICES ASSUME B # {} PROVE FALSE
    OBVIOUS
  <2>1. PICK s \in B : \A d \in NeedsOf[s] : d \notin B
    <3>1. B \in SUBSET PlanStep
      OBVIOUS
    <3> HIDE DEF B
    <3> QED
      BY <1>2, <3>1, LeastRank
  <2>2. \A d \in NeedsOf[s] : d \in PlanStep /\ before[d] + left[d] <= total
    BY <1>2, <2>1
  <2>3. before[s] = 0 \/ \E d \in NeedsOf[s] : before[s] = before[d] + dur[d]
    <3>1. \A t \in NeedsOf[s] : before[t] \in Nat
      BY <1>2, <1>3
    <3>2. \/ Longest(NeedsOf, before, dur, s) = 0
          \/ \E d \in NeedsOf[s] : Longest(NeedsOf, before, dur, s) = before[d] + dur[d]
      <4>1. s \in PlanStep
        OBVIOUS
      <4>2. NeedsOf \in [PlanStep -> SUBSET PlanStep] /\ IsFiniteSet(PlanStep)
        BY <1>2
      <4> HIDE DEF B
      <4> QED
        BY <1>1, <3>1, <4>1, <4>2, LongestFacts
    <3> QED
      BY <1>3, <3>2
  <2>4. CASE before[s] = 0
    BY <1>4, <1>8, <2>4
  <2>5. ASSUME NEW d \in NeedsOf[s], before[s] = before[d] + dur[d] PROVE FALSE
    <3>1. d \in PlanStep /\ before[d] + left[d] <= total /\ dur[d] + left[s] <= left[d]
      BY <1>9, <2>2
    <3>2. before[d] \in Nat /\ dur[d] \in Nat /\ left[s] \in Nat /\ left[d] \in Nat
      BY <1>1, <1>3, <1>4, <3>1
    <3> QED
      BY <1>8, <2>5, <3>1, <3>2
  <2> QED
    BY <2>3, <2>4, <2>5
\* Along the dependents, to at most the duration.
<1>11. \A s \in PlanStep : before[s] + left[s] <= E
  <2> DEFINE B == {s \in PlanStep : ~(before[s] + left[s] <= E)}
  <2> SUFFICES ASSUME B # {} PROVE FALSE
    OBVIOUS
  <2>1. PICK s \in B : \A d \in Dependents[s] : d \notin B
    <3>1. B \in SUBSET PlanStep
      OBVIOUS
    <3> HIDE DEF B
    <3> QED
      BY <1>2, <3>1, LeastRank
  <2>2. \A d \in Dependents[s] : d \in PlanStep /\ before[d] + left[d] <= E
    BY <1>2, <2>1
  <2>3. left[s] = dur[s] \/ \E d \in Dependents[s] : left[s] = dur[s] + left[d]
    <3>1. \A t \in Dependents[s] : left[t] \in Nat /\ left[t] + NoTime[t] = left[t]
      BY <1>2, <1>4 DEF NoTime
    <3>2. \/ Longest(Dependents, left, NoTime, s) = 0
          \/ \E d \in Dependents[s] : Longest(Dependents, left, NoTime, s) = left[d] + NoTime[d]
      BY <1>2, <3>1, LongestFacts
    <3>3. dur[s] \in Nat
      BY <1>1
    <3> QED
      BY <1>4, <3>1, <3>2, <3>3
  <2>4. CASE left[s] = dur[s]
    BY <1>7, <2>4
  <2>5. ASSUME NEW d \in Dependents[s], left[s] = dur[s] + left[d] PROVE FALSE
    <3>1. d \in PlanStep /\ before[d] + left[d] <= E /\ before[s] + dur[s] <= before[d]
      BY <1>2, <1>9, <2>2
    <3>2. before[d] \in Nat /\ dur[s] \in Nat /\ before[s] \in Nat /\ left[d] \in Nat
      BY <1>1, <1>3, <1>4, <3>1
    <3> QED
      BY <1>7, <2>5, <3>1, <3>2
  <2> QED
    BY <2>3, <2>4, <2>5
<1>12. \A s \in PlanStep : dur[s] <= left[s] /\ left[s] <= E /\ before[s] \in Nat /\ left[s] \in Nat
  <2>1. \A s \in PlanStep : \A t \in Dependents[s] : left[t] \in Nat
    BY <1>2, <1>4
  <2>2. \A s \in PlanStep : Longest(Dependents, left, NoTime, s) \in Nat
    BY <1>2, <2>1, LongestFacts
  <2> QED
    BY <1>1, <1>3, <1>4, <1>7, <1>11, <2>2
<1>13. E = total
  <2>1. E <= total
    <3>1. \A s \in PlanStep : before[s] + dur[s] <= total
      BY <1>1, <1>8, <1>10, <1>12
    <3> QED
      BY <1>7, <1>8, <3>1
  <2>2. total <= E
    BY <1>7, <1>8, <1>12
  <2> QED
    BY <1>7, <1>8, <2>1, <2>2
<1>14. \A s \in PlanStep : Latest(needs, dur)[s] = E - left[s]
  BY <1>1, <1>7, <1>12, LatestFacts DEF E, left
<1>15. \A s \in PlanStep : Latest(needs, dur)[s] = before[s] <=> before[s] + left[s] = total
  BY <1>7, <1>12, <1>13, <1>14
<1>16. CriticalPath(needs, dur) = {s \in PlanStep : Latest(needs, dur)[s] = before[s]}
  BY GraphFacts DEF CriticalPath, before
<1> QED
  BY <1>13, <1>15, <1>16 DEF E, total, before, left

\* The critical path of an accepted workflow is the steps of its longest
\* chains, and the plan takes as long as those, whatever the steps take.
THEOREM CriticalPathIsTheLongest == PlansSpec => []CriticalPathIsLongest
BY PlansStay, CriticalPathFacts, PTL

-----------------------------------------------------------------------------
(***************************************************************************)
(* Usage queries                                                           *)
(***************************************************************************)
\* The library's sum of a function over a set is the sum above.
LEMMA FunctionSum ==
  ASSUME NEW S, IsFiniteSet(S), NEW f
  PROVE  SumFunctionOnSet(f, S) = SumOf(f, S)
<1> DEFINE P(h) == h = [u \in SUBSET S |-> IF u = {} THEN 0 ELSE f[Pick(u)] + h[u \ {Pick(u)}]]
           m == CHOOSE h : P(h)
           n == CHOOSE h : Adds(h, f, S)
<1>1. SumFunctionOnSet(f, S) = m[S]
  BY DEF SumFunctionOnSet, FoldFunctionOnSet, MapThenFoldSet, Pick
<1>2. \A h : P(h) <=> Adds(h, f, S)
  BY DEF Adds
<1>3. m = n
  BY <1>2
<1> QED
  BY <1>1, <1>3 DEF SumOf

LEMMA SumExtends ==
  ASSUME NEW S, IsFiniteSet(S), NEW x, x \notin S, NEW f, \A y \in S \cup {x} : f[y] \in Nat
  PROVE  SumOf(f, S \cup {x}) = SumOf(f, S) + f[x]
<1>1. IsFiniteSet(S \cup {x}) /\ (S \cup {x}) \ {x} = S
  BY FS_AddElement
<1>2. SumOf(f, S \cup {x}) = f[x] + SumOf(f, S)
  BY <1>1, SumFacts
<1>3. SumOf(f, S) \in Nat /\ f[x] \in Nat
  BY SumFacts
<1> QED
  BY <1>2, <1>3

\* The groups of a set add up to it.
LEMMA GroupsAddUp ==
  ASSUME NEW S, IsFiniteSet(S), NEW K, IsFiniteSet(K), NEW key, \A i \in S : key[i] \in K
  PROVE  SumOf([k \in K |-> Cardinality({i \in S : key[i] = k})], K) = Cardinality(S)
<1> DEFINE Fibre(s, k) == {i \in s : key[i] = k}
           Sizes(s) == [k \in K |-> Cardinality(Fibre(s, k))]
           B == {s \in SUBSET S : SumOf(Sizes(s), K) # Cardinality(s)}
<1>1. \A s \in SUBSET S : /\ IsFiniteSet(s) /\ Cardinality(s) \in Nat
                          /\ \A k \in K : IsFiniteSet(Fibre(s, k)) /\ Sizes(s)[k] = Cardinality(Fibre(s, k))
                                          /\ Sizes(s)[k] \in Nat
  <2> SUFFICES ASSUME NEW s \in SUBSET S, NEW k \in K
               PROVE  /\ IsFiniteSet(s) /\ Cardinality(s) \in Nat
                      /\ IsFiniteSet(Fibre(s, k)) /\ Cardinality(Fibre(s, k)) \in Nat
    <3>1. \A s \in SUBSET S : IsFiniteSet(s) /\ Cardinality(s) \in Nat
      BY FS_Subset, FS_CardinalityType
    <3> QED
      BY <3>1
  <2>1. Fibre(s, k) \in SUBSET S
    OBVIOUS
  <2> HIDE DEF Fibre
  <2> QED
    BY <2>1, FS_Subset, FS_CardinalityType
<1>2. ASSUME NEW s \in B, \A t \in B : t \subseteq s => t = s PROVE FALSE
  <2>0. s \in SUBSET S /\ SumOf(Sizes(s), K) # Cardinality(s)
    OBVIOUS
  <2>1. s # {}
    <3> SUFFICES ASSUME s = {} PROVE SumOf(Sizes(s), K) = 0 /\ Cardinality(s) = 0
      BY <2>0
    <3>1. \A k \in K : Fibre(s, k) = {}
      OBVIOUS
    <3>2. \A k \in K : Sizes(s)[k] = 0
      BY <3>1, FS_EmptySet
    <3> HIDE DEF Sizes
    <3> QED
      BY <3>2, SumOfZeros, FS_EmptySet
  <2>2. PICK x \in s : TRUE
    BY <2>1
  <2> DEFINE t == s \ {x}
             k == key[x]
  <2>3. t \in SUBSET S /\ t # s /\ t \subseteq s /\ k \in K /\ x \in S
    BY <2>0, <2>2
  <2>4. SumOf(Sizes(t), K) = Cardinality(t)
    BY <1>2, <2>3
  <2>5. Cardinality(s) = Cardinality(t) + 1
    BY <2>0, <2>2, <1>1, FS_RemoveElement, FS_CardinalityType
  <2>6. Fibre(s, k) = Fibre(t, k) \cup {x} /\ x \notin Fibre(t, k)
    BY <2>2
  <2>7. \A l \in K \ {k} : Fibre(s, l) = Fibre(t, l)
    BY <2>2
  <2>8. Sizes(s)[k] = Sizes(t)[k] + 1
    <3>1. IsFiniteSet(Fibre(t, k)) /\ Sizes(t)[k] = Cardinality(Fibre(t, k)) /\ Sizes(s)[k] = Cardinality(Fibre(s, k))
      BY <1>1, <2>0, <2>3
    <3> DEFINE A == Fibre(t, k)
    <3>2. Cardinality(A \cup {x}) = Cardinality(A) + 1
      <4>1. IsFiniteSet(A) /\ x \notin A
        BY <2>6, <3>1
      <4> HIDE DEF A
      <4> QED
        BY <4>1, FS_AddElement
    <3> HIDE DEF Fibre, Sizes, k, t
    <3> QED
      BY <2>6, <3>1, <3>2
  <2>9. \A l \in K \ {k} : Sizes(s)[l] = Sizes(t)[l]
    BY <2>7
  <2> HIDE DEF Sizes, Fibre
  <2>10. \A l \in K : Sizes(s)[l] \in Nat /\ Sizes(t)[l] \in Nat
    BY <1>1, <2>0, <2>3
  <2>11. SumOf(Sizes(s), K) = Sizes(s)[k] + SumOf(Sizes(s), K \ {k}) /\ SumOf(Sizes(t), K) = Sizes(t)[k] + SumOf(Sizes(t), K \ {k})
    BY <2>3, <2>10, SumFacts
  <2>12. IsFiniteSet(K \ {k}) /\ SumOf(Sizes(t), K \ {k}) \in Nat
    <3>1. IsFiniteSet(K \ {k})
      BY FS_Subset
    <3> QED
      BY <3>1, <2>10, SumFacts
  <2>13. SumOf(Sizes(s), K \ {k}) = SumOf(Sizes(t), K \ {k})
    BY <2>9, <2>12, SumCongruent
  <2>14. Sizes(t)[k] \in Nat
    BY <2>3, <2>10
  <2> HIDE DEF t, k
  <2> QED
    BY <2>0, <2>4, <2>5, <2>8, <2>11, <2>12, <2>13, <2>14
<1>3. B = {}
  <2> HIDE DEF Sizes
  <2>1. B \in SUBSET SUBSET S
    OBVIOUS
  <2> HIDE DEF B
  <2> QED
    BY <1>2, <2>1, MinimalSubset
<1> QED
  BY <1>3

UsageEvents ==
  [type : EventTypes, time : 1 .. MaxRecorded, workspace : Workspace,
   billable : BOOLEAN, success : BOOLEAN, ms : 0 .. 2]

\* What the counters of a workspace come to in a log.
Marks(log, w, t) == {i \in DOMAIN log : log[i].workspace = w /\ log[i].type = t}
OfWorkspace(log, w) == {i \in DOMAIN log : log[i].workspace = w}
MsIn(log) == [i \in DOMAIN log |-> log[i].ms]
NumberIn(log, w, t) == Cardinality(Marks(log, w, t))
TimeIn(log, w) == SumOf(MsIn(log), OfWorkspace(log, w))

LEMMA LogSets ==
  ASSUME NEW log \in Seq(UsageEvents), NEW w
  PROVE  /\ IsFiniteSet(DOMAIN log) /\ DOMAIN log = 1 .. Len(log) /\ Len(log) \in Nat
         /\ \A i \in DOMAIN log : log[i] \in UsageEvents
         /\ \A t : IsFiniteSet(Marks(log, w, t)) /\ NumberIn(log, w, t) \in Nat
         /\ IsFiniteSet(OfWorkspace(log, w)) /\ TimeIn(log, w) \in Nat
<1>1. /\ DOMAIN log = 1 .. Len(log) /\ Len(log) \in Nat /\ \A i \in DOMAIN log : log[i] \in UsageEvents
  BY LenProperties, ElementOfSeq
<1>2. IsFiniteSet(DOMAIN log)
  BY <1>1, FS_Interval
<1>3. OfWorkspace(log, w) \subseteq DOMAIN log /\ \A t : Marks(log, w, t) \subseteq DOMAIN log
  BY DEF OfWorkspace, Marks
<1>4. IsFiniteSet(OfWorkspace(log, w)) /\ \A t : IsFiniteSet(Marks(log, w, t))
  BY <1>2, <1>3, FS_Subset
<1>5. \A t : NumberIn(log, w, t) \in Nat
  BY <1>4, FS_CardinalityType DEF NumberIn
<1>6. TimeIn(log, w) \in Nat
  <2>1. \A i \in OfWorkspace(log, w) : MsIn(log)[i] \in Nat
    BY <1>1 DEF OfWorkspace, MsIn, UsageEvents
  <2> QED
    BY <1>4, <2>1, SumFacts DEF TimeIn
<1> QED
  BY <1>1, <1>2, <1>4, <1>5, <1>6

\* An event counts for its workspace, in its type, and for its time.
LEMMA EventCounts ==
  ASSUME NEW log \in Seq(UsageEvents), NEW e \in UsageEvents, NEW w
  PROVE  /\ Append(log, e) \in Seq(UsageEvents)
         /\ e.workspace = w => /\ NumberIn(Append(log, e), w, e.type) = NumberIn(log, w, e.type) + 1
                                /\ TimeIn(Append(log, e), w) = TimeIn(log, w) + e.ms
         /\ \A t : t # e.type => NumberIn(Append(log, e), w, t) = NumberIn(log, w, t)
         /\ e.workspace # w => /\ \A t : NumberIn(Append(log, e), w, t) = NumberIn(log, w, t)
                                /\ TimeIn(Append(log, e), w) = TimeIn(log, w)
<1> DEFINE new == Append(log, e)
           n == Len(log) + 1
<1>1. /\ new \in Seq(UsageEvents) /\ Len(new) = n /\ new[n] = e /\ \A i \in 1 .. Len(log) : new[i] = log[i]
  BY AppendProperties
<1>2. /\ DOMAIN new = DOMAIN log \cup {n} /\ n \notin DOMAIN log /\ \A i \in DOMAIN log : new[i] = log[i]
  BY <1>1, LenProperties
<1>3. /\ \A t : IsFiniteSet(Marks(log, w, t)) /\ NumberIn(log, w, t) \in Nat
      /\ IsFiniteSet(OfWorkspace(log, w)) /\ TimeIn(log, w) \in Nat /\ \A i \in DOMAIN log : log[i] \in UsageEvents
  BY LogSets
<1> HIDE DEF new, n
<1>4. ASSUME NEW t, e.workspace # w \/ e.type # t
      PROVE  NumberIn(new, w, t) = NumberIn(log, w, t)
  <2>1. Marks(new, w, t) = Marks(log, w, t)
    BY <1>1, <1>2, <1>4 DEF Marks
  <2> QED
    BY <2>1 DEF NumberIn
<1>5. ASSUME e.workspace = w PROVE NumberIn(new, w, e.type) = NumberIn(log, w, e.type) + 1
  <2>1. Marks(new, w, e.type) = Marks(log, w, e.type) \cup {n} /\ n \notin Marks(log, w, e.type)
    BY <1>1, <1>2, <1>5 DEF Marks
  <2>2. Cardinality(Marks(log, w, e.type) \cup {n}) = Cardinality(Marks(log, w, e.type)) + 1
    BY <1>3, <2>1, FS_AddElement
  <2> QED
    BY <2>1, <2>2 DEF NumberIn
<1>6. \A i \in OfWorkspace(log, w) : MsIn(new)[i] = MsIn(log)[i] /\ MsIn(log)[i] \in Nat
  BY <1>2, <1>3 DEF OfWorkspace, MsIn, UsageEvents
<1>7. SumOf(MsIn(new), OfWorkspace(log, w)) = TimeIn(log, w)
  BY <1>3, <1>6, SumCongruent DEF TimeIn
<1>8. ASSUME e.workspace = w PROVE TimeIn(new, w) = TimeIn(log, w) + e.ms
  <2>1. OfWorkspace(new, w) = OfWorkspace(log, w) \cup {n} /\ n \notin OfWorkspace(log, w)
    BY <1>1, <1>2, <1>8 DEF OfWorkspace
  <2>2. MsIn(new)[n] = e.ms /\ e.ms \in Nat
    BY <1>1, <1>2 DEF MsIn, UsageEvents
  <2>3. \A i \in OfWorkspace(log, w) \cup {n} : MsIn(new)[i] \in Nat
    BY <1>6, <2>2
  <2>4. SumOf(MsIn(new), OfWorkspace(log, w) \cup {n}) = SumOf(MsIn(new), OfWorkspace(log, w)) + MsIn(new)[n]
    BY <1>3, <2>1, <2>3, SumExtends
  <2> QED
    BY <1>7, <2>1, <2>2, <2>4 DEF TimeIn
<1>9. ASSUME e.workspace # w PROVE TimeIn(new, w) = TimeIn(log, w)
  <2>1. OfWorkspace(new, w) = OfWorkspace(log, w)
    BY <1>1, <1>2, <1>9 DEF OfWorkspace
  <2> QED
    BY <1>7, <2>1 DEF TimeIn
<1> QED
  BY <1>1, <1>4, <1>5, <1>8, <1>9 DEF new

LEMMA PairCounts ==
  ASSUME NEW log \in Seq(UsageEvents), NEW e \in UsageEvents, NEW a \in UsageEvents, NEW w,
         e.type = "step", a.type = "adapter", a.workspace = e.workspace, a.ms = e.ms
  PROVE  LET new == Append(Append(log, e), a)
         IN /\ new \in Seq(UsageEvents)
            /\ e.workspace = w =>
                 /\ NumberIn(new, w, "run") = NumberIn(log, w, "run")
                 /\ NumberIn(new, w, "step") = NumberIn(log, w, "step") + 1
                 /\ NumberIn(new, w, "adapter") = NumberIn(log, w, "adapter") + 1
                 /\ TimeIn(new, w) = TimeIn(log, w) + e.ms + e.ms
            /\ e.workspace # w =>
                 (\A t : NumberIn(new, w, t) = NumberIn(log, w, t)) /\ TimeIn(new, w) = TimeIn(log, w)
<1> DEFINE mid == Append(log, e)
           new == Append(mid, a)
<1>1. /\ mid \in Seq(UsageEvents)
      /\ e.workspace = w => NumberIn(mid, w, "step") = NumberIn(log, w, "step") + 1 /\ TimeIn(mid, w) = TimeIn(log, w) + e.ms
      /\ \A t : t # "step" => NumberIn(mid, w, t) = NumberIn(log, w, t)
      /\ e.workspace # w => (\A t : NumberIn(mid, w, t) = NumberIn(log, w, t)) /\ TimeIn(mid, w) = TimeIn(log, w)
  BY EventCounts
<1> HIDE DEF mid
<1>2. /\ new \in Seq(UsageEvents)
      /\ a.workspace = w => NumberIn(new, w, "adapter") = NumberIn(mid, w, "adapter") + 1 /\ TimeIn(new, w) = TimeIn(mid, w) + a.ms
      /\ \A t : t # "adapter" => NumberIn(new, w, t) = NumberIn(mid, w, t)
      /\ a.workspace # w => (\A t : NumberIn(new, w, t) = NumberIn(mid, w, t)) /\ TimeIn(new, w) = TimeIn(mid, w)
  BY <1>1, EventCounts
<1> HIDE DEF new
<1>3. "run" # "step" /\ "run" # "adapter" /\ "step" # "adapter"
  OBVIOUS
<1>4. /\ NumberIn(new, w, "run") = NumberIn(mid, w, "run") /\ NumberIn(mid, w, "run") = NumberIn(log, w, "run")
      /\ NumberIn(new, w, "step") = NumberIn(mid, w, "step")
      /\ NumberIn(mid, w, "adapter") = NumberIn(log, w, "adapter")
  BY <1>1, <1>2, <1>3
<1> QED
  BY <1>1, <1>2, <1>4 DEF new, mid

\* The counters of w, all in one: runs, steps, calls of adapters, time.
Tally(log, w, runs, steps, ms) ==
  /\ log \in Seq(UsageEvents)
  /\ NumberIn(log, w, "run") = runs /\ NumberIn(log, w, "step") = steps
  /\ NumberIn(log, w, "adapter") = steps /\ TimeIn(log, w) = ms

Outcomes == {"fast", "slow", "failed", "skipped"}
Executions(outcome) == IF outcome = "skipped" THEN 0 ELSE 1

LEMMA EventIsOne ==
  ASSUME NEW ran \in RunsRecorded, runsSoFar \in Seq(RunsRecorded), Len(runsSoFar) < MaxRecorded,
         NEW type \in EventTypes, NEW success \in BOOLEAN, NEW ms \in 0 .. 2
  PROVE  /\ UsageEvent(ran, type, success, ms) \in UsageEvents
         /\ UsageEvent(ran, type, success, ms).time = Len(runsSoFar) + 1
<1>1. Len(runsSoFar) + 1 \in 1 .. MaxRecorded
  BY QueriesAssumption, LenProperties
<1> QED
  BY <1>1 DEF UsageEvent, UsageEvents, RunsRecorded

LEMMA StepCounts ==
  ASSUME NEW ran \in RunsRecorded, runsSoFar \in Seq(RunsRecorded), Len(runsSoFar) < MaxRecorded,
         NEW outcome \in Outcomes, NEW w, NEW log, NEW runs \in Nat, NEW steps \in Nat, NEW ms \in Nat,
         Tally(log, w, runs, steps, ms)
  PROVE  IF ran.workspace = w
         THEN Tally(log \o EventsOfStep(ran, outcome), w, runs, steps + Executions(outcome), ms + 2 * MsOf(outcome))
         ELSE Tally(log \o EventsOfStep(ran, outcome), w, runs, steps, ms)
<1>1. CASE outcome = "skipped"
  <2>1. EventsOfStep(ran, outcome) = <<>> /\ log \in Seq(UsageEvents)
    BY <1>1 DEF EventsOfStep, Tally
  <2>2. log \o EventsOfStep(ran, outcome) = log
    BY <2>1, ConcatEmptySeq
  <2>3. Executions(outcome) = 0 /\ MsOf(outcome) = 0
    BY <1>1 DEF Executions, MsOf
  <2>4. steps + Executions(outcome) = steps /\ ms + 2 * MsOf(outcome) = ms
    BY <2>3
  <2> QED
    BY <2>2, <2>4
<1>2. CASE outcome # "skipped"
  <2> DEFINE good == outcome # "failed"
             e == UsageEvent(ran, "step", good, MsOf(outcome))
             a == UsageEvent(ran, "adapter", good, MsOf(outcome))
  <2>1. MsOf(outcome) \in 0 .. 2 /\ good \in BOOLEAN
    BY DEF MsOf, Outcomes
  <2>2. e \in UsageEvents /\ a \in UsageEvents
    <3> HIDE DEF good
    <3> QED
      BY <2>1, EventIsOne DEF EventTypes
  <2>3. /\ e.workspace = ran.workspace /\ e.type = "step" /\ e.ms = MsOf(outcome)
        /\ a.workspace = ran.workspace /\ a.type = "adapter" /\ a.ms = MsOf(outcome)
    BY DEF UsageEvent
  <2>4. EventsOfStep(ran, outcome) = <<e, a>>
    BY <1>2 DEF EventsOfStep
  <2> HIDE DEF e, a, good
  <2>5. log \in Seq(UsageEvents)
    BY DEF Tally
  <2>6. log \o <<e, a>> = Append(Append(log, e), a)
    BY <2>2, <2>5
  <2> DEFINE new == Append(Append(log, e), a)
  <2>8. /\ new \in Seq(UsageEvents)
        /\ ran.workspace = w =>
             /\ NumberIn(new, w, "run") = NumberIn(log, w, "run")
             /\ NumberIn(new, w, "step") = NumberIn(log, w, "step") + 1
             /\ NumberIn(new, w, "adapter") = NumberIn(log, w, "adapter") + 1
             /\ TimeIn(new, w) = TimeIn(log, w) + MsOf(outcome) + MsOf(outcome)
        /\ ran.workspace # w =>
             (\A t : NumberIn(new, w, t) = NumberIn(log, w, t)) /\ TimeIn(new, w) = TimeIn(log, w)
    <3>1. e.type = "step" /\ a.type = "adapter" /\ a.workspace = e.workspace /\ a.ms = e.ms
      BY <2>3
    <3>2. /\ new \in Seq(UsageEvents)
          /\ e.workspace = w =>
               /\ NumberIn(new, w, "run") = NumberIn(log, w, "run")
               /\ NumberIn(new, w, "step") = NumberIn(log, w, "step") + 1
               /\ NumberIn(new, w, "adapter") = NumberIn(log, w, "adapter") + 1
               /\ TimeIn(new, w) = TimeIn(log, w) + e.ms + e.ms
          /\ e.workspace # w =>
               (\A t : NumberIn(new, w, t) = NumberIn(log, w, t)) /\ TimeIn(new, w) = TimeIn(log, w)
      BY <2>2, <2>5, <3>1, PairCounts
    <3> HIDE DEF new
    <3> QED
      BY <2>3, <3>2
  <2>9. log \o EventsOfStep(ran, outcome) = new
    BY <2>4, <2>6
  <2> HIDE DEF new
  <2>10. CASE ran.workspace = w
    <3>1. NumberIn(new, w, "run") = runs /\ NumberIn(new, w, "step") = steps + 1 /\ NumberIn(new, w, "adapter") = steps + 1
      BY <2>8, <2>10 DEF Tally
    <3>2. TimeIn(new, w) = ms + 2 * MsOf(outcome)
      BY <2>1, <2>8, <2>10 DEF Tally
    <3>3. Executions(outcome) = 1
      BY <1>2 DEF Executions
    <3> QED
      BY <2>8, <2>9, <2>10, <3>1, <3>2, <3>3 DEF Tally
  <2>11. CASE ran.workspace # w
    BY <2>8, <2>9, <2>11 DEF Tally
  <2> QED
    BY <2>10, <2>11
<1> QED
  BY <1>1, <1>2

\* A trigger or a run is an event without a step and without time.
LEMMA EventTally ==
  ASSUME NEW e \in UsageEvents, NEW w, NEW log, NEW runs \in Nat, NEW steps \in Nat, NEW ms \in Nat,
         Tally(log, w, runs, steps, ms), e.type \in {"trigger", "run"}, e.ms = 0
  PROVE  IF e.workspace = w /\ e.type = "run" THEN Tally(Append(log, e), w, runs + 1, steps, ms)
         ELSE Tally(Append(log, e), w, runs, steps, ms)
<1> DEFINE new == Append(log, e)
<1>1. log \in Seq(UsageEvents)
  BY DEF Tally
<1>2. /\ new \in Seq(UsageEvents)
      /\ e.workspace = w => NumberIn(new, w, e.type) = NumberIn(log, w, e.type) + 1 /\ TimeIn(new, w) = TimeIn(log, w) + e.ms
      /\ \A t : t # e.type => NumberIn(new, w, t) = NumberIn(log, w, t)
      /\ e.workspace # w => (\A t : NumberIn(new, w, t) = NumberIn(log, w, t)) /\ TimeIn(new, w) = TimeIn(log, w)
  BY <1>1, EventCounts
<1> HIDE DEF new
<1>3. NumberIn(new, w, "step") = NumberIn(log, w, "step") /\ NumberIn(new, w, "adapter") = NumberIn(log, w, "adapter")
  BY <1>2
<1>4. TimeIn(new, w) = ms
  BY <1>2 DEF Tally
<1>5. NumberIn(new, w, "run") = IF e.workspace = w /\ e.type = "run" THEN runs + 1 ELSE runs
  BY <1>2 DEF Tally
<1> QED
  BY <1>2, <1>3, <1>4, <1>5 DEF Tally, new

\* A run has one step or two, and what it executed and took is theirs.
LEMMA ShapeFacts ==
  ASSUME NEW ran \in RunsRecorded
  PROVE  /\ Len(ran.steps) \in {1, 2} /\ ran.steps[1] \in Outcomes
         /\ Len(ran.steps) = 2 => ran.steps[2] \in Outcomes
         /\ ExecutedSteps(ran) \in Nat /\ TimeOf(ran) \in Nat
         /\ ExecutedSteps(ran)
              = Executions(ran.steps[1]) + (IF Len(ran.steps) = 2 THEN Executions(ran.steps[2]) ELSE 0)
         /\ TimeOf(ran) = MsOf(ran.steps[1]) + (IF Len(ran.steps) = 2 THEN MsOf(ran.steps[2]) ELSE 0)
<1> DEFINE steps == ran.steps
           done == {k \in DOMAIN steps : steps[k] # "skipped"}
           f == [k \in DOMAIN steps |-> MsOf(steps[k])]
<1>0. ExecutedSteps(ran) = Cardinality(done) /\ TimeOf(ran) = SumFunctionOnSet(f, DOMAIN steps)
  BY DEF ExecutedSteps, TimeOf
<1>1. \A k \in DOMAIN steps : f[k] = MsOf(steps[k])
  OBVIOUS
<1>2. steps \in {<<"fast">>, <<"failed", "skipped">>, <<"slow", "fast">>}
  BY DEF RunsRecorded
<1> HIDE DEF steps, f
<1>3. /\ MsOf("fast") = 1 /\ MsOf("failed") = 1 /\ MsOf("skipped") = 0 /\ MsOf("slow") = 2
      /\ Executions("fast") = 1 /\ Executions("failed") = 1 /\ Executions("skipped") = 0 /\ Executions("slow") = 1
  BY DEF MsOf, Executions
<1>4. IsFiniteSet({}) /\ Cardinality({}) = 0 /\ IsFiniteSet({1}) /\ Cardinality({1}) = 1
      /\ IsFiniteSet({1, 2}) /\ Cardinality({1, 2}) = 2
  <2>1. IsFiniteSet({1}) /\ Cardinality({1}) = 1
    BY FS_Singleton
  <2>2. {1} \cup {2} = {1, 2} /\ 2 \notin {1}
    OBVIOUS
  <2>3. IsFiniteSet({1} \cup {2}) /\ Cardinality({1} \cup {2}) = Cardinality({1}) + 1
    BY <2>1, <2>2, FS_AddElement
  <2> QED
    BY <2>1, <2>2, <2>3, FS_EmptySet
<1>5. ASSUME DOMAIN steps = {1}, f[1] \in Nat PROVE SumFunctionOnSet(f, DOMAIN steps) = f[1]
  <2>1. SumFunctionOnSet(f, {1}) = SumOf(f, {1})
    BY <1>4, FunctionSum
  <2>2. {1} \ {1} = {} /\ SumOf(f, {1}) = f[1] + SumOf(f, {1} \ {1})
    BY <1>4, <1>5, SumFacts
  <2>3. SumOf(f, {}) = 0
    BY <1>4, SumFacts
  <2> QED
    BY <1>5, <2>1, <2>2, <2>3
<1>6. ASSUME DOMAIN steps = {1, 2}, f[1] \in Nat, f[2] \in Nat PROVE SumFunctionOnSet(f, DOMAIN steps) = f[1] + f[2]
  <2>1. SumFunctionOnSet(f, {1, 2}) = SumOf(f, {1, 2})
    BY <1>4, FunctionSum
  <2>2. SumOf(f, {1, 2}) = f[2] + SumOf(f, {1})
    <3>1. {1, 2} \ {2} = {1} /\ \A y \in {1, 2} : f[y] \in Nat
      BY <1>6
    <3>2. SumOf(f, {1, 2}) = f[2] + SumOf(f, {1, 2} \ {2})
      BY <1>4, <3>1, SumFacts
    <3> QED
      BY <3>1, <3>2
  <2>3. {1} \ {1} = {} /\ SumOf(f, {1}) = f[1] + SumOf(f, {1} \ {1})
    BY <1>4, <1>6, SumFacts
  <2>4. SumOf(f, {}) = 0
    BY <1>4, SumFacts
  <2>5. SumOf(f, {1}) = f[1]
    BY <1>6, <2>3, <2>4
  <2>6. SumOf(f, {1, 2}) = f[1] + f[2]
    BY <1>6, <2>2, <2>5
  <2> QED
    BY <1>6, <2>1, <2>6
<1>7. CASE steps = <<"fast">>
  <2>1. DOMAIN steps = {1} /\ Len(steps) = 1 /\ steps[1] = "fast"
    BY <1>7
  <2>2. done = {1}
    BY <2>1
  <2>3. f[1] = 1
    BY <1>1, <1>3, <2>1
  <2>4. ExecutedSteps(ran) = 1 /\ TimeOf(ran) = 1
    BY <1>0, <1>4, <1>5, <2>1, <2>2, <2>3
  <2> QED
    BY <1>3, <2>1, <2>4 DEF steps, Outcomes
<1>8. CASE steps = <<"failed", "skipped">>
  <2>1. DOMAIN steps = {1, 2} /\ Len(steps) = 2 /\ steps[1] = "failed" /\ steps[2] = "skipped"
    BY <1>8
  <2>2. done = {1}
    BY <2>1
  <2>3. f[1] = 1 /\ f[2] = 0
    BY <1>1, <1>3, <2>1
  <2>4. ExecutedSteps(ran) = 1 /\ TimeOf(ran) = 1
    BY <1>0, <1>4, <1>6, <2>1, <2>2, <2>3
  <2> QED
    BY <1>3, <2>1, <2>4 DEF steps, Outcomes
<1>9. CASE steps = <<"slow", "fast">>
  <2>1. DOMAIN steps = {1, 2} /\ Len(steps) = 2 /\ steps[1] = "slow" /\ steps[2] = "fast"
    BY <1>9
  <2>2. done = {1, 2}
    BY <2>1
  <2>3. f[1] = 2 /\ f[2] = 1
    BY <1>1, <1>3, <2>1
  <2>4. ExecutedSteps(ran) = 2 /\ TimeOf(ran) = 3
    BY <1>0, <1>4, <1>6, <2>1, <2>2, <2>3
  <2> QED
    BY <1>3, <2>1, <2>4 DEF steps, Outcomes
<1> QED
  BY <1>2, <1>7, <1>8, <1>9

LEMMA ShortSequences ==
  ASSUME NEW S
  PROVE  <<>> \in Seq(S) /\ (\A x \in S : <<x>> \in Seq(S)) /\ \A x, y \in S : <<x, y>> \in Seq(S)
<1>1. <<>> \in Seq(S)
  OBVIOUS
<1>2. \A x \in S : <<x>> \in Seq(S)
  OBVIOUS
<1>3. \A x, y \in S : <<x, y>> \in Seq(S)
  OBVIOUS
<1> QED
  BY <1>1, <1>2, <1>3

LEMMA ConcatThree ==
  ASSUME NEW S
  PROVE  \A l, a, r \in Seq(S) : l \o (a \o r) = (l \o a) \o r /\ l \o a \in Seq(S)
<1>1. ASSUME NEW l \in Seq(S), NEW a \in Seq(S), NEW r \in Seq(S) PROVE l \o (a \o r) = (l \o a) \o r
  BY ConcatAssociative
<1>2. ASSUME NEW l \in Seq(S), NEW a \in Seq(S) PROVE l \o a \in Seq(S)
  BY ConcatProperties
<1> QED
  BY <1>1, <1>2, Zenon

\* The events of a run: a trigger perhaps, the run, and its steps.
LEMMA RunCounts ==
  ASSUME NEW ran \in RunsRecorded, runsSoFar \in Seq(RunsRecorded), Len(runsSoFar) < MaxRecorded,
         NEW w, NEW runs \in Nat, NEW steps \in Nat, NEW ms \in Nat,
         Tally(usageLog, w, runs, steps, ms)
  PROVE  LET new == usageLog \o EventsOfRun(ran)
         IN IF ran.workspace = w
            THEN Tally(new, w, runs + 1, steps + ExecutedSteps(ran), ms + 2 * TimeOf(ran))
            ELSE Tally(new, w, runs, steps, ms)
<1> DEFINE A == IF ran.triggered THEN <<UsageEvent(ran, "trigger", TRUE, 0)>> ELSE <<>>
           r == UsageEvent(ran, "run", TRUE, 0)
           B == EventsOfStep(ran, ran.steps[1])
           C == IF Len(ran.steps) = 2 THEN EventsOfStep(ran, ran.steps[2]) ELSE <<>>
<1>1. EventsOfRun(ran) = A \o <<r>> \o B \o C
  BY DEF EventsOfRun
<1>2. usageLog \in Seq(UsageEvents)
  BY DEF Tally
<1>3. /\ UsageEvent(ran, "trigger", TRUE, 0) \in UsageEvents /\ r \in UsageEvents
  <2>1. "trigger" \in EventTypes /\ "run" \in EventTypes /\ TRUE \in BOOLEAN /\ 0 \in 0 .. 2
    BY DEF EventTypes
  <2>2. \A type \in EventTypes, ms0 \in 0 .. 2 : UsageEvent(ran, type, TRUE, ms0) \in UsageEvents
    BY <2>1, EventIsOne
  <2> QED
    BY <2>1, <2>2
<1>4. r.type = "run" /\ r.workspace = ran.workspace /\ r.ms = 0
  BY DEF UsageEvent
<1>5. A \in Seq(UsageEvents) /\ <<r>> \in Seq(UsageEvents)
  <2> DEFINE e == UsageEvent(ran, "trigger", TRUE, 0)
  <2>1. A = <<>> \/ A = <<e>>
    OBVIOUS
  <2> HIDE DEF A, e, r
  <2>2. e \in UsageEvents /\ r \in UsageEvents
    BY <1>3 DEF e
  <2> QED
    BY <2>1, <2>2, ShortSequences
<1>6. B \in Seq(UsageEvents) /\ C \in Seq(UsageEvents)
  <2>1. \A outcome \in Outcomes : EventsOfStep(ran, outcome) \in Seq(UsageEvents)
    <3> SUFFICES ASSUME NEW outcome \in Outcomes PROVE EventsOfStep(ran, outcome) \in Seq(UsageEvents)
      OBVIOUS
    <3> DEFINE e == UsageEvent(ran, "step", outcome # "failed", MsOf(outcome))
               a == UsageEvent(ran, "adapter", outcome # "failed", MsOf(outcome))
    <3>1. MsOf(outcome) \in 0 .. 2
      BY DEF MsOf, Outcomes
    <3>2. e \in UsageEvents /\ a \in UsageEvents
      BY <3>1, EventIsOne DEF EventTypes
    <3>3. EventsOfStep(ran, outcome) = <<>> \/ EventsOfStep(ran, outcome) = <<e, a>>
      BY DEF EventsOfStep
    <3> HIDE DEF e, a
    <3> QED
      BY <3>2, <3>3, ShortSequences
  <2>2. <<>> \in Seq(UsageEvents)
    BY ShortSequences
  <2> QED
    BY <2>1, <2>2, ShapeFacts
<1> DEFINE L1 == usageLog \o A
           L2 == L1 \o <<r>>
           L3 == L2 \o B
           L4 == L3 \o C
<1>7. usageLog \o EventsOfRun(ran) = L4 /\ L1 \in Seq(UsageEvents) /\ L2 \in Seq(UsageEvents)
  <2> HIDE DEF A, r, B, C
  <2> HIDE DEF A, r, B, C
  <2>1. <<r>> \in Seq(UsageEvents)
    BY <1>5
  <2> DEFINE R == <<r>>
  <2>2. \A l, a, s \in Seq(UsageEvents) : l \o (a \o s) = (l \o a) \o s /\ l \o a \in Seq(UsageEvents)
    BY ConcatThree
  <2>3. R \in Seq(UsageEvents)
    BY <2>1
  <2> HIDE DEF R
  <2>4. usageLog \o (A \o R \o B \o C) = usageLog \o A \o R \o B \o C
        /\ usageLog \o A \in Seq(UsageEvents) /\ usageLog \o A \o R \in Seq(UsageEvents)
    <3>1. /\ A \o R \in Seq(UsageEvents) /\ usageLog \o A \in Seq(UsageEvents)
          /\ (A \o R) \o B \in Seq(UsageEvents) /\ (usageLog \o A) \o R \in Seq(UsageEvents)
      BY <1>2, <1>5, <1>6, <2>2, <2>3
    <3>2. usageLog \o (A \o R) = (usageLog \o A) \o R
      BY <1>2, <1>5, <2>2, <2>3
    <3>3. usageLog \o ((A \o R) \o B) = (usageLog \o (A \o R)) \o B
      BY <1>2, <1>6, <2>2, <3>1
    <3>4. usageLog \o (((A \o R) \o B) \o C) = (usageLog \o ((A \o R) \o B)) \o C
      BY <1>2, <1>6, <2>2, <3>1
    <3> QED
      BY <3>1, <3>2, <3>3, <3>4
  <2>5. usageLog \o (A \o <<r>> \o B \o C) = usageLog \o A \o <<r>> \o B \o C
        /\ usageLog \o A \in Seq(UsageEvents) /\ usageLog \o A \o <<r>> \in Seq(UsageEvents)
    BY <2>4 DEF R
  <2> QED
    BY <1>1, <2>5
<1> HIDE DEF r, B, C
<1>8. Tally(L1, w, runs, steps, ms)
  <2>1. CASE ~ran.triggered
    <3>1. L1 = usageLog
      BY <1>2, <2>1, ConcatEmptySeq
    <3> QED
      BY <3>1
  <2>2. CASE ran.triggered
    <3> DEFINE e == UsageEvent(ran, "trigger", TRUE, 0)
    <3>1. e \in UsageEvents /\ e.type = "trigger" /\ e.ms = 0
      BY <1>3 DEF UsageEvent
    <3>2. A = <<e>>
      BY <2>2
    <3> HIDE DEF e, A
    <3>3. L1 = Append(usageLog, e)
      BY <1>2, <3>1, <3>2
    <3>4. e.type # "run" /\ e.type \in {"trigger", "run"}
      BY <3>1
    <3>5. IF e.workspace = w /\ e.type = "run" THEN Tally(Append(usageLog, e), w, runs + 1, steps, ms)
          ELSE Tally(Append(usageLog, e), w, runs, steps, ms)
      BY <3>1, <3>4, EventTally
    <3> QED
      BY <3>3, <3>4, <3>5
  <2> QED
    BY <2>1, <2>2
<1> HIDE DEF L1
<1>9. IF ran.workspace = w THEN Tally(L2, w, runs + 1, steps, ms) ELSE Tally(L2, w, runs, steps, ms)
  <2>1. L2 = Append(L1, r)
    BY <1>3, <1>7
  <2> HIDE DEF L2
  <2>2. r.type \in {"trigger", "run"}
    BY <1>4
  <2>3. IF r.workspace = w /\ r.type = "run" THEN Tally(Append(L1, r), w, runs + 1, steps, ms)
        ELSE Tally(Append(L1, r), w, runs, steps, ms)
    BY <1>3, <1>4, <1>8, <2>2, EventTally
  <2> QED
    BY <1>4, <2>1, <2>3
<1> HIDE DEF L2
<1> DEFINE s1 == Executions(ran.steps[1])
           m1 == MsOf(ran.steps[1])
           s2 == IF Len(ran.steps) = 2 THEN Executions(ran.steps[2]) ELSE 0
           m2 == IF Len(ran.steps) = 2 THEN MsOf(ran.steps[2]) ELSE 0
<1>10. \A outcome \in Outcomes : Executions(outcome) \in Nat /\ MsOf(outcome) \in Nat
  BY DEF Outcomes, Executions, MsOf
<1>11. s1 \in Nat /\ m1 \in Nat /\ s2 \in Nat /\ m2 \in Nat
  BY <1>10, ShapeFacts
<1>12. ExecutedSteps(ran) = s1 + s2 /\ TimeOf(ran) = m1 + m2
  BY ShapeFacts
<1>13. IF ran.workspace = w THEN Tally(L3, w, runs + 1, steps + s1, ms + 2 * m1) ELSE Tally(L3, w, runs, steps, ms)
  <2>1. runs + 1 \in Nat /\ ran.steps[1] \in Outcomes
    BY ShapeFacts
  <2>2. CASE ran.workspace = w
    BY <1>9, <2>1, <2>2, StepCounts DEF B
  <2>3. CASE ran.workspace # w
    BY <1>9, <2>1, <2>3, StepCounts DEF B
  <2> QED
    BY <2>2, <2>3
<1> HIDE DEF L3
<1>14. IF ran.workspace = w THEN Tally(L4, w, runs + 1, (steps + s1) + s2, (ms + 2 * m1) + 2 * m2) ELSE Tally(L4, w, runs, steps, ms)
  <2>0. runs + 1 \in Nat /\ steps + s1 \in Nat /\ ms + 2 * m1 \in Nat
    <3> HIDE DEF s1, m1
    <3> QED
      BY <1>11
  <2>1. CASE Len(ran.steps) = 2
    <3>1. ran.steps[2] \in Outcomes /\ s2 = Executions(ran.steps[2]) /\ m2 = MsOf(ran.steps[2])
          /\ C = EventsOfStep(ran, ran.steps[2])
      BY <2>1, ShapeFacts DEF C
    <3> HIDE DEF s1, m1, s2, m2, C
    <3>2. CASE ran.workspace = w
      BY <1>13, <2>0, <3>1, <3>2, StepCounts
    <3>3. CASE ran.workspace # w
      BY <1>13, <2>0, <3>1, <3>3, StepCounts
    <3> QED
      BY <3>2, <3>3
  <2>2. CASE Len(ran.steps) # 2
    <3>1. s2 = 0 /\ m2 = 0 /\ C = <<>>
      BY <2>2 DEF C
    <3>2. L3 \in Seq(UsageEvents)
      BY <1>13 DEF Tally
    <3>3. L4 = L3
      BY <3>1, <3>2, ConcatEmptySeq
    <3> HIDE DEF s1, m1, s2, m2, L4
    <3>4. (steps + s1) + s2 = steps + s1 /\ (ms + 2 * m1) + 2 * m2 = ms + 2 * m1
      BY <2>0, <3>1
    <3> QED
      BY <1>13, <3>3, <3>4
  <2> QED
    BY <2>1, <2>2
<1> HIDE DEF L4, s1, s2, m1, m2
<1>15. steps + ExecutedSteps(ran) = (steps + s1) + s2 /\ ms + 2 * TimeOf(ran) = (ms + 2 * m1) + 2 * m2
  BY <1>11, <1>12
<1> QED
  BY <1>7, <1>14, <1>15

\* The log is in the order of the runs, whose number is the clock.
ClockOK ==
  /\ Len(runsSoFar) <= MaxRecorded
  /\ \A i \in DOMAIN usageLog : usageLog[i].time <= Len(runsSoFar)
  /\ \A i, j \in DOMAIN usageLog : i < j => usageLog[i].time <= usageLog[j].time

ExecutedOf(runs) == [k \in DOMAIN runs |-> ExecutedSteps(runs[k])]
TimesOf(runs) == [k \in DOMAIN runs |-> TimeOf(runs[k])]

\* What the log has of a workspace is what its runs were.
CountersOK ==
  \A w \in Workspace :
    Tally(usageLog, w, Cardinality(RunsOf(w)), SumOf(ExecutedOf(runsSoFar), RunsOf(w)),
          2 * SumOf(TimesOf(runsSoFar), RunsOf(w)))

QueryInv == QueryTypeOK /\ ClockOK /\ CountersOK

\* The runs of a workspace are finitely many, with sums of their own.
LEMMA RunSets ==
  ASSUME runsSoFar \in Seq(RunsRecorded), NEW w
  PROVE  /\ DOMAIN runsSoFar = 1 .. Len(runsSoFar) /\ Len(runsSoFar) \in Nat
         /\ \A k \in DOMAIN runsSoFar : runsSoFar[k] \in RunsRecorded
         /\ IsFiniteSet(RunsOf(w)) /\ Cardinality(RunsOf(w)) \in Nat /\ RunsOf(w) \subseteq DOMAIN runsSoFar
         /\ \A k \in RunsOf(w) : ExecutedOf(runsSoFar)[k] \in Nat /\ TimesOf(runsSoFar)[k] \in Nat
         /\ SumOf(ExecutedOf(runsSoFar), RunsOf(w)) \in Nat /\ SumOf(TimesOf(runsSoFar), RunsOf(w)) \in Nat
<1>1. /\ DOMAIN runsSoFar = 1 .. Len(runsSoFar) /\ Len(runsSoFar) \in Nat
      /\ \A k \in DOMAIN runsSoFar : runsSoFar[k] \in RunsRecorded
  BY LenProperties, ElementOfSeq
<1>2. RunsOf(w) \subseteq DOMAIN runsSoFar
  BY DEF RunsOf
<1>3. IsFiniteSet(RunsOf(w)) /\ Cardinality(RunsOf(w)) \in Nat
  <2>1. IsFiniteSet(DOMAIN runsSoFar)
    BY <1>1, FS_Interval
  <2> QED
    BY <1>2, <2>1, FS_Subset, FS_CardinalityType
<1>4. \A k \in RunsOf(w) : ExecutedOf(runsSoFar)[k] \in Nat /\ TimesOf(runsSoFar)[k] \in Nat
  <2> SUFFICES ASSUME NEW k \in RunsOf(w) PROVE ExecutedOf(runsSoFar)[k] \in Nat /\ TimesOf(runsSoFar)[k] \in Nat
    OBVIOUS
  <2>1. ExecutedOf(runsSoFar)[k] = ExecutedSteps(runsSoFar[k]) /\ TimesOf(runsSoFar)[k] = TimeOf(runsSoFar[k])
    BY <1>2 DEF ExecutedOf, TimesOf
  <2> QED
    BY <1>1, <1>2, <2>1, ShapeFacts
<1>5. SumOf(ExecutedOf(runsSoFar), RunsOf(w)) \in Nat /\ SumOf(TimesOf(runsSoFar), RunsOf(w)) \in Nat
  BY <1>3, <1>4, SumFacts
<1> QED
  BY <1>1, <1>2, <1>3, <1>4, <1>5

\* One run more.
LEMMA RunsGrow ==
  ASSUME runsSoFar \in Seq(RunsRecorded), NEW ran \in RunsRecorded, runsSoFar' = Append(runsSoFar, ran), NEW w
  PROVE  /\ runsSoFar' \in Seq(RunsRecorded) /\ Len(runsSoFar') = Len(runsSoFar) + 1
         /\ ran.workspace # w =>
              /\ Cardinality(RunsOf(w)') = Cardinality(RunsOf(w))
              /\ SumOf(ExecutedOf(runsSoFar'), RunsOf(w)') = SumOf(ExecutedOf(runsSoFar), RunsOf(w))
              /\ SumOf(TimesOf(runsSoFar'), RunsOf(w)') = SumOf(TimesOf(runsSoFar), RunsOf(w))
         /\ ran.workspace = w =>
              /\ Cardinality(RunsOf(w)') = Cardinality(RunsOf(w)) + 1
              /\ SumOf(ExecutedOf(runsSoFar'), RunsOf(w)') = SumOf(ExecutedOf(runsSoFar), RunsOf(w)) + ExecutedSteps(ran)
              /\ SumOf(TimesOf(runsSoFar'), RunsOf(w)') = SumOf(TimesOf(runsSoFar), RunsOf(w)) + TimeOf(ran)
<1> DEFINE n == Len(runsSoFar) + 1
           R == RunsOf(w)
<1>1. /\ runsSoFar' \in Seq(RunsRecorded) /\ Len(runsSoFar') = n
      /\ runsSoFar'[n] = ran /\ \A k \in 1 .. Len(runsSoFar) : runsSoFar'[k] = runsSoFar[k]
  BY AppendProperties
<1>2. /\ DOMAIN runsSoFar' = DOMAIN runsSoFar \cup {n} /\ n \notin DOMAIN runsSoFar
      /\ \A k \in DOMAIN runsSoFar : runsSoFar'[k] = runsSoFar[k]
  BY <1>1, LenProperties
<1>3. /\ IsFiniteSet(R) /\ R \subseteq DOMAIN runsSoFar /\ Cardinality(R) \in Nat
      /\ \A k \in R : ExecutedOf(runsSoFar)[k] \in Nat /\ TimesOf(runsSoFar)[k] \in Nat
  BY RunSets
<1> HIDE DEF n
<1>4. \A k \in R : /\ ExecutedOf(runsSoFar')[k] = ExecutedOf(runsSoFar)[k]
                   /\ TimesOf(runsSoFar')[k] = TimesOf(runsSoFar)[k]
  BY <1>2, <1>3 DEF ExecutedOf, TimesOf
<1>5. SumOf(ExecutedOf(runsSoFar'), R) = SumOf(ExecutedOf(runsSoFar), R)
      /\ SumOf(TimesOf(runsSoFar'), R) = SumOf(TimesOf(runsSoFar), R)
  BY <1>3, <1>4, SumCongruent
<1>6. CASE ran.workspace # w
  <2>1. RunsOf(w)' = R
    BY <1>1, <1>2, <1>6 DEF RunsOf
  <2> QED
    BY <1>1, <1>5, <1>6, <2>1 DEF n
<1>7. CASE ran.workspace = w
  <2>1. RunsOf(w)' = R \cup {n} /\ n \notin R
    BY <1>1, <1>2, <1>7 DEF RunsOf
  <2>2. ExecutedOf(runsSoFar')[n] = ExecutedSteps(ran) /\ TimesOf(runsSoFar')[n] = TimeOf(ran)
    BY <1>1, <1>2 DEF ExecutedOf, TimesOf
  <2>3. ExecutedSteps(ran) \in Nat /\ TimeOf(ran) \in Nat
    BY ShapeFacts
  <2>4. \A k \in R \cup {n} : ExecutedOf(runsSoFar')[k] \in Nat /\ TimesOf(runsSoFar')[k] \in Nat
    BY <1>3, <1>4, <2>2, <2>3
  <2>5. /\ SumOf(ExecutedOf(runsSoFar'), R \cup {n}) = SumOf(ExecutedOf(runsSoFar'), R) + ExecutedSteps(ran)
        /\ SumOf(TimesOf(runsSoFar'), R \cup {n}) = SumOf(TimesOf(runsSoFar'), R) + TimeOf(ran)
    <3> DEFINE f == ExecutedOf(runsSoFar')
               g == TimesOf(runsSoFar')
    <3>1. \A k \in R \cup {n} : f[k] \in Nat /\ g[k] \in Nat
      BY <2>4
    <3>2. f[n] = ExecutedSteps(ran) /\ g[n] = TimeOf(ran)
      BY <2>2
    <3> HIDE DEF R, f, g
    <3>3. SumOf(f, R \cup {n}) = SumOf(f, R) + f[n]
      BY <1>3, <2>1, <3>1, SumExtends
    <3>4. SumOf(g, R \cup {n}) = SumOf(g, R) + g[n]
      BY <1>3, <2>1, <3>1, SumExtends
    <3> QED
      BY <3>2, <3>3, <3>4 DEF f, g
  <2>6. Cardinality(R \cup {n}) = Cardinality(R) + 1
    BY <1>3, <2>1, FS_AddElement
  <2> HIDE DEF R
  <2> QED
    BY <1>1, <1>5, <1>7, <2>1, <2>5, <2>6 DEF n, R
<1> QED
  BY <1>6, <1>7

\* The events of a run are of one instant.
LEMMA RunsAreInstants ==
  ASSUME NEW ran \in RunsRecorded, runsSoFar \in Seq(RunsRecorded), Len(runsSoFar) < MaxRecorded
  PROVE  EventsOfRun(ran) \in Seq({e \in UsageEvents : e.time = Len(runsSoFar) + 1})
<1> DEFINE E == {e \in UsageEvents : e.time = Len(runsSoFar) + 1}
           A == IF ran.triggered THEN <<UsageEvent(ran, "trigger", TRUE, 0)>> ELSE <<>>
           r == <<UsageEvent(ran, "run", TRUE, 0)>>
           B == EventsOfStep(ran, ran.steps[1])
           C == IF Len(ran.steps) = 2 THEN EventsOfStep(ran, ran.steps[2]) ELSE <<>>
<1>1. \A type \in EventTypes, good \in BOOLEAN, ms \in 0 .. 2 : UsageEvent(ran, type, good, ms) \in E
  BY EventIsOne
<1> HIDE DEF E
<1>2. A \in Seq(E) /\ r \in Seq(E)
  <2>1. "trigger" \in EventTypes /\ "run" \in EventTypes /\ TRUE \in BOOLEAN /\ 0 \in 0 .. 2
    BY DEF EventTypes
  <2>2. UsageEvent(ran, "trigger", TRUE, 0) \in E /\ UsageEvent(ran, "run", TRUE, 0) \in E
    BY <1>1, <2>1
  <2>3. r \in Seq(E)
    BY <2>2, ShortSequences
  <2>4. CASE ran.triggered
    BY <2>2, <2>3, <2>4, ShortSequences
  <2>5. CASE ~ran.triggered
    BY <2>3, <2>5, ShortSequences
  <2> QED
    BY <2>4, <2>5
<1>3. \A outcome \in Outcomes : EventsOfStep(ran, outcome) \in Seq(E)
  <2> SUFFICES ASSUME NEW outcome \in Outcomes PROVE EventsOfStep(ran, outcome) \in Seq(E)
    OBVIOUS
  <2> DEFINE good == outcome # "failed"
             e == UsageEvent(ran, "step", good, MsOf(outcome))
             a == UsageEvent(ran, "adapter", good, MsOf(outcome))
  <2>1. MsOf(outcome) \in 0 .. 2 /\ good \in BOOLEAN /\ "step" \in EventTypes /\ "adapter" \in EventTypes
    BY DEF MsOf, Outcomes, EventTypes
  <2>2. e \in E /\ a \in E
    <3> HIDE DEF good
    <3> QED
      BY <1>1, <2>1
  <2>3. EventsOfStep(ran, outcome) = <<>> \/ EventsOfStep(ran, outcome) = <<e, a>>
    BY DEF EventsOfStep
  <2> HIDE DEF e, a, good
  <2> QED
    BY <2>2, <2>3, ShortSequences
<1>4. B \in Seq(E) /\ C \in Seq(E)
  <2>1. <<>> \in Seq(E)
    BY ShortSequences
  <2> QED
    BY <1>3, <2>1, ShapeFacts
<1>5. EventsOfRun(ran) = A \o r \o B \o C
  BY DEF EventsOfRun
<1> HIDE DEF A, r, B, C
<1>6. \A l, a \in Seq(E) : l \o a \in Seq(E)
  BY ConcatProperties
<1> QED
  BY <1>2, <1>4, <1>5, <1>6 DEF E

\* A sequence in order, with later elements after it, is in order.
LEMMA OrderExtends ==
  ASSUME NEW l \in Seq(UsageEvents), NEW n \in Nat, \A i \in DOMAIN l : l[i].time <= n,
         \A i, j \in DOMAIN l : i < j => l[i].time <= l[j].time,
         NEW more \in Seq({e \in UsageEvents : e.time = n + 1})
  PROVE  /\ l \o more \in Seq(UsageEvents)
         /\ \A i \in DOMAIN (l \o more) : (l \o more)[i].time <= n + 1
         /\ \A i, j \in DOMAIN (l \o more) : i < j => (l \o more)[i].time <= (l \o more)[j].time
<1> DEFINE all == l \o more
<1>1. more \in Seq(UsageEvents) /\ \A i \in 1 .. Len(more) : more[i].time = n + 1
  <2>1. \A i \in 1 .. Len(more) : more[i] \in {e \in UsageEvents : e.time = n + 1}
    BY ElementOfSeq
  <2>2. more \in Seq(UsageEvents)
    OBVIOUS
  <2> QED
    BY <2>1, <2>2
<1>2. /\ all \in Seq(UsageEvents) /\ Len(all) = Len(l) + Len(more)
      /\ \A i \in 1 .. Len(l) + Len(more) : all[i] = IF i <= Len(l) THEN l[i] ELSE more[i - Len(l)]
  BY <1>1, ConcatProperties
<1>3. /\ DOMAIN l = 1 .. Len(l) /\ Len(l) \in Nat /\ Len(more) \in Nat /\ DOMAIN all = 1 .. Len(l) + Len(more)
      /\ \A i \in 1 .. Len(l) : l[i] \in UsageEvents /\ l[i].time \in Nat /\ l[i].time <= n
  <2> HIDE DEF all
  <2>1. DOMAIN l = 1 .. Len(l) /\ Len(l) \in Nat /\ Len(more) \in Nat
    BY <1>1, LenProperties
  <2>2. DOMAIN all = 1 .. Len(l) + Len(more)
    BY <1>2, LenProperties
  <2>3. \A i \in 1 .. Len(l) : l[i] \in UsageEvents
    BY ElementOfSeq
  <2>4. \A e \in UsageEvents : e.time \in Nat
    BY DEF UsageEvents
  <2> QED
    BY <2>1, <2>2, <2>3, <2>4
<1> HIDE DEF all
<1>4. \A i \in DOMAIN all : /\ i <= Len(l) => all[i] = l[i] /\ i \in 1 .. Len(l)
                            /\ i > Len(l) => all[i].time = n + 1
  <2> SUFFICES ASSUME NEW i \in DOMAIN all
               PROVE  /\ i <= Len(l) => all[i] = l[i] /\ i \in 1 .. Len(l)
                      /\ i > Len(l) => all[i].time = n + 1
    OBVIOUS
  <2>1. CASE i <= Len(l)
    BY <1>2, <1>3, <2>1
  <2>2. CASE i > Len(l)
    <3>1. i - Len(l) \in 1 .. Len(more)
      BY <1>3, <2>2
    <3>2. all[i] = more[i - Len(l)]
      BY <1>2, <1>3, <2>2
    <3> QED
      BY <1>1, <1>3, <2>2, <3>1, <3>2
  <2> QED
    BY <1>3, <2>1, <2>2
<1>5. \A i \in DOMAIN all : all[i].time <= n + 1
  BY <1>3, <1>4
<1>6. ASSUME NEW i \in DOMAIN all, NEW j \in DOMAIN all, i < j PROVE all[i].time <= all[j].time
  <2>1. CASE j <= Len(l)
    BY <1>3, <1>4, <1>6, <2>1
  <2>2. CASE j > Len(l)
    BY <1>3, <1>4, <1>5, <1>6, <2>2
  <2> QED
    BY <1>3, <2>1, <2>2
<1> QED
  BY <1>2, <1>5, <1>6 DEF all

LEMMA QueryInitInv == QueryInit => QueryInv
<1> SUFFICES ASSUME QueryInit PROVE QueryInv
  OBVIOUS
<1>1. usageLog = <<>> /\ runsSoFar = <<>>
  BY DEF QueryInit
<1>2. QueryTypeOK
  BY <1>1, ShortSequences DEF QueryTypeOK
<1>3. ClockOK
  BY <1>1, QueriesAssumption DEF ClockOK
<1>4. ASSUME NEW w \in Workspace
      PROVE  Tally(usageLog, w, Cardinality(RunsOf(w)), SumOf(ExecutedOf(runsSoFar), RunsOf(w)),
                   2 * SumOf(TimesOf(runsSoFar), RunsOf(w)))
  <2>1. RunsOf(w) = {} /\ OfWorkspace(usageLog, w) = {} /\ \A t : Marks(usageLog, w, t) = {}
    BY <1>1 DEF RunsOf, OfWorkspace, Marks
  <2>2. IsFiniteSet({}) /\ Cardinality({}) = 0
    BY FS_EmptySet
  <2>3. SumOf(ExecutedOf(runsSoFar), {}) = 0 /\ SumOf(TimesOf(runsSoFar), {}) = 0 /\ SumOf(MsIn(usageLog), {}) = 0
    BY <2>2, SumFacts
  <2>4. usageLog \in Seq(UsageEvents)
    BY <1>1, ShortSequences
  <2>5. \A t : NumberIn(usageLog, w, t) = 0
    BY <2>1, <2>2 DEF NumberIn
  <2>6. TimeIn(usageLog, w) = 0
    BY <2>1, <2>3 DEF TimeIn
  <2>7. Cardinality(RunsOf(w)) = 0 /\ SumOf(ExecutedOf(runsSoFar), RunsOf(w)) = 0
        /\ 2 * SumOf(TimesOf(runsSoFar), RunsOf(w)) = 0
    BY <2>1, <2>2, <2>3
  <2> QED
    BY <2>4, <2>5, <2>6, <2>7 DEF Tally
<1> QED
  BY <1>2, <1>3, <1>4 DEF QueryInv, CountersOK

LEMMA QueryStepInv == QueryInv /\ [QueryNext]_queryVars => QueryInv'
<1> SUFFICES ASSUME QueryInv, [QueryNext]_queryVars PROVE QueryInv'
  OBVIOUS
<1>1. CASE UNCHANGED queryVars
  BY <1>1 DEF QueryInv, QueryTypeOK, ClockOK, CountersOK, RunsOf, queryVars
<1>2. CASE QueryNext
  <2>1. PICK ran \in RunsRecorded : RecordsRun(ran)
    BY <1>2 DEF QueryNext
  <2>2. /\ runsSoFar \in Seq(RunsRecorded) /\ usageLog \in Seq(UsageEvents)
        /\ Len(runsSoFar) < MaxRecorded /\ Len(runsSoFar) \in Nat
        /\ usageLog' = usageLog \o EventsOfRun(ran) /\ runsSoFar' = Append(runsSoFar, ran)
    BY <2>1, LenProperties DEF RecordsRun, QueryInv, QueryTypeOK, UsageEvents
  <2>3. runsSoFar' \in Seq(RunsRecorded) /\ Len(runsSoFar') = Len(runsSoFar) + 1
    BY <2>2, AppendProperties
  <2>4. /\ usageLog' \in Seq(UsageEvents)
        /\ \A i \in DOMAIN usageLog' : usageLog'[i].time <= Len(runsSoFar) + 1
        /\ \A i, j \in DOMAIN usageLog' : i < j => usageLog'[i].time <= usageLog'[j].time
    <3>1. EventsOfRun(ran) \in Seq({e \in UsageEvents : e.time = Len(runsSoFar) + 1})
      BY <2>2, RunsAreInstants
    <3>2. /\ \A i \in DOMAIN usageLog : usageLog[i].time <= Len(runsSoFar)
          /\ \A i, j \in DOMAIN usageLog : i < j => usageLog[i].time <= usageLog[j].time
      BY DEF QueryInv, ClockOK
    <3> QED
      BY <2>2, <3>1, <3>2, OrderExtends
  <2>5. QueryTypeOK'
    BY <2>3, <2>4 DEF QueryTypeOK, UsageEvents
  <2>6. ClockOK'
    BY <2>2, <2>3, <2>4, QueriesAssumption DEF ClockOK
  <2>7. ASSUME NEW w \in Workspace
        PROVE  Tally(usageLog', w, Cardinality(RunsOf(w)'), SumOf(ExecutedOf(runsSoFar'), RunsOf(w)'),
                     2 * SumOf(TimesOf(runsSoFar'), RunsOf(w)'))
    <3> DEFINE runs == Cardinality(RunsOf(w))
               steps == SumOf(ExecutedOf(runsSoFar), RunsOf(w))
               times == SumOf(TimesOf(runsSoFar), RunsOf(w))
    <3>1. runs \in Nat /\ steps \in Nat /\ times \in Nat
      BY <2>2, RunSets
    <3>2. Tally(usageLog, w, runs, steps, 2 * times)
      BY DEF QueryInv, CountersOK
    <3>3. /\ ran.workspace # w =>
               /\ Cardinality(RunsOf(w)') = runs
               /\ SumOf(ExecutedOf(runsSoFar'), RunsOf(w)') = steps
               /\ SumOf(TimesOf(runsSoFar'), RunsOf(w)') = times
          /\ ran.workspace = w =>
               /\ Cardinality(RunsOf(w)') = runs + 1
               /\ SumOf(ExecutedOf(runsSoFar'), RunsOf(w)') = steps + ExecutedSteps(ran)
               /\ SumOf(TimesOf(runsSoFar'), RunsOf(w)') = times + TimeOf(ran)
      BY <2>2, RunsGrow
    <3>4. TimeOf(ran) \in Nat
      BY ShapeFacts
    <3> HIDE DEF runs, steps, times
    <3>5. 2 * times \in Nat /\ 2 * (times + TimeOf(ran)) = 2 * times + 2 * TimeOf(ran)
      BY <3>1, <3>4
    <3>6. IF ran.workspace = w
          THEN Tally(usageLog', w, runs + 1, steps + ExecutedSteps(ran), 2 * times + 2 * TimeOf(ran))
          ELSE Tally(usageLog', w, runs, steps, 2 * times)
      BY <2>2, <3>1, <3>2, <3>5, RunCounts
    <3>7. CASE ran.workspace = w
      BY <3>3, <3>5, <3>6, <3>7
    <3>8. CASE ran.workspace # w
      BY <3>3, <3>6, <3>8
    <3> QED
      BY <3>7, <3>8
  <2>8. CountersOK'
    BY <2>7 DEF CountersOK
  <2> QED
    BY <2>5, <2>6, <2>8 DEF QueryInv
<1> QED
  BY <1>1, <1>2

-----------------------------------------------------------------------------
\* What getUsage answers, field by field.
LEMMA UsageFields ==
  ASSUME NEW q
  PROVE  /\ GetUsage(q).total = Cardinality(Queried(q))
         /\ GetUsage(q).billable = Cardinality({i \in Queried(q) : usageLog[i].billable})
         /\ GetUsage(q).success = Cardinality({i \in Queried(q) : usageLog[i].success})
         /\ GetUsage(q).failure = Cardinality({i \in Queried(q) : ~usageLog[i].success})
         /\ GetUsage(q).duration = TotalDuration(Queried(q))
         /\ \A t \in EventTypes : GetUsage(q).byType[t] = Numbered(Queried(q), t, "type")
         /\ \A g \in GroupBys :
              GetUsage(q).groups[g] = [k \in {GroupKey(usageLog[i], g) : i \in Queried(q)} |-> Numbered(Queried(q), k, g)]
  BY DEF GetUsage

\* The day of a workspace is what the log has of it, and the day of all is the log.
LEMMA DaysOf ==
  ASSUME QueryInv
  PROVE  /\ usageLog \in Seq(UsageEvents) /\ IsFiniteSet(DOMAIN usageLog)
         /\ DOMAIN usageLog = 1 .. Len(usageLog) /\ Len(usageLog) \in Nat
         /\ \A i \in DOMAIN usageLog : usageLog[i] \in UsageEvents
         /\ Queried(Today("any")) = DOMAIN usageLog
         /\ \A w \in Workspace : Queried(Today(w)) = OfWorkspace(usageLog, w)
<1>1. usageLog \in Seq(UsageEvents)
  BY DEF QueryInv, QueryTypeOK, UsageEvents
<1>2. /\ IsFiniteSet(DOMAIN usageLog) /\ DOMAIN usageLog = 1 .. Len(usageLog) /\ Len(usageLog) \in Nat
      /\ \A i \in DOMAIN usageLog : usageLog[i] \in UsageEvents
  BY <1>1, LogSets
<1>3. \A i \in DOMAIN usageLog : usageLog[i].time \in 1 .. MaxRecorded /\ usageLog[i].workspace \in Workspace
  BY <1>2 DEF UsageEvents
<1>4. Queried(Today("any")) = DOMAIN usageLog
  BY <1>3 DEF Queried, MatchesUsageQuery, Today
<1>5. ASSUME NEW w \in Workspace PROVE Queried(Today(w)) = OfWorkspace(usageLog, w)
  <2>1. w # "any"
    BY QueriesAssumption
  <2>2. \A i \in DOMAIN usageLog : MatchesUsageQuery(usageLog[i], Today(w)) <=> usageLog[i].workspace = w
    BY <1>3, <2>1 DEF MatchesUsageQuery, Today
  <2> QED
    BY <2>2 DEF Queried, OfWorkspace
<1> QED
  BY <1>1, <1>2, <1>4, <1>5

\* What a workspace has used is what its runs were.
LEMMA ConsumedIs ==
  ASSUME QueryInv, NEW w \in Workspace
  PROVE  /\ Consumed(w).runs = Cardinality(RunsOf(w))
         /\ Consumed(w).steps = SumOf(ExecutedOf(runsSoFar), RunsOf(w))
         /\ Consumed(w).calls = SumOf(ExecutedOf(runsSoFar), RunsOf(w))
         /\ Consumed(w).ms = 2 * SumOf(TimesOf(runsSoFar), RunsOf(w))
         /\ Consumed(w).runs \in Nat /\ Consumed(w).steps \in Nat /\ Consumed(w).calls \in Nat /\ Consumed(w).ms \in Nat
<1>1. usageLog \in Seq(UsageEvents) /\ Queried(Today(w)) = OfWorkspace(usageLog, w)
  BY DaysOf
<1>2. IsFiniteSet(OfWorkspace(usageLog, w))
  BY <1>1, LogSets
<1>3. \A t : Numbered(OfWorkspace(usageLog, w), t, "type") = NumberIn(usageLog, w, t)
  <2>1. \A e : GroupKey(e, "type") = e.type
    BY DEF GroupKey
  <2>2. \A t : {i \in OfWorkspace(usageLog, w) : GroupKey(usageLog[i], "type") = t} = Marks(usageLog, w, t)
    BY <2>1 DEF OfWorkspace, Marks
  <2> QED
    BY <2>2 DEF Numbered, NumberIn
<1>4. TotalDuration(OfWorkspace(usageLog, w)) = TimeIn(usageLog, w)
  BY <1>2, FunctionSum DEF TotalDuration, TimeIn, MsIn
<1>5. /\ Consumed(w).runs = GetUsage(Today(w)).byType.run /\ Consumed(w).steps = GetUsage(Today(w)).byType.step
      /\ Consumed(w).calls = GetUsage(Today(w)).byType.adapter /\ Consumed(w).ms = GetUsage(Today(w)).duration
  BY DEF Consumed
<1>6. "run" \in EventTypes /\ "step" \in EventTypes /\ "adapter" \in EventTypes
  BY DEF EventTypes
<1>7. /\ GetUsage(Today(w)).byType.run = NumberIn(usageLog, w, "run")
      /\ GetUsage(Today(w)).byType.step = NumberIn(usageLog, w, "step")
      /\ GetUsage(Today(w)).byType.adapter = NumberIn(usageLog, w, "adapter")
      /\ GetUsage(Today(w)).duration = TimeIn(usageLog, w)
  <2>1. /\ \A t \in EventTypes : GetUsage(Today(w)).byType[t] = Numbered(Queried(Today(w)), t, "type")
        /\ GetUsage(Today(w)).duration = TotalDuration(Queried(Today(w)))
    BY UsageFields
  <2>2. \A t \in EventTypes : GetUsage(Today(w)).byType[t] = NumberIn(usageLog, w, t)
    BY <1>1, <1>3, <2>1
  <2> QED
    BY <1>1, <1>4, <1>6, <2>1, <2>2
<1>8. /\ Cardinality(RunsOf(w)) \in Nat /\ SumOf(ExecutedOf(runsSoFar), RunsOf(w)) \in Nat
      /\ SumOf(TimesOf(runsSoFar), RunsOf(w)) \in Nat
  <2>1. runsSoFar \in Seq(RunsRecorded)
    BY DEF QueryInv, QueryTypeOK
  <2> QED
    BY <2>1, RunSets
<1>9. 2 * SumOf(TimesOf(runsSoFar), RunsOf(w)) \in Nat
  BY <1>8
<1> QED
  BY <1>5, <1>7, <1>8, <1>9 DEF QueryInv, CountersOK, Tally

LEMMA AddUp == QueryInv => QueriesAddUp
<1> SUFFICES ASSUME QueryInv PROVE QueriesAddUp
  OBVIOUS
<1> DEFINE u == GetUsage(Today("any"))
           D == DOMAIN usageLog
<1>1. /\ IsFiniteSet(D) /\ Queried(Today("any")) = D /\ D = 1 .. Len(usageLog) /\ Len(usageLog) \in Nat
      /\ \A i \in D : usageLog[i] \in UsageEvents
  BY DaysOf
<1>2. ASSUME NEW g \in GroupBys PROVE SumFunctionOnSet(u.groups[g], DOMAIN u.groups[g]) = u.total
  <2> DEFINE key == [i \in D |-> GroupKey(usageLog[i], g)]
             K == {key[i] : i \in D}
             sizes == [k \in K |-> Cardinality({i \in D : key[i] = k})]
  <2>1. u.total = Cardinality(D) /\ u.groups[g] = [k \in {GroupKey(usageLog[i], g) : i \in D} |-> Numbered(D, k, g)]
    <3> DEFINE q == Today("any")
    <3>1. /\ GetUsage(q).total = Cardinality(Queried(q))
          /\ GetUsage(q).groups[g] = [k \in {GroupKey(usageLog[i], g) : i \in Queried(q)} |-> Numbered(Queried(q), k, g)]
      BY UsageFields
    <3> QED
      BY <1>1, <3>1
  <2>2. {GroupKey(usageLog[i], g) : i \in D} = K /\ \A i \in D : key[i] = GroupKey(usageLog[i], g)
    OBVIOUS
  <2>3. \A k : Numbered(D, k, g) = Cardinality({i \in D : key[i] = k})
    <3>1. \A k : {i \in D : GroupKey(usageLog[i], g) = k} = {i \in D : key[i] = k}
      BY <2>2
    <3> QED
      BY <3>1 DEF Numbered
  <2>4. u.groups[g] = sizes
    BY <2>1, <2>2, <2>3
  <2>5. IsFiniteSet(K)
    <3> HIDE DEF D
    <3>1. key \in Surjection(D, K)
      BY DEF Surjection
    <3> HIDE DEF K, key
    <3> QED
      BY <1>1, <3>1, FS_Surjection
  <2>6. \A i \in D : key[i] \in K
    OBVIOUS
  <2> HIDE DEF key, K, D, u
  <2>7. SumOf(sizes, K) = Cardinality(D)
    BY <1>1, <2>5, <2>6, GroupsAddUp
  <2>8. SumFunctionOnSet(sizes, K) = SumOf(sizes, K) /\ DOMAIN sizes = K
    <3>1. DOMAIN sizes = K
      OBVIOUS
    <3> HIDE DEF sizes
    <3> QED
      BY <2>5, <3>1, FunctionSum
  <2> QED
    BY <2>1, <2>4, <2>7, <2>8
<1>3. u.success + u.failure = u.total
  <2> DEFINE good == {i \in D : usageLog[i].success}
             bad == {i \in D : ~usageLog[i].success}
  <2>1. u.success = Cardinality(good) /\ u.failure = Cardinality(bad) /\ u.total = Cardinality(D)
    <3> DEFINE q == Today("any")
    <3>1. /\ GetUsage(q).total = Cardinality(Queried(q))
          /\ GetUsage(q).success = Cardinality({i \in Queried(q) : usageLog[i].success})
          /\ GetUsage(q).failure = Cardinality({i \in Queried(q) : ~usageLog[i].success})
      BY UsageFields
    <3> QED
      BY <1>1, <3>1
  <2>2. good \cup bad = D /\ good \cap bad = {} /\ good \subseteq D /\ bad \subseteq D
    OBVIOUS
  <2> HIDE DEF good, bad, D, u
  <2>3. IsFiniteSet(good) /\ IsFiniteSet(bad)
    BY <1>1, <2>2, FS_Subset
  <2>4. Cardinality(good \cup bad) = Cardinality(good) + Cardinality(bad) - Cardinality(good \cap bad)
    BY <2>3, FS_Union
  <2>5. Cardinality(good \cap bad) = 0 /\ Cardinality(good) \in Nat /\ Cardinality(bad) \in Nat
    BY <2>2, <2>3, FS_EmptySet, FS_CardinalityType
  <2>6. Cardinality(D) = Cardinality(good) + Cardinality(bad)
    BY <2>2, <2>4, <2>5
  <2> QED
    BY <2>1, <2>6
<1>4. ASSUME NEW t \in 1 .. MaxRecorded
      PROVE  LET before == Queried([Today("any") EXCEPT !.to = t])
                 later  == Queried([Today("any") EXCEPT !.from = t + 1])
             IN before \cup later = DOMAIN usageLog /\ \A i \in before, j \in later : i < j
  <2>1. \A i \in D : usageLog[i].time \in 1 .. MaxRecorded
    BY <1>1 DEF UsageEvents
  <2>2. t \in Nat /\ MaxRecorded \in Nat /\ t <= MaxRecorded /\ t >= 1
    BY QueriesAssumption
  <2>3. Queried([Today("any") EXCEPT !.to = t]) = {i \in D : usageLog[i].time <= t}
    BY <2>1, <2>2 DEF Queried, MatchesUsageQuery, Today
  <2>4. Queried([Today("any") EXCEPT !.from = t + 1]) = {i \in D : usageLog[i].time >= t + 1}
    BY <2>1, <2>2 DEF Queried, MatchesUsageQuery, Today
  <2>5. \A i, j \in D : i < j => usageLog[i].time <= usageLog[j].time
    BY DEF QueryInv, ClockOK
  <2>6. ASSUME NEW i \in D, NEW j \in D, usageLog[i].time <= t, usageLog[j].time >= t + 1 PROVE i < j
    <3>1. i # j /\ ~(j < i)
      BY <2>1, <2>2, <2>5, <2>6
    <3> QED
      BY <1>1, <3>1
  <2>7. \A i \in D : usageLog[i].time <= t \/ usageLog[i].time >= t + 1
    BY <2>1, <2>2
  <2> QED
    BY <2>3, <2>4, <2>6, <2>7
<1>5. ASSUME NEW w \in Workspace
      PROVE  LET c == Consumed(w) runs == RunsOf(w)
             IN /\ c.runs = Cardinality(runs)
                /\ c.steps = SumFunctionOnSet([k \in DOMAIN runsSoFar |-> ExecutedSteps(runsSoFar[k])], runs)
                /\ c.calls = c.steps
                /\ c.ms = 2 * SumFunctionOnSet([k \in DOMAIN runsSoFar |-> TimeOf(runsSoFar[k])], runs)
  <2>1. IsFiniteSet(RunsOf(w))
    BY RunSets DEF QueryInv, QueryTypeOK
  <2>2. /\ SumFunctionOnSet(ExecutedOf(runsSoFar), RunsOf(w)) = SumOf(ExecutedOf(runsSoFar), RunsOf(w))
        /\ SumFunctionOnSet(TimesOf(runsSoFar), RunsOf(w)) = SumOf(TimesOf(runsSoFar), RunsOf(w))
    BY <2>1, FunctionSum
  <2> QED
    BY <2>2, ConsumedIs DEF ExecutedOf, TimesOf
<1> QED
  BY <1>2, <1>3, <1>4, <1>5 DEF QueriesAddUp

-----------------------------------------------------------------------------
\* A decision is of the counters alone; it denies nothing within the limits, and
\* warns where a limit is reached.
LEMMA DecisionFacts ==
  ASSUME NEW ratio \in {5, 8, 10}, NEW p, NEW q,
         p.runs \in Nat, p.steps \in Nat, p.calls \in Nat, p.ms \in Nat,
         q.runs = p.runs, q.steps = p.steps, q.calls = p.calls, q.ms = p.ms
  PROVE  /\ QuotaDecision(QuotaPolicy(ratio), q) = QuotaDecision(QuotaPolicy(ratio), p)
         /\ QuotaDecision(QuotaPolicy(ratio), p) \notin Denials => p.runs <= RunQuota /\ p.steps <= StepQuota
         /\ p.runs = RunQuota => QuotaDecision(QuotaPolicy(ratio), p) # "allow"
<1> DEFINE policy == QuotaPolicy(ratio)
           Near(r) == \E f \in {"runs", "steps", "calls", "ms"} : r[f] >= (policy[f] * policy.ratio) \div 10
<1>1. /\ policy.runs = RunQuota /\ policy.steps = StepQuota /\ policy.calls = StepQuota /\ policy.ms = ComputeQuota
      /\ policy.ratio = ratio /\ RunQuota \in Nat /\ StepQuota \in Nat /\ ComputeQuota \in Nat
  BY QueriesAssumption DEF QuotaPolicy
<1>2. Near(q) <=> Near(p)
  <2>1. \A f \in {"runs", "steps", "calls", "ms"} : q[f] = p[f]
    OBVIOUS
  <2> QED
    BY <2>1
<1>3. p.runs = RunQuota => Near(p)
  <2>1. (RunQuota * 5) \div 10 <= RunQuota /\ (RunQuota * 8) \div 10 <= RunQuota /\ (RunQuota * 10) \div 10 <= RunQuota
    BY <1>1
  <2>2. (RunQuota * ratio) \div 10 <= RunQuota
    BY <2>1
  <2>3. (policy["runs"] * policy.ratio) \div 10 <= RunQuota
    BY <1>1, <2>2
  <2> HIDE DEF policy
  <2>4. p.runs = RunQuota => p["runs"] >= (policy["runs"] * policy.ratio) \div 10
    BY <1>1, <2>3
  <2> QED
    BY <2>4
<1>4. \A r : QuotaDecision(policy, r) =
        CASE r.runs > policy.runs -> "runs"
          [] r.runs <= policy.runs /\ r.steps > policy.steps -> "steps"
          [] r.runs <= policy.runs /\ r.steps <= policy.steps /\ r.calls > policy.calls -> "calls"
          [] r.runs <= policy.runs /\ r.steps <= policy.steps /\ r.calls <= policy.calls /\ r.ms > policy.ms -> "ms"
          [] OTHER -> IF Near(r) THEN "warning" ELSE "allow"
  BY DEF QuotaDecision
<1> HIDE DEF Near, policy
<1>5. QuotaDecision(policy, q) = QuotaDecision(policy, p)
  BY <1>2, <1>4
<1>6. QuotaDecision(policy, p) \notin Denials => p.runs <= RunQuota /\ p.steps <= StepQuota
  <2>1. CASE p.runs > policy.runs
    BY <1>1, <1>4, <2>1 DEF Denials
  <2>2. CASE p.runs <= policy.runs /\ p.steps > policy.steps
    <3>1. QuotaDecision(policy, p) = "steps"
      BY <1>1, <1>4, <2>2
    <3> QED
      BY <3>1 DEF Denials
  <2> QED
    BY <1>1, <2>1, <2>2
<1>7. p.runs = RunQuota => QuotaDecision(policy, p) # "allow"
  BY <1>1, <1>3, <1>4
<1> QED
  BY <1>5, <1>6, <1>7 DEF policy

LEMMA QuotaOK == QueryInv => QuotaHolds
<1> SUFFICES ASSUME QueryInv, NEW w \in Workspace, NEW n \in {1, 2}, NEW ratio \in {5, 8, 10}
             PROVE  LET policy == QuotaPolicy(ratio)
                        d == PreExecutionQuota(w, TRUE, n, policy)
                        c == Consumed(w)
                    IN /\ d = QuotaStatus(w, [runs |-> 1, steps |-> n, calls |-> n, ms |-> 0], policy)
                       /\ d \notin Denials => c.runs < RunQuota /\ c.steps + n <= StepQuota
                       /\ c.runs + 1 = RunQuota => d # "allow"
                       /\ RunsOf(w) = {} => d = QuotaDecision(policy, [runs |-> 1, steps |-> n, calls |-> n, ms |-> 0])
                       /\ PreExecutionQuota(w, FALSE, n, policy) = "allow"
  BY DEF QuotaHolds
<1> DEFINE policy == QuotaPolicy(ratio)
           c == Consumed(w)
           p == [c EXCEPT !.runs = @ + 1, !.steps = @ + n, !.calls = @ + n]
           more == [runs |-> 1, steps |-> n, calls |-> n, ms |-> 0]
           q == [f \in {"runs", "steps", "calls", "ms"} |-> c[f] + more[f]]
<1>1. c.runs \in Nat /\ c.steps \in Nat /\ c.calls \in Nat /\ c.ms \in Nat /\ DOMAIN c = {"runs", "steps", "calls", "ms"}
  <2>1. DOMAIN c = {"runs", "steps", "calls", "ms"}
    BY DEF Consumed
  <2> QED
    BY <2>1, ConsumedIs
<1>2. /\ PreExecutionQuota(w, TRUE, n, policy) = QuotaDecision(policy, p)
      /\ PreExecutionQuota(w, FALSE, n, policy) = "allow"
      /\ QuotaStatus(w, more, policy) = QuotaDecision(policy, q)
  BY DEF PreExecutionQuota, QuotaStatus
<1>3. RunsOf(w) = {} => c.runs = 0 /\ c.steps = 0 /\ c.calls = 0 /\ c.ms = 0
  <2> SUFFICES ASSUME RunsOf(w) = {} PROVE c.runs = 0 /\ c.steps = 0 /\ c.calls = 0 /\ c.ms = 0
    OBVIOUS
  <2>1. IsFiniteSet({}) /\ Cardinality({}) = 0
    BY FS_EmptySet
  <2>2. SumOf(ExecutedOf(runsSoFar), {}) = 0 /\ SumOf(TimesOf(runsSoFar), {}) = 0
    BY <2>1, SumFacts
  <2>3. 2 * 0 = 0
    OBVIOUS
  <2> QED
    BY <2>1, <2>2, <2>3, ConsumedIs
<1> HIDE DEF c
<1>4. p.runs = c.runs + 1 /\ p.steps = c.steps + n /\ p.calls = c.calls + n /\ p.ms = c.ms
  BY <1>1
<1>5. q.runs = c.runs + 1 /\ q.steps = c.steps + n /\ q.calls = c.calls + n /\ q.ms = c.ms
  BY <1>1
<1>6. more.runs = 1 /\ more.steps = n /\ more.calls = n /\ more.ms = 0 /\ n \in Nat
  OBVIOUS
<1> HIDE DEF p, q, more
<1>7. p.runs \in Nat /\ p.steps \in Nat /\ p.calls \in Nat /\ p.ms \in Nat
  BY <1>1, <1>4, <1>6
<1>8. /\ QuotaDecision(policy, q) = QuotaDecision(policy, p)
      /\ QuotaDecision(policy, p) \notin Denials => p.runs <= RunQuota /\ p.steps <= StepQuota
      /\ p.runs = RunQuota => QuotaDecision(policy, p) # "allow"
  BY <1>4, <1>5, <1>7, DecisionFacts
<1>9. RunsOf(w) = {} => QuotaDecision(policy, more) = QuotaDecision(policy, p)
  <2> SUFFICES ASSUME RunsOf(w) = {} PROVE QuotaDecision(policy, more) = QuotaDecision(policy, p)
    OBVIOUS
  <2>1. more.runs = p.runs /\ more.steps = p.steps /\ more.calls = p.calls /\ more.ms = p.ms
    BY <1>3, <1>4, <1>6
  <2> QED
    BY <1>7, <2>1, DecisionFacts
<1>10. QuotaDecision(policy, p) \notin Denials => c.runs < RunQuota /\ c.steps + n <= StepQuota
  BY <1>1, <1>4, <1>8, QueriesAssumption
<1> HIDE DEF policy
<1> QED
  BY <1>2, <1>4, <1>8, <1>9, <1>10 DEF policy, c, more

-----------------------------------------------------------------------------
\* Of a finite set of positions, those with fewer than limit after them are limit at most.
LEMMA LastOnes ==
  ASSUME NEW S \in SUBSET Nat, IsFiniteSet(S), NEW limit \in Nat \ {0}
  PROVE  Cardinality({i \in S : Cardinality({j \in S : i < j}) < limit}) <= limit
<1> DEFINE last == {i \in S : Cardinality({j \in S : i < j}) < limit}
<1>1. CASE last = {}
  <2>1. Cardinality({}) = 0 /\ 0 <= limit
    BY FS_EmptySet
  <2> QED
    BY <1>1, <2>1
<1>2. CASE last # {}
  <2>1. last \in SUBSET Nat
    OBVIOUS
  <2> DEFINE After(i) == {j \in S : i < j}
  <2>2. PICK m \in last : \A i \in last : m <= i
    <3> HIDE DEF last
    <3> QED
      BY <1>2, <2>1, LeastExists
  <2>3. Cardinality(After(m)) < limit /\ m \in Nat /\ After(m) \in SUBSET S
    BY <2>2
  <2>4. last \subseteq After(m) \cup {m}
    BY <2>1, <2>2
  <2> HIDE DEF last, After
  <2>5. IsFiniteSet(After(m)) /\ Cardinality(After(m)) \in Nat
    BY <2>3, FS_Subset, FS_CardinalityType
  <2>6. IsFiniteSet(After(m) \cup {m}) /\ Cardinality(After(m) \cup {m}) <= Cardinality(After(m)) + 1
    <3>1. /\ IsFiniteSet(After(m) \cup {m})
          /\ Cardinality(After(m) \cup {m}) = IF m \in After(m) THEN Cardinality(After(m)) ELSE Cardinality(After(m)) + 1
      BY <2>5, FS_AddElement
    <3> QED
      BY <2>5, <3>1
  <2>7. Cardinality(last) <= Cardinality(After(m) \cup {m}) /\ Cardinality(last) \in Nat
        /\ Cardinality(After(m) \cup {m}) \in Nat
    BY <2>4, <2>6, FS_Subset, FS_CardinalityType
  <2>8. Cardinality(last) <= limit
    BY <2>3, <2>5, <2>6, <2>7
  <2> QED
    BY <2>8 DEF last
<1> QED
  BY <1>1, <1>2

LEMMA BillsOK == QueryInv => BillsAreCovered
<1> SUFFICES ASSUME QueryInv, NEW w \in Workspace
             PROVE  LET charged == BilledEvents(w, 0, FALSE)
                    IN /\ Cardinality(charged) = GetUsage(Today(w)).billable
                       /\ Cardinality(charged) <= EstimatedEvents(w)
                       /\ Cardinality(BilledEvents(w, 0, TRUE)) = EstimatedEvents(w)
                       /\ \A limit \in 1 .. 4 :
                            LET last == BilledEvents(w, limit, FALSE)
                            IN /\ last \subseteq charged
                               /\ \A i \in last, j \in charged : i < j => j \in last
                               /\ Cardinality(BilledEvents(w, limit, TRUE)) <= limit
  BY DEF BillsAreCovered
<1> DEFINE E == Queried(Today(w))
           charged == {i \in E : usageLog[i].billable}
           After(i) == {j \in E : i < j}
<1>1. E \in SUBSET Nat /\ IsFiniteSet(E)
  <2>1. usageLog \in Seq(UsageEvents) /\ E \subseteq DOMAIN usageLog /\ DOMAIN usageLog = 1 .. Len(usageLog)
        /\ IsFiniteSet(DOMAIN usageLog)
    BY DaysOf DEF Queried
  <2> HIDE DEF E
  <2> QED
    BY <2>1, FS_Subset
<1>2. OutputEvents(Today(w), 0) = E
      /\ \A limit \in 1 .. 4 : OutputEvents(Today(w), limit) = {i \in E : Cardinality(After(i)) < limit}
  BY DEF OutputEvents
<1>3. /\ BilledEvents(w, 0, FALSE) = charged /\ BilledEvents(w, 0, TRUE) = E
      /\ \A limit \in 1 .. 4 :
           /\ BilledEvents(w, limit, FALSE) = {i \in E : Cardinality(After(i)) < limit /\ usageLog[i].billable}
           /\ BilledEvents(w, limit, TRUE) = {i \in E : Cardinality(After(i)) < limit}
  BY <1>2 DEF BilledEvents
<1>4. GetUsage(Today(w)).billable = Cardinality(charged) /\ EstimatedEvents(w) = Cardinality(E)
  BY UsageFields DEF EstimatedEvents
<1>5. Cardinality(charged) <= Cardinality(E)
  BY <1>1, FS_Subset
<1>6. ASSUME NEW limit \in 1 .. 4
      PROVE  LET last == BilledEvents(w, limit, FALSE)
             IN /\ last \subseteq charged
                /\ \A i \in last, j \in charged : i < j => j \in last
                /\ Cardinality(BilledEvents(w, limit, TRUE)) <= limit
  <2> DEFINE last == {i \in E : Cardinality(After(i)) < limit /\ usageLog[i].billable}
  <2>1. ASSUME NEW i \in last, NEW j \in charged, i < j PROVE j \in last
    <3>1. i \in E /\ j \in E /\ i \in Nat /\ j \in Nat /\ Cardinality(After(i)) < limit /\ usageLog[j].billable
      BY <1>1, <2>1
    <3>2. After(j) \subseteq After(i) /\ After(i) \subseteq E /\ \A k \in E : k \in Nat
      BY <1>1, <2>1, <3>1
    <3> HIDE DEF After, E
    <3>3. IsFiniteSet(After(i)) /\ IsFiniteSet(After(j))
      BY <1>1, <3>2, FS_Subset
    <3>4. Cardinality(After(j)) <= Cardinality(After(i)) /\ Cardinality(After(j)) \in Nat /\ Cardinality(After(i)) \in Nat
      BY <3>2, <3>3, FS_Subset, FS_CardinalityType
    <3>5. Cardinality(After(j)) < limit
      BY <3>1, <3>4
    <3> QED
      BY <3>1, <3>5
  <2>2. limit \in Nat \ {0}
    OBVIOUS
  <2>3. Cardinality({i \in E : Cardinality(After(i)) < limit}) <= limit
    <3> HIDE DEF E
    <3> QED
      BY <1>1, <2>2, LastOnes
  <2>4. last \subseteq charged
    OBVIOUS
  <2>5. BilledEvents(w, limit, FALSE) = last /\ BilledEvents(w, limit, TRUE) = {i \in E : Cardinality(After(i)) < limit}
    BY <1>3
  <2> HIDE DEF last, charged, E, After
  <2> QED
    BY <2>1, <2>3, <2>4, <2>5
<1> HIDE DEF charged, E, After
<1> QED
  BY <1>3, <1>4, <1>5, <1>6

\* For every history of runs: every grouping of the events gives them all, once;
\* a query up to an instant and one from the next split the log in order; the
\* counters of a workspace are what its runs were; a run that the quota admits
\* keeps it within its limits, as the status on demand says too; and an estimate
\* covers what is charged, of which a limit takes the oldest.
THEOREM QueriesAreSound == QuerySpec => []QueriesSound
<1>1. QueryInv => QueriesSound
  BY AddUp, QuotaOK, BillsOK DEF QueriesSound
<1> QED
  BY <1>1, QueryInitInv, QueryStepInv, PTL DEF QuerySpec
=============================================================================
