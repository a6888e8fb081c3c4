--------------------------- MODULE FirmwareProofs ---------------------------
(***************************************************************************)
(* Theorems about WifiLink, for every table of networks and every set of   *)
(* intervals that satisfy NetworkAssumption and LinkTimeAssumption, and    *)
(* for any number of disturbances: the sockets are never half open, the    *)
(* firmware knows the network it is on, and a scan that gives up has tried *)
(* every configured network once.  Then the types of WifiLink and          *)
(* ThrusterControl together.                                               *)
(***************************************************************************)
EXTENDS MCFirmware, ThrusterControlProofs, FunctionTheorems, FiniteSetTheorems,
        SequenceTheorems

\* How far behind `start` a network is, around the end of the table.
Offset(start, x) == IF x >= start THEN x - start
                    ELSE x - start + MAX_WIFI_NETWORKS

\* The radio is on the network it was last told to join, which is the one of
\* the attempt, or between attempts the one the code has noted.
OnTarget ==
    /\ radio # Wifi!NONE => radio = target
    /\ attempt.active => target = attempt.index
    /\ ~attempt.active /\ target # Wifi!NONE => currentNetworkIndex = target

\* A scan under way goes with an attempt.
ScanUnderWay ==
    /\ reconnectInProgress <=> attempt.active
    /\ attempt.active =>
         /\ attempt.index \in Configured /\ cycle.start \in Configured
         /\ cycle.tried + 1 <= Cardinality(Configured)
         /\ Len(order) = cycle.tried + 1
         /\ order[Len(order)] = attempt.index

\* The scan has moved on around the table, and left nothing out.
Sweeps ==
    attempt.active =>
        /\ \A i, j \in 1 .. Len(order) :
             i < j => Offset(cycle.start, order[i]) < Offset(cycle.start, order[j])
        /\ \A y \in Configured :
             Offset(cycle.start, y) <= Offset(cycle.start, attempt.index)
               => \E i \in 1 .. Len(order) : order[i] = y

\* Sockets are open only after an attempt succeeded.
WifiInv ==
    /\ Wifi!TypeOK
    /\ Wifi!NoHalfOpenSockets
    /\ linkUdp => ~attempt.active
    /\ OnTarget
    /\ ScanUnderWay
    /\ Sweeps

-----------------------------------------------------------------------------
(* The table of networks. *)

\* A nonempty set of numbers has a least element.
LEMMA LeastElement ==
    ASSUME NEW T \in SUBSET Nat, T # {}
    PROVE  Wifi!Min(T) \in T /\ \A k \in T : Wifi!Min(T) <= k
<1> DEFINE Below == {0 .. k : k \in T}
<1>1. IsWellFoundedOn(StrictSubsetOrdering(Nat), FiniteSubsetsOf(Nat))
  BY FS_StrictSubsetOrderingWellFounded
<1>2. Below \subseteq FiniteSubsetsOf(Nat)
  <2>1. ASSUME NEW k \in T PROVE 0 .. k \in SUBSET Nat /\ IsFiniteSet(0 .. k)
    <3>1. k \in Int /\ 0 \in Int
      OBVIOUS
    <3>2. QED
      BY <3>1, FS_Interval
  <2>2. QED
    BY <2>1 DEF FiniteSubsetsOf
<1>3. PICK s \in Below : \A r \in Below : <<r, s>> \notin StrictSubsetOrdering(Nat)
  <2>1. Below # {}
    OBVIOUS
  <2>2. QED
    BY <1>1, <1>2, <2>1, WFMin
<1>4. PICK m \in T : s = 0 .. m
  BY <1>3
<1>5. ASSUME NEW k \in T PROVE m <= k
  <2>1. SUFFICES ASSUME k < m PROVE FALSE
    OBVIOUS
  <2>2. k \in Nat /\ m \in Nat
    OBVIOUS
  <2>3. 0 .. k \subseteq 0 .. m /\ m \in 0 .. m /\ m \notin 0 .. k
    BY <2>1, <2>2
  <2>4. 0 .. k \in Below /\ 0 .. k \in SUBSET Nat /\ 0 .. m \in SUBSET Nat
    BY <2>2
  <2>5. <<0 .. k, 0 .. m>> \in StrictSubsetOrdering(Nat)
    BY <2>3, <2>4 DEF StrictSubsetOrdering
  <2>6. QED
    BY <1>3, <1>4, <2>4, <2>5
<1>6. QED
  BY <1>5 DEF Wifi!Min

\* Around the end of a table of n entries, at most once.
LEMMA OnceAround ==
    ASSUME NEW n \in Nat \ {0}, NEW a \in 0 .. n - 1, NEW o \in 1 .. n
    PROVE  (a + o + n) % n = IF a + o < n THEN a + o ELSE a + o - n
<1>1. CASE a + o < n
  OBVIOUS
<1>2. CASE a + o >= n
  OBVIOUS
<1>3. QED
  BY <1>1, <1>2

\* WifiLink, taken as an instance, counts as this module does.
LEMMA OneCardinality ==
    \A S : Wifi!Cardinality(S) = Cardinality(S)
BY Zenon DEF Cardinality, Wifi!Cardinality

\* The configured networks are finitely many, and none of them is NONE.
LEMMA ConfiguredFinite ==
    ASSUME Wifi!NetworkAssumption
    PROVE  /\ IsFiniteSet(Configured) /\ Cardinality(Configured) \in Nat
           /\ Configured # {} <=> Cardinality(Configured) > 0
           /\ Wifi!NONE \notin Configured
<1>1. IsFiniteSet(0 .. MAX_WIFI_NETWORKS - 1)
  BY FS_Interval DEF Wifi!NetworkAssumption
<1>2. IsFiniteSet(Configured)
  BY <1>1, FS_Subset DEF Wifi!NetworkAssumption
<1>3. QED
  BY <1>2, FS_EmptySet, FS_CardinalityType DEF Wifi!NetworkAssumption, Wifi!NONE

\* The first network is one of the table.
LEMMA FirstConfigured ==
    ASSUME Wifi!NetworkAssumption, Configured # {}
    PROVE  Wifi!FindFirstConfiguredWifiNetwork \in Configured
<1>1. Configured \in SUBSET Nat
  BY DEF Wifi!NetworkAssumption
<1>2. QED
  BY <1>1, LeastElement DEF Wifi!FindFirstConfiguredWifiNetwork

\* The next network is the nearest configured one: seen from where the scan
\* started, it skips nothing, unless the scan is back at its start.
LEMMA NextConfigured ==
    ASSUME Wifi!NetworkAssumption, NEW start \in Configured, NEW last \in Configured,
           NEW y \in Configured, Offset(start, y) > Offset(start, last)
    PROVE  LET next == Wifi!FindNextConfiguredWifiNetwork(last) IN
           /\ next \in Configured
           /\ Offset(start, next) > Offset(start, last)
           /\ \A z \in Configured :
                Offset(start, z) <= Offset(start, next) =>
                    z = next \/ Offset(start, z) <= Offset(start, last)
<1> DEFINE N == MAX_WIFI_NETWORKS
           At(offset) == (last + offset + N) % N
           Hits == {o \in 1 .. N : At(o) \in Configured}
           Ahead(z) == IF z > last THEN z - last ELSE z - last + N
<1>1. N \in Nat \ {0} /\ Configured \subseteq 0 .. N - 1
  BY DEF Wifi!NetworkAssumption
<1>2. ASSUME NEW o \in 1 .. N
      PROVE  At(o) = IF last + o < N THEN last + o ELSE last + o - N
  BY <1>1, OnceAround
<1>3. ASSUME NEW z \in Configured PROVE Ahead(z) \in Hits /\ At(Ahead(z)) = z
  <2>1. Ahead(z) \in 1 .. N
    BY <1>1
  <2>2. At(Ahead(z)) = z
    BY <1>1, <1>2, <2>1
  <2>3. QED
    BY <2>1, <2>2
<1>4. /\ Wifi!Min(Hits) \in Hits
      /\ \A o \in Hits : Wifi!Min(Hits) <= o
  <2>1. Hits \in SUBSET Nat
    BY <1>1
  <2>2. Hits # {}
    BY <1>3
  <2>3. QED
    BY <2>1, <2>2, LeastElement
<1>5. Wifi!FindNextConfiguredWifiNetwork(last) = At(Wifi!Min(Hits))
  BY <1>4 DEF Wifi!FindNextConfiguredWifiNetwork
<1> DEFINE next == Wifi!FindNextConfiguredWifiNetwork(last)
<1> HIDE DEF next, At, Hits
<1>6. next \in Configured /\ Ahead(next) = Wifi!Min(Hits)
  <2>1. At(Wifi!Min(Hits)) \in Configured /\ Wifi!Min(Hits) \in 1 .. N
    BY <1>4 DEF Hits
  <2>2. QED
    BY <1>1, <1>2, <1>5, <2>1 DEF next
<1>7. \A z \in Configured : Ahead(next) <= Ahead(z)
  BY <1>3, <1>4, <1>6
<1>8. Offset(start, next) > Offset(start, last)
  BY <1>1, <1>6, <1>7 DEF Offset
<1>9. ASSUME NEW z \in Configured, Offset(start, z) <= Offset(start, next)
      PROVE  z = next \/ Offset(start, z) <= Offset(start, last)
  BY <1>1, <1>6, <1>7, <1>8, <1>9 DEF Offset
<1>10. QED
  BY <1>6, <1>8, <1>9 DEF next

-----------------------------------------------------------------------------
(* The scan. *)

\* The distance between two networks in the scan's order is a number.
LEMMA OffsetType ==
    ASSUME Wifi!NetworkAssumption, NEW start \in Configured, NEW x \in Configured
    PROVE  Offset(start, x) \in Int
<1>1. start \in Int /\ x \in Int /\ MAX_WIFI_NETWORKS \in Int
  BY DEF Wifi!NetworkAssumption
<1>2. QED
  BY <1>1 DEF Offset

\* The numbers from 1 to n are n.
LEMMA UpTo ==
    ASSUME NEW n \in Nat
    PROVE  IsFiniteSet(1 .. n) /\ Cardinality(1 .. n) = n
<1>1. n \in Int /\ 1 \in Int
  OBVIOUS
<1>2. Cardinality(1 .. n) = IF 1 > n THEN 0 ELSE n - 1 + 1
  BY <1>1, FS_Interval
<1>3. IsFiniteSet(1 .. n)
  BY <1>1, FS_Interval
<1>4. QED
  BY <1>2, <1>3

\* The networks a scan has tried are different ones.
LEMMA OrderInjective ==
    ASSUME Wifi!NetworkAssumption, order \in Seq(Configured), attempt.active,
           ScanUnderWay, Sweeps
    PROVE  order \in Injection(1 .. Len(order), Configured)
<1>1. order \in [1 .. Len(order) -> Configured] /\ Len(order) \in Nat
  OBVIOUS
<1>2. cycle.start \in Configured
  BY DEF ScanUnderWay
<1>3. \A x \in Configured : Offset(cycle.start, x) \in Int
  BY <1>2, OffsetType
<1>4. ASSUME NEW i \in 1 .. Len(order), NEW j \in 1 .. Len(order),
             order[i] = order[j]
      PROVE  i = j
  <2>1. ~ i < j /\ ~ j < i
    BY <1>1, <1>3, <1>4 DEF Sweeps
  <2>2. QED
    BY <2>1
<1>5. QED
  BY <1>1, <1>4, Fun_IsInj

\* A scan that has tried as many networks as there are has tried them all.
LEMMA ScanEnds ==
    ASSUME Wifi!NetworkAssumption, Wifi!TypeOK, attempt.active, ScanUnderWay, Sweeps,
           ~Wifi!MoreToTry(cycle.tried + 1)
    PROVE  /\ {order[i] : i \in DOMAIN order} = Configured
           /\ Len(order) = Cardinality(Configured)
<1>1. order \in Seq(Configured) /\ cycle.tried \in Nat
  BY ConfiguredFinite DEF Wifi!TypeOK
<1>2. Len(order) = Cardinality(Configured)
  BY OneCardinality, <1>1, ConfiguredFinite DEF Wifi!MoreToTry, ScanUnderWay
<1>3. order \in Injection(1 .. Len(order), Configured)
  BY <1>1, OrderInjective
<1>4. Cardinality(1 .. Len(order)) = Len(order)
  BY <1>1, UpTo
<1>5. order \in Surjection(1 .. Len(order), Configured)
  BY <1>2, <1>3, <1>4, ConfiguredFinite, FS_Injection
<1>6. DOMAIN order = 1 .. Len(order)
  BY <1>1
<1>7. \A y \in Configured : \E i \in 1 .. Len(order) : order[i] = y
  BY <1>5 DEF Surjection
<1>8. \A i \in 1 .. Len(order) : order[i] \in Configured
  BY <1>1
<1>9. QED
  BY <1>2, <1>6, <1>7, <1>8

\* A scan that has tried fewer has one in front of it.
LEMMA SomeLeft ==
    ASSUME Wifi!NetworkAssumption, Wifi!TypeOK, attempt.active, ScanUnderWay, Sweeps,
           Wifi!MoreToTry(cycle.tried + 1)
    PROVE  \E y \in Configured :
             Offset(cycle.start, y) > Offset(cycle.start, attempt.index)
<1>1. order \in Seq(Configured) /\ cycle.tried \in Nat
  BY ConfiguredFinite DEF Wifi!TypeOK
<1>2. cycle.start \in Configured /\ attempt.index \in Configured
  BY DEF ScanUnderWay
<1>3. SUFFICES ASSUME \A y \in Configured :
                        Offset(cycle.start, y) <= Offset(cycle.start, attempt.index)
               PROVE  FALSE
  BY <1>2, OffsetType
<1>4. \A y \in Configured : \E i \in 1 .. Len(order) : order[i] = y
  BY <1>3 DEF Sweeps
<1>5. order \in Surjection(1 .. Len(order), Configured)
  BY <1>1, <1>4, Fun_IsSurj
<1>6. IsFiniteSet(1 .. Len(order)) /\ Cardinality(1 .. Len(order)) = Len(order)
  BY <1>1, UpTo
<1>7. Cardinality(Configured) <= Len(order)
  BY <1>5, <1>6, FS_Surjection
<1>8. Len(order) < Cardinality(Configured)
  BY OneCardinality, <1>1, ConfiguredFinite DEF Wifi!MoreToTry, ScanUnderWay
<1>9. QED
  BY <1>1, <1>7, <1>8, ConfiguredFinite

\* A step that leaves the scan alone.
LEMMA ScanKept ==
    ASSUME ScanUnderWay, Sweeps, attempt'.active = attempt.active,
           attempt'.index = attempt.index,
           UNCHANGED <<cycle, reconnectInProgress, order>>
    PROVE  ScanUnderWay' /\ Sweeps'
BY DEF ScanUnderWay, Sweeps, Offset

\* A new cycle starts with one network, at its start.
LEMMA CycleBegins ==
    ASSUME Wifi!NetworkAssumption, NEW start \in Configured,
           Wifi!StartWifiAttempt(start, start, 0)
    PROVE  ScanUnderWay' /\ Sweeps' /\ order' \in Seq(Configured)
<1>1. order' = <<start>>
  BY DEF Wifi!StartWifiAttempt
<1>2. /\ attempt' = [active |-> TRUE, age |-> 0, index |-> start]
      /\ cycle' = [start |-> start, tried |-> 0]
      /\ reconnectInProgress' = TRUE
  BY DEF Wifi!StartWifiAttempt
<1>3. Cardinality(Configured) \in Nat /\ Cardinality(Configured) > 0
  BY ConfiguredFinite
<1>4. ScanUnderWay'
  BY <1>1, <1>2, <1>3 DEF ScanUnderWay
<1>5. ASSUME NEW y \in Configured, Offset(start, y) <= Offset(start, start)
      PROVE  y = start
  <2>1. /\ start \in 0 .. MAX_WIFI_NETWORKS - 1 /\ y \in 0 .. MAX_WIFI_NETWORKS - 1
        /\ MAX_WIFI_NETWORKS \in Nat
    BY DEF Wifi!NetworkAssumption
  <2>2. QED
    BY <1>5, <2>1 DEF Offset
<1>6. Sweeps'
  <2>1. Len(order') = 1 /\ order'[1] = start
    BY <1>1
  <2>2. cycle'.start = start /\ attempt'.index = start
    BY <1>2
  <2>3. QED
    BY <1>5, <2>1, <2>2 DEF Sweeps, Offset
<1>7. QED
  BY <1>1, <1>4, <1>6

\* The next attempt of a cycle moves on to the nearest network not tried.
LEMMA CycleMovesOn ==
    ASSUME Wifi!NetworkAssumption, Wifi!TypeOK, attempt.active, ScanUnderWay, Sweeps,
           Wifi!MoreToTry(cycle.tried + 1),
           Wifi!StartWifiAttempt(Wifi!NextIndex(cycle.tried + 1, attempt.index, cycle.start),
                            cycle.start, cycle.tried + 1)
    PROVE  /\ ScanUnderWay' /\ Sweeps' /\ order' \in Seq(Configured)
           /\ attempt'.index \in Configured
<1> DEFINE start == cycle.start
           last  == attempt.index
           next  == Wifi!FindNextConfiguredWifiNetwork(last)
           n     == Len(order)
<1>1. /\ order \in Seq(Configured) /\ cycle.tried \in Nat /\ n = cycle.tried + 1
      /\ start \in Configured /\ last \in Configured /\ order[n] = last
  BY ConfiguredFinite DEF Wifi!TypeOK, ScanUnderWay
<1>2. /\ next \in Configured
      /\ Offset(start, next) > Offset(start, last)
      /\ \A z \in Configured : Offset(start, z) <= Offset(start, next) =>
             z = next \/ Offset(start, z) <= Offset(start, last)
  BY <1>1, SomeLeft, NextConfigured
<1>3. /\ attempt' = [active |-> TRUE, age |-> 0, index |-> next]
      /\ cycle' = [start |-> start, tried |-> cycle.tried + 1]
      /\ reconnectInProgress' = TRUE
      /\ order' = Append(order, next)
  <2>1. cycle.tried + 1 # 0
    BY <1>1
  <2>2. Wifi!NextIndex(cycle.tried + 1, attempt.index, cycle.start) = next
    BY <2>1 DEF Wifi!NextIndex
  <2>3. QED
    BY <2>1, <2>2 DEF Wifi!StartWifiAttempt
<1> HIDE DEF next
<1>4. /\ order' \in Seq(Configured)
      /\ Len(order') = n + 1
      /\ \A i \in 1 .. n : order'[i] = order[i]
      /\ order'[n + 1] = next
  BY <1>1, <1>2, <1>3, AppendProperties
<1>5. ScanUnderWay'
  <2>1. cycle.tried + 2 <= Cardinality(Configured)
    BY OneCardinality, <1>1, ConfiguredFinite DEF Wifi!MoreToTry
  <2>2. QED
    BY <1>1, <1>2, <1>3, <1>4, <2>1 DEF ScanUnderWay
<1>6. \A x \in Configured : Offset(start, x) \in Int
  BY <1>1, OffsetType
<1>7. Sweeps'
  <2>1. /\ \A i, j \in 1 .. n :
             i < j => Offset(start, order[i]) < Offset(start, order[j])
        /\ \A y \in Configured : Offset(start, y) <= Offset(start, last)
             => \E i \in 1 .. n : order[i] = y
    BY DEF Sweeps
  <2>2. ASSUME NEW i \in 1 .. n + 1, NEW j \in 1 .. n + 1, i < j
        PROVE  Offset(start, order'[i]) < Offset(start, order'[j])
    <3>1. i \in 1 .. n /\ order'[i] = order[i]
      BY <1>1, <1>4, <2>2
    <3>2. Offset(start, order[i]) <= Offset(start, last)
      <4>1. i = n \/ i < n
        BY <1>1, <3>1
      <4>2. n \in 1 .. n
        BY <1>1
      <4>3. order[i] \in Configured
        BY <1>1, <3>1
      <4>4. Offset(start, order[i]) \in Int /\ Offset(start, last) \in Int
        BY <1>1, <1>6, <4>3
      <4>5. QED
        BY <1>1, <2>1, <3>1, <4>1, <4>2, <4>4
    <3>3. CASE j \in 1 .. n
      BY <1>4, <2>1, <2>2, <3>1, <3>3
    <3>4. CASE j = n + 1
      <4>1. order[i] \in Configured
        BY <1>1, <3>1
      <4>2. /\ Offset(start, order[i]) \in Int /\ Offset(start, last) \in Int
            /\ Offset(start, next) \in Int
        BY <1>1, <1>2, <1>6, <4>1
      <4>3. QED
        BY <1>2, <1>4, <3>1, <3>2, <3>4, <4>2
    <3>5. QED
      BY <1>1, <3>3, <3>4
  <2>3. ASSUME NEW y \in Configured, Offset(start, y) <= Offset(start, next)
        PROVE  \E i \in 1 .. n + 1 : order'[i] = y
    <3>1. CASE y = next
      <4>1. n + 1 \in 1 .. n + 1
        BY <1>1
      <4>2. QED
        BY <1>4, <3>1, <4>1
    <3>2. CASE Offset(start, y) <= Offset(start, last)
      <4>1. PICK i \in 1 .. n : order[i] = y
        BY <2>1, <3>2
      <4>2. i \in 1 .. n + 1 /\ order'[i] = y
        BY <1>1, <1>4, <4>1
      <4>3. QED
        BY <4>2
    <3>3. QED
      BY <1>2, <2>3, <3>1, <3>2
  <2>4. cycle'.start = start /\ attempt'.index = next
    BY <1>3
  <2>5. QED
    BY <1>4, <2>2, <2>3, <2>4 DEF Sweeps, Offset
<1>8. attempt'.index \in Configured
  BY <1>2, <1>3
<1>9. QED
  BY <1>4, <1>5, <1>7, <1>8

-----------------------------------------------------------------------------
(* The inductive invariant. *)

\* The invariant holds after begin().
LEMMA WifiInvInit ==
    ASSUME Wifi!NetworkAssumption, Wifi!LinkTimeAssumption, Wifi!Init
    PROVE  WifiInv
<1>1. /\ WifiAgeMax \in Nat /\ MaxFaults \in Nat /\ MAX_RECONNECT_ATTEMPTS \in Nat
      /\ MAX_RECONNECT_ATTEMPTS > 0
  BY DEF Wifi!LinkTimeAssumption
<1>2. /\ Cardinality(Configured) \in Nat /\ Configured \subseteq Wifi!Index
      /\ Wifi!NONE \notin Configured
  BY ConfiguredFinite DEF Wifi!NetworkAssumption, Wifi!Index
<1> DEFINE first == Wifi!FindFirstConfiguredWifiNetwork
<1>0. /\ checkAge \in 0 .. WifiAgeMax
      /\ cachedWifiConnected \in BOOLEAN
      /\ currentNetworkIndex \in {Wifi!NONE} \cup Wifi!Index
      /\ reconnectAttemptCount \in 0 .. MAX_RECONNECT_ATTEMPTS - 1
      /\ {connectedAge, udpStartAge} \subseteq Wifi!Stamp
      /\ linkUdp \in BOOLEAN /\ sockets \subseteq Wifi!Socket
      /\ radio \in {Wifi!NONE} \cup Configured /\ up \subseteq Configured
      /\ faults \in 0 .. MaxFaults
  <2>1. /\ checkAge = WifiAgeMax /\ cachedWifiConnected = FALSE
        /\ currentNetworkIndex = Wifi!NONE /\ reconnectAttemptCount = 0
        /\ connectedAge = Wifi!NONE /\ udpStartAge = Wifi!NONE
        /\ linkUdp = FALSE /\ sockets = {} /\ radio = Wifi!NONE
        /\ up \in SUBSET Configured /\ faults = 0
    BY DEF Wifi!Init
  <2>2. checkAge \in 0 .. WifiAgeMax /\ faults \in 0 .. MaxFaults
        /\ reconnectAttemptCount \in 0 .. MAX_RECONNECT_ATTEMPTS - 1
    BY <1>1, <2>1
  <2>3. {connectedAge, udpStartAge} \subseteq Wifi!Stamp
    BY <2>1 DEF Wifi!Stamp
  <2>4. QED
    BY <2>1, <2>2, <2>3
<1>3. CASE Configured = {}
  <2>1. /\ attempt = Wifi!NoAttempt /\ cycle = Wifi!NoCycle /\ order = << >>
        /\ reconnectInProgress = FALSE /\ disconnectAge = Wifi!NONE
        /\ target = Wifi!NONE
    BY <1>3 DEF Wifi!Init, Wifi!NoAttempt
  <2>2. Wifi!TypeOK
    <3>1. attempt \in [active : BOOLEAN, age : 0 .. WifiAgeMax, index : {Wifi!NONE} \cup Wifi!Index]
      BY <1>1, <2>1 DEF Wifi!NoAttempt
    <3>2. cycle \in [start : {Wifi!NONE} \cup Wifi!Index, tried : 0 .. Cardinality(Configured)]
      BY <1>2, <2>1 DEF Wifi!NoCycle
    <3>3. order \in Seq(Configured) /\ disconnectAge \in Wifi!Stamp
      BY <2>1 DEF Wifi!Stamp
    <3>4. QED
      BY OneCardinality, <1>0, <2>1, <3>1, <3>2, <3>3 DEF Wifi!TypeOK
  <2>3. QED
    BY <2>1, <2>2 DEF Wifi!Init, WifiInv, Wifi!NoHalfOpenSockets, OnTarget, ScanUnderWay, Sweeps,
          Wifi!NoAttempt
<1>4. CASE Configured # {}
  <2>1. /\ attempt = [active |-> TRUE, age |-> 0, index |-> first]
        /\ cycle = [start |-> first, tried |-> 0] /\ order = <<first>>
        /\ reconnectInProgress = TRUE /\ disconnectAge = 0
        /\ target = first
    BY <1>4 DEF Wifi!Init
  <2>2. first \in Configured
    BY <1>4, FirstConfigured
  <2>3. Wifi!TypeOK
    <3> HIDE DEF first
    <3>1. order \in Seq(Configured)
      BY <2>1, <2>2
    <3>2. attempt \in [active : BOOLEAN, age : 0 .. WifiAgeMax, index : {Wifi!NONE} \cup Wifi!Index]
      BY <1>1, <1>2, <2>1, <2>2
    <3>3. cycle \in [start : {Wifi!NONE} \cup Wifi!Index, tried : 0 .. Cardinality(Configured)]
      BY <1>2, <2>1, <2>2
    <3>4. disconnectAge \in Wifi!Stamp
      BY <1>1, <2>1 DEF Wifi!Stamp
    <3>5. QED
      BY OneCardinality, <1>0, <2>1, <2>2, <3>1, <3>2, <3>3, <3>4 DEF Wifi!TypeOK
  <2>4. Cardinality(Configured) > 0
    BY <1>4, ConfiguredFinite
  <2>5. ScanUnderWay
    <3> HIDE DEF first
    <3>1. QED
      BY <1>2, <2>1, <2>2, <2>4 DEF ScanUnderWay
  <2>6. \A y \in Configured : Offset(first, y) <= Offset(first, first) => y = first
    <3> HIDE DEF first
    <3>1. /\ first \in 0 .. MAX_WIFI_NETWORKS - 1 /\ MAX_WIFI_NETWORKS \in Nat
          /\ \A y \in Configured : y \in 0 .. MAX_WIFI_NETWORKS - 1
      BY <2>2 DEF Wifi!NetworkAssumption
    <3>2. QED
      BY <3>1 DEF Offset
  <2>7. Sweeps
    <3> HIDE DEF first
    <3>1. Len(order) = 1 /\ order[1] = first
      BY <2>1
    <3>2. cycle.start = first /\ attempt.index = first
      BY <2>1
    <3>3. QED
      BY <2>6, <3>1, <3>2 DEF Sweeps
  <2>8. Wifi!NoHalfOpenSockets /\ ~linkUdp
    BY DEF Wifi!Init, Wifi!NoHalfOpenSockets
  <2>9. OnTarget
    BY <2>1 DEF OnTarget, Wifi!Init
  <2>10. QED
    BY <2>3, <2>5, <2>7, <2>8, <2>9 DEF WifiInv
<1>5. QED
  BY <1>3, <1>4

\* What EnsureUdpServersStarted does: both sockets end up open, or none.
LEMMA ServersPaired ==
    ASSUME Wifi!LinkTimeAssumption, Wifi!TypeOK, Wifi!NoHalfOpenSockets,
           NEW held \in 0 .. WifiAgeMax, Wifi!EnsureUdpServersStarted(held)
    PROVE  /\ sockets' = IF linkUdp' THEN Wifi!Socket ELSE {}
           /\ linkUdp' \in BOOLEAN
           /\ connectedAge' = held
           /\ udpStartAge' \in Wifi!Stamp
           /\ faults' \in 0 .. MaxFaults
<1>1. connectedAge' = held
  BY DEF Wifi!EnsureUdpServersStarted
<1>2. /\ linkUdp \in BOOLEAN /\ udpStartAge \in Wifi!Stamp
      /\ faults \in 0 .. MaxFaults
      /\ sockets = IF linkUdp THEN Wifi!Socket ELSE {}
  BY DEF Wifi!TypeOK, Wifi!NoHalfOpenSockets
<1>3. CASE UNCHANGED <<linkUdp, sockets, udpStartAge, faults>>
  BY <1>1, <1>2, <1>3
<1>4. CASE linkUdp' = TRUE /\ sockets' = Wifi!Socket /\ udpStartAge' = Wifi!NONE
           /\ UNCHANGED faults
  BY <1>1, <1>2, <1>4 DEF Wifi!Stamp
<1>5. CASE /\ faults < MaxFaults /\ faults' = faults + 1
           /\ linkUdp' = FALSE /\ sockets' = {} /\ udpStartAge' = 0
  <2>1. MaxFaults \in Nat /\ WifiAgeMax \in Nat
    BY DEF Wifi!LinkTimeAssumption
  <2>2. faults' \in 0 .. MaxFaults
    BY <1>2, <1>5, <2>1
  <2>3. udpStartAge' \in Wifi!Stamp
    BY <1>5, <2>1 DEF Wifi!Stamp
  <2>4. QED
    BY <1>1, <1>5, <2>2, <2>3
<1>6. QED
  BY <1>3, <1>4, <1>5 DEF Wifi!EnsureUdpServersStarted, Wifi!AfterFailedBegin, Wifi!StopUdpServers

\* A stamp that ages stays a stamp.
LEMMA Aging ==
    ASSUME Wifi!LinkTimeAssumption, NEW s \in Wifi!Stamp
    PROVE  Wifi!Older(s) \in Wifi!Stamp /\ (s # Wifi!NONE => Wifi!Older(s) \in 0 .. WifiAgeMax)
<1>1. WifiAgeMax \in Nat
  BY DEF Wifi!LinkTimeAssumption
<1>2. QED
  BY <1>1 DEF Wifi!Older, Wifi!Stamp, Wifi!NONE

\* A check that finds the link up: the attempt, if there was one, succeeded.
LEMMA LinkUpKeeps ==
    ASSUME Wifi!NetworkAssumption, Wifi!LinkTimeAssumption, WifiInv, checkAge' = 0, Wifi!LinkUp
    PROVE  WifiInv'
<1> USE DEF WifiInv
<1>1. WifiAgeMax \in Nat /\ MAX_RECONNECT_ATTEMPTS \in Nat \ {0}
      /\ Cardinality(Configured) \in Nat
  BY ConfiguredFinite DEF Wifi!LinkTimeAssumption
<1>2. /\ radio # Wifi!NONE /\ cachedWifiConnected' = TRUE
      /\ currentNetworkIndex' = Wifi!Attributed
      /\ attempt' = Wifi!NoAttempt /\ cycle' = Wifi!NoCycle /\ order' = << >>
      /\ reconnectInProgress' = FALSE /\ reconnectAttemptCount' = 0
      /\ disconnectAge' = Wifi!NONE
      /\ target' = target /\ radio' = radio /\ up' = up
  BY DEF Wifi!LinkUp, Wifi!air
<1>3. /\ sockets' = IF linkUdp' THEN Wifi!Socket ELSE {}
      /\ linkUdp' \in BOOLEAN
      /\ connectedAge' \in Wifi!Stamp /\ udpStartAge' \in Wifi!Stamp
      /\ faults' \in 0 .. MaxFaults
  <2> DEFINE held == IF connectedAge = Wifi!NONE THEN 0 ELSE connectedAge
  <2>1. held \in 0 .. WifiAgeMax
    BY <1>1 DEF Wifi!TypeOK, Wifi!Stamp
  <2>2. held \in Wifi!Stamp
    BY <2>1 DEF Wifi!Stamp
  <2>3. Wifi!EnsureUdpServersStarted(held)
    BY DEF Wifi!LinkUp
  <2> HIDE DEF held
  <2>4. QED
    BY <2>1, <2>2, <2>3, ServersPaired
<1>4. currentNetworkIndex' = target /\ target # Wifi!NONE
  BY <1>2 DEF Wifi!Attributed, OnTarget
<1>5. Wifi!TypeOK'
  <2>1. attempt' \in [active : BOOLEAN, age : 0 .. WifiAgeMax, index : {Wifi!NONE} \cup Wifi!Index]
    BY <1>1, <1>2 DEF Wifi!NoAttempt
  <2>2. cycle' \in [start : {Wifi!NONE} \cup Wifi!Index, tried : 0 .. Cardinality(Configured)]
    BY <1>1, <1>2 DEF Wifi!NoCycle
  <2>3. currentNetworkIndex' \in {Wifi!NONE} \cup Wifi!Index
    BY <1>4 DEF Wifi!TypeOK, Wifi!NetworkAssumption, Wifi!Index
  <2>4. checkAge' \in 0 .. WifiAgeMax
        /\ reconnectAttemptCount' \in 0 .. MAX_RECONNECT_ATTEMPTS - 1
    BY <1>1, <1>2
  <2>5. {disconnectAge', connectedAge', udpStartAge'} \subseteq Wifi!Stamp
    BY <1>2, <1>3 DEF Wifi!Stamp
  <2>6. order' \in Seq(Configured) /\ sockets' \subseteq Wifi!Socket
    BY <1>2, <1>3
  <2>7. /\ target' \in {Wifi!NONE} \cup Configured /\ radio' \in {Wifi!NONE} \cup Configured
        /\ up' \subseteq Configured
    BY <1>2 DEF Wifi!TypeOK
  <2>8. QED
    BY OneCardinality, <1>2, <1>3, <2>1, <2>2, <2>3, <2>4, <2>5, <2>6, <2>7 DEF Wifi!TypeOK
<1>6. Wifi!NoHalfOpenSockets'
  BY <1>2, <1>3 DEF Wifi!NoHalfOpenSockets
<1>7. ~attempt'.active
  BY <1>2 DEF Wifi!NoAttempt
<1>8. OnTarget'
  BY <1>2, <1>4, <1>7 DEF OnTarget
<1>9. ScanUnderWay' /\ Sweeps'
  BY <1>2, <1>7 DEF ScanUnderWay, Sweeps
<1>10. QED
  BY <1>5, <1>6, <1>7, <1>8, <1>9

\* A check that finds the link down closes the sockets, whatever it then does
\* about the scan.
LEMMA LinkDownKeeps ==
    ASSUME Wifi!NetworkAssumption, Wifi!LinkTimeAssumption, WifiInv, checkAge' = 0, Wifi!LinkDown
    PROVE  WifiInv'
<1> USE DEF WifiInv
<1>1. /\ WifiAgeMax \in Nat /\ MAX_RECONNECT_ATTEMPTS \in Nat \ {0}
      /\ Cardinality(Configured) \in Nat
      /\ Wifi!NONE \notin Configured /\ Configured \subseteq Wifi!Index
  BY ConfiguredFinite DEF Wifi!LinkTimeAssumption, Wifi!NetworkAssumption, Wifi!Index
<1>2. /\ radio = Wifi!NONE /\ cachedWifiConnected' = FALSE
      /\ linkUdp' = FALSE /\ sockets' = {}
      /\ connectedAge' = Wifi!NONE /\ udpStartAge' = Wifi!NONE
      /\ up' = up /\ faults' = faults
  BY DEF Wifi!LinkDown, Wifi!StopUdpServers
<1>3. SUFFICES /\ currentNetworkIndex' \in {Wifi!NONE} \cup Wifi!Index
               /\ attempt' \in [active : BOOLEAN, age : 0 .. WifiAgeMax,
                                index : {Wifi!NONE} \cup Wifi!Index]
               /\ cycle' \in [start : {Wifi!NONE} \cup Wifi!Index,
                              tried : 0 .. Cardinality(Configured)]
               /\ reconnectInProgress' \in BOOLEAN
               /\ reconnectAttemptCount' \in 0 .. MAX_RECONNECT_ATTEMPTS - 1
               /\ disconnectAge' \in Wifi!Stamp
               /\ target' \in {Wifi!NONE} \cup Configured /\ radio' = Wifi!NONE
               /\ order' \in Seq(Configured)
               /\ OnTarget' /\ ScanUnderWay' /\ Sweeps'
  <2>1. checkAge' \in 0 .. WifiAgeMax /\ up' \subseteq Configured
        /\ faults' \in 0 .. MaxFaults
    BY <1>1, <1>2 DEF Wifi!TypeOK
  <2>2. {connectedAge', udpStartAge'} \subseteq Wifi!Stamp
    BY <1>2 DEF Wifi!Stamp
  <2>3. Wifi!NoHalfOpenSockets'
    BY <1>2 DEF Wifi!NoHalfOpenSockets
  <2>4. QED
    BY OneCardinality, <1>2, <1>3, <2>1, <2>2, <2>3 DEF Wifi!TypeOK
<1>4. Wifi!DownFor \in 0 .. WifiAgeMax /\ Wifi!DownFor \in Wifi!Stamp /\ 0 \in Wifi!Stamp
  BY <1>1 DEF Wifi!DownFor, Wifi!TypeOK, Wifi!Stamp
<1>5. ASSUME disconnectAge' = Wifi!DownFor,
             UNCHANGED <<currentNetworkIndex, attempt, cycle,
                         reconnectInProgress, reconnectAttemptCount, order,
                         target, radio>>
      PROVE  /\ currentNetworkIndex' \in {Wifi!NONE} \cup Wifi!Index
             /\ attempt' \in [active : BOOLEAN, age : 0 .. WifiAgeMax,
                              index : {Wifi!NONE} \cup Wifi!Index]
             /\ cycle' \in [start : {Wifi!NONE} \cup Wifi!Index,
                            tried : 0 .. Cardinality(Configured)]
             /\ reconnectInProgress' \in BOOLEAN
             /\ reconnectAttemptCount' \in 0 .. MAX_RECONNECT_ATTEMPTS - 1
             /\ disconnectAge' \in Wifi!Stamp
             /\ target' \in {Wifi!NONE} \cup Configured /\ radio' = Wifi!NONE
             /\ order' \in Seq(Configured)
             /\ OnTarget' /\ ScanUnderWay' /\ Sweeps'
  <2>1. ScanUnderWay' /\ Sweeps'
    BY <1>5, ScanKept
  <2>2. OnTarget'
    BY <1>5 DEF OnTarget
  <2>3. QED
    BY OneCardinality, <1>2, <1>4, <1>5, <2>1, <2>2 DEF Wifi!TypeOK
<1>6. CASE Wifi!AttemptPending
  BY <1>5, <1>6 DEF Wifi!AttemptPending
<1>7. CASE Wifi!AwaitReconnectDelay
  BY <1>5, <1>7 DEF Wifi!AwaitReconnectDelay
<1>8. ASSUME Wifi!FinishWifiReconnectCycle
      PROVE  /\ attempt' \in [active : BOOLEAN, age : 0 .. WifiAgeMax,
                              index : {Wifi!NONE} \cup Wifi!Index]
             /\ cycle' \in [start : {Wifi!NONE} \cup Wifi!Index,
                            tried : 0 .. Cardinality(Configured)]
             /\ reconnectInProgress' \in BOOLEAN
             /\ reconnectAttemptCount' \in 0 .. MAX_RECONNECT_ATTEMPTS - 1
             /\ disconnectAge' \in Wifi!Stamp /\ order' \in Seq(Configured)
             /\ ~attempt'.active /\ ScanUnderWay' /\ Sweeps'
  <2>1. /\ attempt' = Wifi!NoAttempt /\ cycle' = Wifi!NoCycle /\ disconnectAge' = 0
        /\ reconnectInProgress' = FALSE /\ order' = order
        /\ reconnectAttemptCount' = Wifi!CyclesFailed
    BY <1>8 DEF Wifi!FinishWifiReconnectCycle
  <2>2. attempt' \in [active : BOOLEAN, age : 0 .. WifiAgeMax, index : {Wifi!NONE} \cup Wifi!Index]
        /\ ~attempt'.active
    BY <1>1, <2>1 DEF Wifi!NoAttempt
  <2>3. cycle' \in [start : {Wifi!NONE} \cup Wifi!Index, tried : 0 .. Cardinality(Configured)]
    BY <1>1, <2>1 DEF Wifi!NoCycle
  <2>4. Wifi!CyclesFailed \in 0 .. MAX_RECONNECT_ATTEMPTS - 1
    BY <1>1 DEF Wifi!CyclesFailed, Wifi!TypeOK
  <2>5. order' \in Seq(Configured) /\ disconnectAge' \in Wifi!Stamp
    BY <1>4, <2>1 DEF Wifi!TypeOK
  <2>6. ScanUnderWay' /\ Sweeps'
    BY <2>1, <2>2 DEF ScanUnderWay, Sweeps
  <2>7. QED
    BY <2>1, <2>2, <2>3, <2>4, <2>5, <2>6
<1>9. ASSUME NEW index \in Configured, NEW start \in Configured, NEW tried,
             tried \in 0 .. Cardinality(Configured),
             Wifi!StartWifiAttempt(index, start, tried), disconnectAge' = Wifi!DownFor
      PROVE  /\ attempt' \in [active : BOOLEAN, age : 0 .. WifiAgeMax,
                              index : {Wifi!NONE} \cup Wifi!Index]
             /\ cycle' \in [start : {Wifi!NONE} \cup Wifi!Index,
                            tried : 0 .. Cardinality(Configured)]
             /\ reconnectInProgress' \in BOOLEAN
             /\ reconnectAttemptCount' \in 0 .. MAX_RECONNECT_ATTEMPTS - 1
             /\ disconnectAge' \in Wifi!Stamp
             /\ target' \in {Wifi!NONE} \cup Configured /\ radio' = Wifi!NONE
             /\ OnTarget'
  <2>1. /\ attempt' = [active |-> TRUE, age |-> 0, index |-> index]
        /\ cycle' = [start |-> start, tried |-> tried]
        /\ reconnectInProgress' = TRUE /\ target' = index /\ radio' = Wifi!NONE
        /\ reconnectAttemptCount' = reconnectAttemptCount
    BY <1>9 DEF Wifi!StartWifiAttempt
  <2>2. attempt' \in [active : BOOLEAN, age : 0 .. WifiAgeMax, index : {Wifi!NONE} \cup Wifi!Index]
    BY <1>1, <2>1
  <2>3. cycle' \in [start : {Wifi!NONE} \cup Wifi!Index, tried : 0 .. Cardinality(Configured)]
    BY <1>1, <1>9, <2>1
  <2>4. OnTarget'
    BY <2>1 DEF OnTarget
  <2>5. QED
    BY <1>4, <1>9, <2>1, <2>2, <2>3, <2>4 DEF Wifi!TypeOK
<1>10. CASE Wifi!AttemptTimedOut
  <2>1. currentNetworkIndex' \in {Wifi!NONE} \cup Wifi!Index
    BY <1>10 DEF Wifi!AttemptTimedOut, Wifi!TypeOK
  <2>2. CASE Wifi!MoreToTry(cycle.tried + 1)
    <3> DEFINE index == Wifi!NextIndex(cycle.tried + 1, attempt.index, cycle.start)
    <3>1. /\ attempt.active /\ disconnectAge' = Wifi!DownFor
          /\ Wifi!StartWifiAttempt(index, cycle.start, cycle.tried + 1)
      BY <1>10, <2>2 DEF Wifi!AttemptTimedOut
    <3>2. ScanUnderWay' /\ Sweeps' /\ order' \in Seq(Configured)
          /\ attempt'.index \in Configured
      BY <2>2, <3>1, CycleMovesOn
    <3> HIDE DEF index
    <3>3. index \in Configured
      BY <3>1, <3>2 DEF Wifi!StartWifiAttempt
    <3>4. cycle.start \in Configured
      BY <3>1 DEF ScanUnderWay
    <3>5. cycle.tried + 1 \in 0 .. Cardinality(Configured)
      BY <1>1, <3>1 DEF ScanUnderWay, Wifi!TypeOK
    <3>6. QED
      BY <1>9, <2>1, <3>1, <3>2, <3>3, <3>4, <3>5
  <2>3. CASE ~Wifi!MoreToTry(cycle.tried + 1)
    <3>1. Wifi!FinishWifiReconnectCycle /\ target' = Wifi!NONE /\ radio' = Wifi!NONE
      BY <1>10, <2>3 DEF Wifi!AttemptTimedOut
    <3>2. OnTarget'
      BY <1>8, <3>1 DEF OnTarget
    <3>3. QED
      BY <1>8, <2>1, <3>1, <3>2
  <2>4. QED
    BY <2>2, <2>3
<1>11. CASE Wifi!BeginWifiReconnectCycle
  <2>1. ~attempt.active
    BY <1>11 DEF Wifi!BeginWifiReconnectCycle
  <2>2. CASE Wifi!MoreToTry(0)
    <3>1. Configured # {}
      BY OneCardinality, <1>1, <2>2, ConfiguredFinite DEF Wifi!MoreToTry
    <3>2. Wifi!CycleStart \in Configured
      BY <3>1, FirstConfigured DEF Wifi!CycleStart
    <3>3. /\ Wifi!StartWifiAttempt(Wifi!CycleStart, Wifi!CycleStart, 0)
          /\ disconnectAge' = Wifi!DownFor
          /\ currentNetworkIndex' = currentNetworkIndex
      BY <1>11, <2>2 DEF Wifi!BeginWifiReconnectCycle
    <3>4. ScanUnderWay' /\ Sweeps' /\ order' \in Seq(Configured)
      BY <3>2, <3>3, CycleBegins
    <3>5. 0 \in 0 .. Cardinality(Configured)
      BY <1>1
    <3>6. currentNetworkIndex' \in {Wifi!NONE} \cup Wifi!Index
      BY <3>3 DEF Wifi!TypeOK
    <3>7. QED
      BY <1>9, <3>2, <3>3, <3>4, <3>5, <3>6
  <2>3. CASE ~Wifi!MoreToTry(0)
    <3>1. Configured = {}
      BY OneCardinality, <1>1, <2>3, ConfiguredFinite DEF Wifi!MoreToTry
    <3>2. /\ Wifi!FinishWifiReconnectCycle /\ currentNetworkIndex' = Wifi!NONE
          /\ target' = target /\ radio' = radio
      BY <1>11, <2>3 DEF Wifi!BeginWifiReconnectCycle
    <3>3. target' = Wifi!NONE /\ radio' = Wifi!NONE
      BY <1>2, <3>1, <3>2 DEF Wifi!TypeOK
    <3>4. OnTarget'
      BY <1>8, <3>2, <3>3 DEF OnTarget
    <3>5. QED
      BY <1>8, <3>2, <3>3, <3>4
  <2>4. QED
    BY <2>2, <2>3
<1>12. QED
  BY <1>6, <1>7, <1>10, <1>11 DEF Wifi!LinkDown

\* The environment moves the radio to the network it was told to join, or off
\* the air, and lets time pass.
LEMMA EnvironmentKeeps ==
    ASSUME Wifi!NetworkAssumption, Wifi!LinkTimeAssumption, WifiInv, Wifi!Environment
    PROVE  WifiInv'
<1> USE DEF WifiInv
<1>1. WifiAgeMax \in Nat /\ MaxFaults \in Nat
  BY DEF Wifi!LinkTimeAssumption
<1>2. CASE Wifi!Elapse
  <2>1. /\ checkAge' = Wifi!Older(checkAge) /\ disconnectAge' = Wifi!Older(disconnectAge)
        /\ connectedAge' = Wifi!Older(connectedAge) /\ udpStartAge' = Wifi!Older(udpStartAge)
        /\ attempt' = IF attempt.active
                      THEN [attempt EXCEPT !.age = Wifi!Older(@)] ELSE attempt
        /\ UNCHANGED <<cachedWifiConnected, currentNetworkIndex, cycle,
                       reconnectInProgress, reconnectAttemptCount, order,
                       linkUdp, sockets, target, radio, up, faults>>
    BY <1>2 DEF Wifi!Elapse, Wifi!air
  <2>2. /\ checkAge \in Wifi!Stamp /\ checkAge # Wifi!NONE
        /\ attempt.age \in Wifi!Stamp /\ attempt.age # Wifi!NONE
        /\ disconnectAge \in Wifi!Stamp /\ connectedAge \in Wifi!Stamp /\ udpStartAge \in Wifi!Stamp
    BY DEF Wifi!TypeOK, Wifi!Stamp, Wifi!NONE
  <2>3. /\ checkAge' \in 0 .. WifiAgeMax /\ Wifi!Older(attempt.age) \in 0 .. WifiAgeMax
        /\ {disconnectAge', connectedAge', udpStartAge'} \subseteq Wifi!Stamp
    BY <2>1, <2>2, Aging
  <2>4. /\ attempt' \in [active : BOOLEAN, age : 0 .. WifiAgeMax,
                         index : {Wifi!NONE} \cup Wifi!Index]
        /\ attempt'.active = attempt.active /\ attempt'.index = attempt.index
    BY <2>1, <2>3 DEF Wifi!TypeOK
  <2>5. Wifi!TypeOK'
    BY <2>1, <2>3, <2>4 DEF Wifi!TypeOK
  <2>6. ScanUnderWay' /\ Sweeps'
    BY <2>1, <2>4, ScanKept
  <2>7. OnTarget' /\ Wifi!NoHalfOpenSockets'
    BY <2>1, <2>4 DEF OnTarget, Wifi!NoHalfOpenSockets
  <2>8. QED
    BY <2>1, <2>4, <2>5, <2>6, <2>7
<1>3. ASSUME UNCHANGED <<checkAge, cachedWifiConnected, currentNetworkIndex,
                         attempt, cycle, reconnectInProgress,
                         reconnectAttemptCount, disconnectAge, order,
                         connectedAge, udpStartAge, linkUdp, sockets,
                         target>>,
             radio' \in {Wifi!NONE} \cup {target}, up' \subseteq Configured,
             faults' \in 0 .. MaxFaults
      PROVE  WifiInv'
  <2>1. Wifi!TypeOK'
    BY <1>3 DEF Wifi!TypeOK
  <2>2. ScanUnderWay' /\ Sweeps'
    BY <1>3, ScanKept
  <2>3. OnTarget' /\ Wifi!NoHalfOpenSockets'
    BY <1>3 DEF OnTarget, Wifi!NoHalfOpenSockets
  <2>4. QED
    BY <1>3, <2>1, <2>2, <2>3
<1>4. CASE Wifi!Associate
  BY <1>3, <1>4 DEF Wifi!Associate, Wifi!scan, Wifi!servers, Wifi!TypeOK
<1>5. CASE Wifi!LinkDrops
  <2>1. faults' \in 0 .. MaxFaults
    BY <1>1, <1>5 DEF Wifi!LinkDrops, Wifi!TypeOK
  <2>2. QED
    BY <1>3, <1>5, <2>1 DEF Wifi!LinkDrops, Wifi!scan, Wifi!servers, Wifi!TypeOK
<1>6. CASE Wifi!NetworksChange
  <2>1. faults' \in 0 .. MaxFaults
    BY <1>1, <1>6 DEF Wifi!NetworksChange, Wifi!TypeOK
  <2>2. radio' \in {Wifi!NONE} \cup {target}
    BY <1>6 DEF Wifi!NetworksChange, OnTarget
  <2>3. QED
    BY <1>3, <1>6, <2>1, <2>2 DEF Wifi!NetworksChange, Wifi!scan, Wifi!servers, Wifi!TypeOK
<1>7. QED
  BY <1>2, <1>4, <1>5, <1>6 DEF Wifi!Environment

\* A failed send closes both sockets.
LEMMA SendFailsKeeps ==
    ASSUME Wifi!NetworkAssumption, Wifi!LinkTimeAssumption, WifiInv, Wifi!SendFails
    PROVE  WifiInv'
<1> USE DEF WifiInv
<1>1. /\ faults < MaxFaults /\ faults' = faults + 1
      /\ linkUdp' = FALSE /\ sockets' = {} /\ udpStartAge' = Wifi!NONE
      /\ UNCHANGED <<checkAge, cachedWifiConnected, currentNetworkIndex, attempt,
                     cycle, reconnectInProgress, reconnectAttemptCount,
                     disconnectAge, order, connectedAge, target, radio, up>>
  BY DEF Wifi!SendFails, Wifi!StopUdpServers, Wifi!scan, Wifi!air
<1>2. faults' \in 0 .. MaxFaults
  BY <1>1 DEF Wifi!TypeOK, Wifi!LinkTimeAssumption
<1>3. Wifi!TypeOK'
  <2>1. {disconnectAge', connectedAge', udpStartAge'} \subseteq Wifi!Stamp
    BY <1>1 DEF Wifi!TypeOK, Wifi!Stamp
  <2>2. QED
    BY <1>1, <1>2, <2>1 DEF Wifi!TypeOK
<1>4. ScanUnderWay' /\ Sweeps'
  BY <1>1, ScanKept
<1>5. OnTarget' /\ Wifi!NoHalfOpenSockets'
  BY <1>1 DEF OnTarget, Wifi!NoHalfOpenSockets
<1>6. QED
  BY <1>1, <1>3, <1>4, <1>5

\* Every step keeps the invariant.
LEMMA WifiInvStep ==
    ASSUME Wifi!NetworkAssumption, Wifi!LinkTimeAssumption, WifiInv, [Wifi!Next]_Wifi!vars
    PROVE  WifiInv'
<1>1. CASE Wifi!CheckWiFiStatus
  BY <1>1, LinkUpKeeps, LinkDownKeeps DEF Wifi!CheckWiFiStatus
<1>2. CASE Wifi!SendFails
  BY <1>2, SendFailsKeeps
<1>3. CASE Wifi!Environment
  BY <1>3, EnvironmentKeeps
<1>4. CASE UNCHANGED Wifi!vars
  BY <1>4 DEF Wifi!vars, WifiInv, Wifi!TypeOK, Wifi!NoHalfOpenSockets, OnTarget, ScanUnderWay,
              Sweeps, Offset
<1>5. QED
  BY <1>1, <1>2, <1>3, <1>4 DEF Wifi!Next

-----------------------------------------------------------------------------
(* The theorems. *)

\* The inductive invariant of the WiFi state machine: types, paired sockets,
\* the radio on the network last asked for, and a scan that has left nothing
\* out behind the network it is trying.
THEOREM WifiInvariant ==
    ASSUME Wifi!NetworkAssumption, Wifi!LinkTimeAssumption
    PROVE  Wifi!Spec => []WifiInv
<1>1. Wifi!Init => WifiInv
  BY WifiInvInit
<1>2. WifiInv /\ [Wifi!Next]_Wifi!vars => WifiInv'
  BY WifiInvStep
<1>3. QED
  BY <1>1, <1>2, PTL DEF Wifi!Spec

\* Every variable of checkWiFiStatus keeps its type: no index leaves the table,
\* no count of tried networks passes the number of configured ones.
THEOREM WifiTypeCorrect ==
    ASSUME Wifi!NetworkAssumption, Wifi!LinkTimeAssumption
    PROVE  Wifi!Spec => []Wifi!TypeOK
<1>1. WifiInv => Wifi!TypeOK
  BY DEF WifiInv
<1>2. QED
  BY <1>1, WifiInvariant, PTL

\* The two UDP sockets are open together or not at all, as the flag says, and
\* only while the last check saw the link up, whatever begin() and the sends do.
THEOREM SocketsNeverHalfOpen ==
    ASSUME Wifi!NetworkAssumption, Wifi!LinkTimeAssumption
    PROVE  Wifi!Spec => []NoHalfOpenSockets
<1>1. WifiInv => NoHalfOpenSockets
  BY DEF WifiInv, NoHalfOpenSockets
<1>2. QED
  BY <1>1, WifiInvariant, PTL

\* With the sockets up, currentNetworkIndex is the network the radio is on, so
\* the next scan starts there.
THEOREM KnowsItsNetworkAlways ==
    ASSUME Wifi!NetworkAssumption, Wifi!LinkTimeAssumption
    PROVE  Wifi!Spec => []KnowsItsNetwork
<1>1. WifiInv => KnowsItsNetwork
  BY DEF WifiInv, KnowsItsNetwork, Wifi!KnowsItsNetwork, OnTarget
<1>2. QED
  BY <1>1, WifiInvariant, PTL

\* A scan that gives up has tried every configured network exactly once,
\* for every table and wherever in it the scan started.
THEOREM ScanIsCompleteAlways ==
    ASSUME Wifi!NetworkAssumption, Wifi!LinkTimeAssumption
    PROVE  Wifi!Spec => ScanIsComplete
<1> DEFINE Complete ==
             reconnectInProgress /\ ~reconnectInProgress' /\ ~cachedWifiConnected'
               => /\ {order[i] : i \in DOMAIN order} = Configured
                  /\ Len(order) = Wifi!Cardinality(Configured)
<1>1. WifiInv /\ [Wifi!Next]_Wifi!vars => [Complete]_Wifi!vars
  <2>1. SUFFICES ASSUME WifiInv, Wifi!Next, reconnectInProgress, ~reconnectInProgress',
                        ~cachedWifiConnected'
                 PROVE  /\ {order[i] : i \in DOMAIN order} = Configured
                        /\ Len(order) = Wifi!Cardinality(Configured)
    OBVIOUS
  <2>2. attempt.active
    BY <2>1 DEF WifiInv, ScanUnderWay
  <2>3. Wifi!AttemptTimedOut
    <3>1. Wifi!LinkDown
      BY <2>1 DEF Wifi!Next, Wifi!CheckWiFiStatus, Wifi!LinkUp, Wifi!SendFails,
                  Wifi!Environment, Wifi!Elapse,
                  Wifi!Associate, Wifi!LinkDrops, Wifi!NetworksChange, Wifi!scan
    <3>2. QED
      BY <2>1, <2>2, <3>1 DEF Wifi!LinkDown, Wifi!AttemptPending, Wifi!AwaitReconnectDelay,
                              Wifi!BeginWifiReconnectCycle
  <2>4. ~Wifi!MoreToTry(cycle.tried + 1)
    BY <2>1, <2>3 DEF Wifi!AttemptTimedOut, Wifi!StartWifiAttempt
  <2>5. QED
    BY <2>1, <2>2, <2>4, ScanEnds, OneCardinality DEF WifiInv
<1>2. QED
  BY <1>1, WifiInvariant, PTL DEF Wifi!Spec, ScanIsComplete, Wifi!ScanIsComplete

\* Whichever part a behavior explores, the variables of both keep their types.
THEOREM FirmwareTypesCorrect == MCSpec => []TypesOK
<1> DEFINE Inv == TypeOK /\ WifiInv
<1> USE WifiConstants
<1>1. MCInit => Inv
  BY TypesAtStart, WifiInvInit DEF MCInit
<1>2. ASSUME Inv, [MCNext]_<<part, vars, wifiVars, rcVars>> PROVE Inv'
  <2>1. [Next]_vars /\ [Wifi!Next]_Wifi!vars
    BY <1>2 DEF MCNext, wifiVars, Wifi!vars
  <2>2. QED
    BY <1>2, <2>1, TypesStep, WifiInvStep
<1>3. Inv => TypesOK
  BY DEF WifiInv, TypesOK
<1>4. QED
  BY <1>1, <1>2, <1>3, PTL DEF MCSpec
=============================================================================
