------------------------- MODULE KerbecsRuntimeProofs -------------------------
(***************************************************************************)
(* What init, teardown and the drain thread guarantee for every number of  *)
(* threads, regions and blocks and every number of restarts, of a program  *)
(* that destroys its regions before it tears the runtime down (README.md:  *)
(* 82-94): Spared is empty.                                                *)
(***************************************************************************)
EXTENDS KerbecsRuntime, TLAPS

Documented == Spared = {}

Critical == {"allocate", "publish", "start"}

Draining == drain \in {"loop", "tick", "flush"}

\* The zones, the ring and the table are there.
Standing == initialized /\ zone = mapped /\ zone # 0 /\ slots /\ table

\* Nothing is there.
Down ==
  /\ ~ initialized /\ zone = 0 /\ mapped = 0
  /\ ~ slots /\ ~ table /\ records = <<>>
  /\ ~ drainRunning /\ drain = "none"

\* Nothing but what init has made so far is there.
Rising(filled) ==
  /\ zone = mapped /\ zone # 0 /\ slots = filled /\ table = filled
  /\ records = <<>> /\ ~ drainRunning /\ drain = "none"

\* The drain thread is joined.
Joined == ~ drainRunning /\ drain = "none"

\* What is there at each point of init and of teardown, and between the calls.
PhaseInv ==
  /\ \A t \in Threads : initMutex = t <=> pc[t] \in Critical
  /\ initMutex = Null /\ (\A t \in Threads : pc[t] \notin TearPoints) =>
       (Standing /\ ~ shutdown /\ drainRunning /\ Draining) \/ Down
  /\ \A t \in Threads :
       /\ pc[t] = "allocate" => ~ initialized /\ Rising(FALSE)
       /\ pc[t] = "publish" => ~ initialized /\ Rising(TRUE)
       /\ pc[t] = "start" => initialized /\ ~ shutdown /\ Rising(TRUE)
       /\ pc[t] \in TearPoints =>
            /\ shutdown
            /\ \A u \in Threads \ {t} : pc[u] = "idle"
            /\ \A r \in Regions : region[r] = "none"
       /\ pc[t] = "stop" => (Standing /\ drainRunning /\ Draining) \/ Down
       /\ pc[t] = "join" => (Standing /\ ~ drainRunning /\ drain # "none") \/ Down
       /\ pc[t] \in {"flush", "queueDown"} => Joined /\ (Standing \/ Down)
       /\ pc[t] = "tableDown" => Joined /\ ~ slots
       /\ pc[t] = "release" => Joined /\ ~ slots /\ ~ table /\ records = <<>>
       /\ pc[t] = "clear" =>
            Joined /\ ~ slots /\ ~ table /\ records = <<>> /\ mapped = 0

\* Constructors and destructors: what they have done so far, and that no two run
\* on one region.
CallsInv ==
  \A t \in Threads :
    /\ arg[t] # Null =>
         /\ \/ region[arg[t]] = "constructing" /\ pc[t] \in InitPoints
            \/ region[arg[t]] = "destroying" /\ pc[t] \in LeavePoints
         /\ \A u \in Threads : arg[u] = arg[t] => u = t
    /\ pc[t] \in LeavePoints => arg[t] # Null
    /\ pc[t] \in {"carve", "register"} => arg[t] # Null /\ initialized /\ initMutex = Null
    /\ pc[t] = "register" => area[arg[t]].zone = mapped

\* A region that is up has its record, and its maps are in the mapped zones.
RegionsInv ==
  \A r \in Regions : region[r] = "up" =>
    /\ initialized /\ initMutex = Null /\ area[r].zone = mapped
    /\ \E i \in DOMAIN records : records[i].region = r /\ records[i].area = area[r]

\* The records are of this life of the runtime, and those of a region have a
\* first one.
RecordsInv ==
  /\ \A i \in DOMAIN records : records[i].area.zone = mapped
  /\ \A i \in DOMAIN records :
       \E k \in DOMAIN records :
         /\ records[k].region = records[i].region
         /\ \A j \in DOMAIN records : records[j].region = records[i].region => k <= j
  /\ records # <<>> => mapped # 0

\* Objects live in regions that are up; the ring has every retired block once;
\* and as long as it has one, a region is left to release it: a destructor that
\* stops at a claimed slot leaves the region of that slot behind.
RingInv ==
  /\ \A b \in Blocks : block[b] = "held" => region[RegionOf[b]] = "up"
  /\ \A b \in Blocks :
       block[b] = "retired" <=> \E i \in DOMAIN queue : queue[i].block = b
  /\ \A i, j \in DOMAIN queue : queue[i].block = queue[j].block => i = j
  /\ \A i \in DOMAIN queue :
       queue[i].writer # Null => region[RegionOf[queue[i].block]] = "up"
  /\ queue # <<>> => slots /\ \E r \in Regions : region[r] \in {"up", "destroying"}

IInv ==
  /\ Documented /\ TypeOK
  /\ PhaseInv /\ CallsInv /\ RegionsInv /\ RecordsInv /\ RingInv

-----------------------------------------------------------------------------
LEMMA Bounds ==
  0 \in 0 .. MappingBound /\ 0 \in 0 .. ZoneAreas /\ MappingBound \in Nat /\ ZoneAreas \in Nat
    /\ TableCapacity \in Nat
<1>1. MappingBound \in Nat /\ ZoneAreas \in Nat /\ TableCapacity \in Nat
  BY BoundsAssumption
<1>2. QED
  BY <1>1

LEMMA NoRecords ==
  /\ <<>> \in Seq([region : Regions, area : Area]) /\ Len(<<>>) = 0
  /\ DOMAIN <<>> = {}
  OBVIOUS

\* TypeOK in five parts.
ZonesType == {zone, mapped, mappings} \subseteq 0 .. MappingBound /\ carved \in 0 .. ZoneAreas
FlagsType == {slots, table, initialized, shutdown, drainRunning, exited, fault} \subseteq BOOLEAN
RecordsType ==
  records \in Seq([region : Regions, area : Area]) /\ Len(records) <= TableCapacity
ControlType ==
  /\ drain \in {"none", "loop", "tick", "flush", "exit"}
  /\ initMutex \in Threads \union {Null}
  /\ region \in [Regions -> {"none", "constructing", "up", "failed", "destroying"}]
  /\ area   \in [Regions -> Area]
  /\ pc  \in [Threads -> {"idle", "enqueue"} \union InitPoints \union LeavePoints
                           \union TearPoints]
  /\ arg \in [Threads -> Regions \union {Null}]
RingType == block \in [Blocks -> {"free", "held", "retired"}] /\ queue \in Seq(Slot)

LEMMA TypeParts ==
  TypeOK <=> ZonesType /\ FlagsType /\ RecordsType /\ ControlType /\ RingType
  BY DEF TypeOK, ZonesType, FlagsType, RecordsType, ControlType, RingType

LEMMA TypePartsAfter ==
  TypeOK' <=> ZonesType' /\ FlagsType' /\ RecordsType' /\ ControlType' /\ RingType'
  BY DEF TypeOK, ZonesType, FlagsType, RecordsType, ControlType, RingType

\* The slots of a ring that has lost its first one, and of one that has a new one.
LEMMA TailSlots ==
  ASSUME NEW S, NEW s \in Seq(S), s # <<>>
  PROVE  /\ Tail(s) \in Seq(S) /\ 1 \in DOMAIN s /\ Head(s) = s[1] /\ s[1] \in S
         /\ DOMAIN Tail(s) = 1 .. Len(s) - 1 /\ DOMAIN s = 1 .. Len(s) /\ Len(s) \in Nat
         /\ \A i \in DOMAIN Tail(s) : Tail(s)[i] = s[i + 1] /\ i + 1 \in DOMAIN s
         /\ \A i \in DOMAIN s : i # 1 => i - 1 \in DOMAIN Tail(s)
  OBVIOUS

LEMMA AppendSlot ==
  ASSUME NEW S, NEW s \in Seq(S), NEW e \in S
  PROVE  /\ Append(s, e) \in Seq(S) /\ Append(s, e) # <<>>
         /\ DOMAIN Append(s, e) = DOMAIN s \union {Len(s) + 1}
         /\ Len(s) + 1 \notin DOMAIN s /\ Append(s, e)[Len(s) + 1] = e
         /\ \A i \in DOMAIN s : Append(s, e)[i] = s[i] /\ i <= Len(s) + 1
  OBVIOUS

\* What is left when init() has failed.
LEMMA InitFails ==
  ASSUME TypeOK, CallsInv, NEW t \in Threads, pc[t] \in InitPoints, InitReturns(t, FALSE)
  PROVE  /\ pc' = [pc EXCEPT ![t] = "idle"] /\ arg' = [arg EXCEPT ![t] = Null]
         /\ region' \in [Regions -> {"none", "constructing", "up", "failed", "destroying"}]
         /\ \A r \in Regions : r # arg[t] => region'[r] = region[r]
         /\ arg[t] # Null => region'[arg[t]] = "failed"
         /\ \A r \in Regions : region'[r] = "up" <=> region[r] = "up"
         /\ \A r \in Regions : region[r] \in {"up", "destroying"} => region'[r] = region[r]
<1>1. /\ pc' = [pc EXCEPT ![t] = "idle"] /\ arg' = [arg EXCEPT ![t] = Null]
      /\ region' = [r \in Regions |-> IF r = arg[t] THEN "failed" ELSE region[r]]
  BY DEF InitReturns, Goto
<1>2. arg[t] # Null => arg[t] \in Regions /\ region[arg[t]] = "constructing"
  BY DEF TypeOK, CallsInv, InitPoints, LeavePoints
<1>3. region \in [Regions -> {"none", "constructing", "up", "failed", "destroying"}]
  BY DEF TypeOK
<1>4. region' \in [Regions -> {"none", "constructing", "up", "failed", "destroying"}]
  BY <1>1, <1>3
<1>5. \A r \in Regions : region'[r] = "up" <=> region[r] = "up"
  BY <1>1, <1>2, NullAssumption
<1>6. \A r \in Regions : region[r] \in {"up", "destroying"} => region'[r] = region[r]
  BY <1>1, <1>2, NullAssumption
<1>7. QED
  BY <1>1, <1>2, <1>4, <1>5, <1>6

\* What is left when init() has succeeded.
LEMMA InitSucceeds ==
  ASSUME TypeOK, NEW t \in Threads, InitReturns(t, TRUE)
  PROVE  /\ pc' = [pc EXCEPT ![t] = IF arg[t] # Null THEN "carve" ELSE "idle"]
         /\ arg' = arg /\ region' = region
<1>1. region' = [r \in Regions |-> region[r]]
  BY DEF InitReturns
<1>2. QED
  BY <1>1 DEF InitReturns, Goto, TypeOK

\* Whoever is inside the mutex is alone with it, and no teardown goes on.
LEMMA CriticalAlone ==
  ASSUME TypeOK, PhaseInv, NEW t \in Threads, pc[t] \in Critical
  PROVE  /\ initMutex = t
         /\ \A u \in Threads \ {t} : pc[u] \notin Critical
         /\ \A u \in Threads : pc[u] \notin TearPoints
<1>1. initMutex = t /\ \A u \in Threads \ {t} : pc[u] \notin Critical
  BY DEF PhaseInv
<1>2. ASSUME NEW u \in Threads, pc[u] \in TearPoints PROVE FALSE
  BY <1>2 DEF PhaseInv, Critical, TearPoints
<1>3. QED
  BY <1>1, <1>2

\* No region is up while init is inside the mutex or a teardown goes on.
LEMMA NoRegionUp ==
  ASSUME TypeOK, PhaseInv, RegionsInv, NEW t \in Threads, pc[t] \in Critical \union TearPoints
  PROVE  \A r \in Regions : region[r] # "up"
<1>1. CASE pc[t] \in Critical
  BY <1>1, CriticalAlone, NullAssumption DEF RegionsInv
<1>2. CASE pc[t] \in TearPoints
  BY <1>2 DEF PhaseInv
<1>3. QED
  BY <1>1, <1>2

LEMMA SlotBlocks ==
  ASSUME TypeOK, NEW i \in DOMAIN queue
  PROVE  queue[i] \in Slot /\ queue[i].block \in Blocks /\ RegionOf[queue[i].block] \in Regions
<1>1. queue[i] \in Slot
  BY DEF TypeOK
<1>2. QED
  BY <1>1, BlocksAssumption DEF Slot

LEMMA ClaimType ==
  ASSUME TypeOK, NEW t \in Threads, NEW b \in Blocks, Claim(t, b)
  PROVE  RingType' /\ pc' \in [Threads -> {"idle", "enqueue"} \union InitPoints
                                               \union LeavePoints \union TearPoints]
<1>1. [block |-> b, writer |-> t] \in Slot
  BY DEF Slot
<1>2. queue \in Seq(Slot) /\ block \in [Blocks -> {"free", "held", "retired"}]
  BY DEF TypeOK
<1>3. queue' \in Seq(Slot)
  <2>1. CASE slots
    BY <1>1, <1>2, <2>1, AppendSlot DEF Claim
  <2>2. CASE ~ slots
    BY <1>2, <2>2 DEF Claim
  <2>3. QED
    BY <2>1, <2>2
<1>4. RingType'
  BY <1>2, <1>3 DEF Claim, RingType
<1>5. QED
  BY <1>4 DEF TypeOK, Claim, Goto

LEMMA RetireType ==
  ASSUME TypeOK, RetireHead
  PROVE  RingType'
<1>1. queue # <<>>
  BY DEF RetireHead, HeadPublished
<1>2. queue' \in Seq(Slot)
  BY <1>1, TailSlots DEF TypeOK, RetireHead
<1>3. QED
  BY <1>2 DEF TypeOK, RetireHead, RingType

LEMMA PublishType ==
  ASSUME TypeOK, NEW t \in Threads, Enqueued(t)
  PROVE  queue' \in Seq(Slot) /\ DOMAIN queue' = DOMAIN queue /\ Len(queue') = Len(queue)
<1>1. /\ queue' = [i \in DOMAIN queue |->
                     IF queue[i].writer = t THEN [queue[i] EXCEPT !.writer = Null]
                                            ELSE queue[i]]
      /\ queue \in Seq(Slot)
  BY DEF Enqueued, TypeOK
<1>2. ASSUME NEW i \in DOMAIN queue PROVE queue'[i] \in Slot
  BY <1>1, SlotBlocks DEF Slot
<1>3. DOMAIN queue = 1 .. Len(queue) /\ Len(queue) \in Nat
  BY <1>1
<1>4. queue' \in [1 .. Len(queue) -> Slot]
  BY <1>1, <1>2, <1>3
<1>5. queue' \in Seq(Slot)
  BY <1>3, <1>4
<1>6. QED
  BY <1>1, <1>3, <1>4, <1>5

-----------------------------------------------------------------------------
(* Every step keeps every part of the invariant *)

LEMMA TypeStep ==
  ASSUME IInv, [Next]_vars
  PROVE  TypeOK'
<1> USE DEF IInv, TypeOK, Area, InitPoints, LeavePoints, TearPoints, zoneVars,
            memoryVars, flagVars, regionVars, quarantineVars, processVars
<1>1. ASSUME NEW t \in Threads, InitShadowzone(t) PROVE TypeOK'
  BY <1>1 DEF InitShadowzone, Goto, Running, TearingDown
<1>2. ASSUME NEW t \in Threads, AlreadyInitialized(t) PROVE TypeOK'
  BY <1>2 DEF AlreadyInitialized, Goto, InitReturns
<1>3. ASSUME NEW t \in Threads, Reserve(t) PROVE TypeOK'
  <2>1. ZonesType'
    <3>1. /\ zone' = mappings + 1 /\ mapped' = mappings + 1 /\ mappings' = mappings + 1
          /\ carved' = 0 /\ mappings < MappingBound
      BY <1>3 DEF Reserve
    <3>2. mappings \in 0 .. MappingBound
      OBVIOUS
    <3>3. QED
      BY <3>1, <3>2, Bounds DEF ZonesType
  <2>2. FlagsType' /\ RecordsType' /\ ControlType' /\ RingType'
    BY <1>3 DEF Reserve, Goto, FlagsType, RecordsType, ControlType, RingType
  <2>3. QED
    BY <2>1, <2>2, TypePartsAfter
<1>4. ASSUME NEW t \in Threads, ReserveFails(t) PROVE TypeOK'
  BY <1>4 DEF ReserveFails, Goto, InitReturns
<1>5. ASSUME NEW t \in Threads, AllocateTables(t) PROVE TypeOK'
  BY <1>5 DEF AllocateTables, Goto
<1>6. ASSUME NEW t \in Threads, AllocateTablesFails(t) PROVE TypeOK'
  <2>1. ZonesType'
    BY <1>6, Bounds DEF AllocateTablesFails, Unmap, ForgetZones, ZonesType
  <2>2. FlagsType' /\ RingType'
    BY <1>6 DEF AllocateTablesFails, FlagsType, RingType
  <2>3. RecordsType'
    BY <1>6, Bounds, NoRecords DEF AllocateTablesFails, RecordsType
  <2>4. ControlType'
    <3>1. /\ pc' = [pc EXCEPT ![t] = "idle"] /\ arg' = [arg EXCEPT ![t] = Null]
          /\ region' \in [Regions -> {"none", "constructing", "up", "failed", "destroying"}]
      BY <1>6, InitFails DEF AllocateTablesFails
    <3>2. initMutex' = Null /\ UNCHANGED <<drain, area>>
      BY <1>6 DEF AllocateTablesFails
    <3>3. QED
      BY <3>1, <3>2 DEF ControlType
  <2>5. QED
    BY <2>1, <2>2, <2>3, <2>4, TypePartsAfter
<1>7. ASSUME NEW t \in Threads, Publish(t) PROVE TypeOK'
  BY <1>7 DEF Publish, Goto
<1>8. ASSUME NEW t \in Threads, StartDrain(t) PROVE TypeOK'
  BY <1>8 DEF StartDrain, Goto, InitReturns
<1>9. ASSUME NEW t \in Threads, Carve(t) PROVE TypeOK'
  <2>1. ZonesType'
    BY <1>9, Bounds DEF Carve, ZonesType
  <2>2. FlagsType' /\ RingType'
    BY <1>9 DEF Carve, FlagsType, RingType
  <2>3. ControlType'
    <3>1. [zone |-> zone, index |-> carved] \in Area
      BY Bounds
    <3>2. QED
      BY <1>9, <3>1 DEF Carve, Goto, ControlType
  <2>4. RecordsType'
    BY <1>9 DEF Carve, RecordsType
  <2>5. QED
    BY <2>1, <2>2, <2>3, <2>4, TypePartsAfter
<1>10. ASSUME NEW t \in Threads, CarveFails(t) PROVE TypeOK'
  <2>1. carved' \in 0 .. ZoneAreas
    <3>1. carved' \in {carved, carved + 1} /\ carved' <= ZoneAreas
      BY <1>10 DEF CarveFails
    <3>2. carved \in 0 .. ZoneAreas
      OBVIOUS
    <3>3. QED
      BY <3>1, <3>2, Bounds
  <2>2. QED
    BY <1>10, <2>1 DEF CarveFails, Goto, CallEnds
<1>11. ASSUME NEW t \in Threads, RegisterRegion(t) PROVE TypeOK'
  <2>1. arg[t] \in Regions
    BY <1>11 DEF RegisterRegion, CallsInv
  <2>2. RecordsType'
    <3> DEFINE n == [region |-> arg[t], area |-> area[arg[t]]]
    <3>1. n \in [region : Regions, area : Area]
      BY <2>1
    <3>2. records' = Append(records, n) /\ Len(records) < TableCapacity
      BY <1>11 DEF RegisterRegion, RoomForRecord
    <3> HIDE DEF n
    <3>3. QED
      BY <3>1, <3>2, Bounds DEF RecordsType
  <2>3. ControlType' /\ RingType'
    BY <1>11, <2>1 DEF RegisterRegion, CallEnds, Goto, ControlType, RingType
  <2>4. ZonesType' /\ FlagsType'
    BY <1>11 DEF RegisterRegion, ZonesType, FlagsType
  <2>5. QED
    BY <2>2, <2>3, <2>4, TypePartsAfter
<1>12. ASSUME NEW t \in Threads, Teardown(t) PROVE TypeOK'
  BY <1>12 DEF Teardown, Goto
<1>13. ASSUME NEW t \in Threads, StopDrain(t) PROVE TypeOK'
  BY <1>13 DEF StopDrain, Goto
<1>14. ASSUME NEW t \in Threads, Join(t) PROVE TypeOK'
  BY <1>14 DEF Join, Goto
<1>15. ASSUME NEW t \in Threads, FlushForced(t) PROVE TypeOK'
  BY <1>15 DEF FlushForced, Goto
<1>16. ASSUME NEW t \in Threads, ShutdownQueue(t) PROVE TypeOK'
  <2>1. RingType'
    BY <1>16 DEF ShutdownQueue, RingType
  <2>2. ZonesType' /\ FlagsType' /\ RecordsType' /\ ControlType'
    BY <1>16 DEF ShutdownQueue, Goto, ZonesType, FlagsType, RecordsType, ControlType
  <2>3. QED
    BY <2>1, <2>2, TypePartsAfter
<1>17. ASSUME NEW t \in Threads, ShutdownRegionTable(t) PROVE TypeOK'
  <2>1. RecordsType'
    BY <1>17, Bounds, NoRecords DEF ShutdownRegionTable, RecordsType
  <2>2. ZonesType' /\ FlagsType' /\ ControlType' /\ RingType'
    BY <1>17 DEF ShutdownRegionTable, Goto, ZonesType, FlagsType, ControlType, RingType
  <2>3. QED
    BY <2>1, <2>2, TypePartsAfter
<1>18. ASSUME NEW t \in Threads, ReleaseZones(t) PROVE TypeOK'
  BY <1>18, Bounds DEF ReleaseZones, Goto, Unmap
<1>19. ASSUME NEW t \in Threads, Cleared(t) PROVE TypeOK'
  BY <1>19, Bounds DEF Cleared, Goto, ForgetZones
<1>20. ASSUME NEW t \in Threads, NEW r \in Regions, ConstructRegion(t, r) PROVE TypeOK'
  BY <1>20 DEF ConstructRegion, Running, TearingDown, Goto
<1>21. ASSUME NEW t \in Threads, NEW r \in Regions, DestroyRegion(t, r) PROVE TypeOK'
  BY <1>21 DEF DestroyRegion, Running, TearingDown, Goto
<1>22. ASSUME NEW t \in Threads, NEW b \in Blocks, Allocate(t, b) PROVE TypeOK'
  BY <1>22 DEF Allocate, Running, TearingDown, Touch
<1>23. ASSUME NEW t \in Threads, NEW b \in Blocks, Destroy(t, b) PROVE TypeOK'
  <2>1. RingType' /\ pc' \in [Threads -> {"idle", "enqueue"} \union InitPoints
                                              \union LeavePoints \union TearPoints]
    BY <1>23, ClaimType DEF Destroy
  <2>2. ZonesType' /\ FlagsType' /\ RecordsType' /\ UNCHANGED <<drain, initMutex, region, area, arg>>
    BY <1>23 DEF Destroy, Claim, Touch, ZonesType, FlagsType, RecordsType
  <2>3. QED
    BY <2>1, <2>2, TypePartsAfter DEF ControlType
<1>24. CASE DrainLoop
  BY <1>24 DEF DrainLoop
<1>25. CASE DrainLock
  BY <1>25 DEF DrainLock
<1>26. CASE DrainFlushed
  BY <1>26 DEF DrainFlushed
<1>27. CASE MainReturns
  BY <1>27 DEF MainReturns
<1>28. CASE DrainRetire
  <2>1. RingType'
    BY <1>28, RetireType DEF DrainRetire
  <2>2. ZonesType' /\ FlagsType' /\ RecordsType' /\ ControlType'
    BY <1>28 DEF DrainRetire, ZonesType, FlagsType, RecordsType, ControlType
  <2>3. QED
    BY <2>1, <2>2, TypePartsAfter
<1>29. ASSUME NEW t \in Threads, NEW b \in Blocks, DestroyStatic(t, b) PROVE TypeOK'
  <2>1. RingType' /\ pc' \in [Threads -> {"idle", "enqueue"} \union InitPoints
                                              \union LeavePoints \union TearPoints]
    BY <1>29, ClaimType DEF DestroyStatic
  <2>2. ZonesType' /\ FlagsType' /\ RecordsType' /\ UNCHANGED <<drain, initMutex, region, area, arg>>
    BY <1>29 DEF DestroyStatic, Claim, Touch, ZonesType, FlagsType, RecordsType
  <2>3. QED
    BY <2>1, <2>2, TypePartsAfter DEF ControlType
<1>30. CASE UNCHANGED vars
  BY SMTT(30), <1>30 DEF vars
<1>31. ASSUME NEW t \in Threads, RegisterFails(t) PROVE TypeOK'
  BY <1>31 DEF RegisterFails, Goto, CallEnds
<1>32. ASSUME NEW t \in Threads, Enqueued(t) PROVE TypeOK'
  <2>1. queue' \in Seq(Slot)
    BY <1>32, PublishType
  <2>2. QED
    BY <1>32, <2>1 DEF Enqueued, Goto
<1>33. ASSUME NEW t \in Threads, DestructorLocks(t) PROVE TypeOK'
  BY <1>33 DEF DestructorLocks, Goto
<1>34. ASSUME NEW t \in Threads, DestructorReturns(t) PROVE TypeOK'
  <2>1. arg[t] \in Regions /\ NoArea \in Area
    BY <1>34 DEF DestructorReturns, CallsInv, NoArea
  <2>2. QED
    BY <1>34, <2>1 DEF DestructorReturns, Goto, CallEnds
<1>35. ASSUME NEW t \in Threads, ForcedRetire(t) PROVE TypeOK'
  <2>1. RingType'
    BY <1>35, RetireType DEF ForcedRetire
  <2>2. ZonesType' /\ FlagsType' /\ RecordsType' /\ ControlType'
    BY <1>35 DEF ForcedRetire, ZonesType, FlagsType, RecordsType, ControlType
  <2>3. QED
    BY <2>1, <2>2, TypePartsAfter
<1>36. ASSUME NEW t \in Threads, NEW r \in Regions, ConstructEmpty(t, r) PROVE TypeOK'
  BY SMTT(30), <1>36 DEF ConstructEmpty, Running, TearingDown
<1>37. QED
  BY <1>1, <1>2, <1>3, <1>4, <1>5, <1>6, <1>7, <1>8, <1>9, <1>10, <1>11, <1>12,
     <1>13, <1>14, <1>15, <1>16, <1>17, <1>18, <1>19, <1>20, <1>21, <1>22, <1>23,
     <1>24, <1>25, <1>26, <1>27, <1>28, <1>29, <1>30, <1>31, <1>32, <1>33, <1>34,
     <1>35, <1>36
     DEF Next, Call, ThreadStep, InitStep, RegionStep, TeardownStep, DrainStep

LEMMA PhaseStep ==
  ASSUME IInv, [Next]_vars
  PROVE  PhaseInv'
<1> USE DEF IInv, TypeOK, PhaseInv, Documented, Critical, Draining, Standing, Down,
            Rising, Joined, CallsInv, InitPoints, LeavePoints, TearPoints, zoneVars,
            memoryVars, flagVars, regionVars, quarantineVars, processVars
<1>1. ASSUME NEW t \in Threads, InitShadowzone(t) PROVE PhaseInv'
  BY <1>1 DEF InitShadowzone, Goto, Running, TearingDown
<1>2. ASSUME NEW t \in Threads, AlreadyInitialized(t) PROVE PhaseInv'
  BY <1>2 DEF AlreadyInitialized, Goto, InitReturns
<1>3. ASSUME NEW t \in Threads, Reserve(t) PROVE PhaseInv'
  BY <1>3 DEF Reserve, Goto
<1>4. ASSUME NEW t \in Threads, ReserveFails(t) PROVE PhaseInv'
  BY <1>4 DEF ReserveFails, Goto, InitReturns
<1>5. ASSUME NEW t \in Threads, AllocateTables(t) PROVE PhaseInv'
  BY <1>5 DEF AllocateTables, Goto
<1>6. ASSUME NEW t \in Threads, AllocateTablesFails(t) PROVE PhaseInv'
  <2>1. pc' = [pc EXCEPT ![t] = "idle"] /\ Down' /\ initMutex' = Null
    BY <1>6, InitFails DEF AllocateTablesFails, Unmap, ForgetZones
  <2>2. pc[t] \in Critical
    BY <1>6 DEF AllocateTablesFails
  <2>3. \A u \in Threads : pc'[u] \notin Critical /\ pc'[u] \notin TearPoints
    BY <2>1, <2>2, CriticalAlone
  <2>4. QED
    BY <2>1, <2>3, NullAssumption
<1>7. ASSUME NEW t \in Threads, Publish(t) PROVE PhaseInv'
  BY <1>7 DEF Publish, Goto
<1>8. ASSUME NEW t \in Threads, StartDrain(t) PROVE PhaseInv'
  <2>1. /\ pc' = [pc EXCEPT ![t] = IF arg[t] # Null THEN "carve" ELSE "idle"]
        /\ region' = region
    BY <1>8, InitSucceeds DEF StartDrain
  <2>2. pc[t] \in Critical
    BY <1>8 DEF StartDrain
  <2>3. \A u \in Threads : pc'[u] \notin Critical /\ pc'[u] \notin TearPoints
    BY <2>1, <2>2, CriticalAlone
  <2>4. Standing' /\ ~ shutdown' /\ drainRunning' /\ Draining' /\ initMutex' = Null
    BY <1>8 DEF StartDrain
  <2>5. QED
    BY <2>3, <2>4, NullAssumption
<1>9. ASSUME NEW t \in Threads, Carve(t) PROVE PhaseInv'
  BY <1>9 DEF Carve, Goto
<1>10. ASSUME NEW t \in Threads, CarveFails(t) PROVE PhaseInv'
  BY <1>10 DEF CarveFails, Goto, CallEnds
<1>11. ASSUME NEW t \in Threads, RegisterRegion(t) PROVE PhaseInv'
  BY <1>11 DEF RegisterRegion, Goto, CallEnds, RoomForRecord
<1>12. ASSUME NEW t \in Threads, Teardown(t) PROVE PhaseInv'
  BY <1>12 DEF Teardown, Goto
<1>13. ASSUME NEW t \in Threads, StopDrain(t) PROVE PhaseInv'
  BY <1>13 DEF StopDrain, Goto
<1>14. ASSUME NEW t \in Threads, Join(t) PROVE PhaseInv'
  BY <1>14 DEF Join, Goto
<1>15. ASSUME NEW t \in Threads, FlushForced(t) PROVE PhaseInv'
  BY <1>15 DEF FlushForced, Goto
<1>16. ASSUME NEW t \in Threads, ShutdownQueue(t) PROVE PhaseInv'
  BY <1>16 DEF ShutdownQueue, Goto
<1>17. ASSUME NEW t \in Threads, ShutdownRegionTable(t) PROVE PhaseInv'
  BY <1>17 DEF ShutdownRegionTable, Goto
<1>18. ASSUME NEW t \in Threads, ReleaseZones(t) PROVE PhaseInv'
  BY <1>18 DEF ReleaseZones, Goto, Unmap
<1>19. ASSUME NEW t \in Threads, Cleared(t) PROVE PhaseInv'
  BY <1>19 DEF Cleared, Goto, ForgetZones
<1>20. ASSUME NEW t \in Threads, NEW r \in Regions, ConstructRegion(t, r) PROVE PhaseInv'
  BY <1>20 DEF ConstructRegion, Running, TearingDown, Goto
<1>21. ASSUME NEW t \in Threads, NEW r \in Regions, DestroyRegion(t, r) PROVE PhaseInv'
  BY <1>21 DEF DestroyRegion, Running, TearingDown, Goto
<1>22. ASSUME NEW t \in Threads, NEW b \in Blocks, Allocate(t, b) PROVE PhaseInv'
  BY <1>22 DEF Allocate, Running, TearingDown, Touch
<1>23. ASSUME NEW t \in Threads, NEW b \in Blocks, Destroy(t, b) PROVE PhaseInv'
  BY <1>23 DEF Destroy, Claim, Running, TearingDown, Touch, Goto
<1>24. CASE DrainLoop
  BY <1>24 DEF DrainLoop
<1>25. CASE DrainLock
  BY <1>25 DEF DrainLock
<1>26. CASE DrainFlushed
  BY <1>26 DEF DrainFlushed
<1>27. CASE MainReturns
  BY <1>27 DEF MainReturns
<1>28. CASE DrainRetire
  BY <1>28 DEF DrainRetire, RetireHead
<1>29. ASSUME NEW t \in Threads, NEW b \in Blocks, DestroyStatic(t, b) PROVE PhaseInv'
  BY <1>29 DEF DestroyStatic, Claim, Touch, Goto
<1>30. CASE UNCHANGED vars
  BY <1>30 DEF vars
<1>31. ASSUME NEW t \in Threads, RegisterFails(t) PROVE PhaseInv'
  BY <1>31 DEF RegisterFails, Goto, CallEnds
<1>32. ASSUME NEW t \in Threads, Enqueued(t) PROVE PhaseInv'
  BY <1>32 DEF Enqueued, Goto
<1>33. ASSUME NEW t \in Threads, DestructorLocks(t) PROVE PhaseInv'
  BY <1>33 DEF DestructorLocks, Goto
<1>34. ASSUME NEW t \in Threads, DestructorReturns(t) PROVE PhaseInv'
  BY <1>34 DEF DestructorReturns, Goto, CallEnds
<1>35. ASSUME NEW t \in Threads, ForcedRetire(t) PROVE PhaseInv'
  BY <1>35 DEF ForcedRetire, RetireHead
<1>36. ASSUME NEW t \in Threads, NEW r \in Regions, ConstructEmpty(t, r) PROVE PhaseInv'
  BY <1>36 DEF ConstructEmpty, Running, TearingDown
<1>37. QED
  BY <1>1, <1>2, <1>3, <1>4, <1>5, <1>6, <1>7, <1>8, <1>9, <1>10, <1>11, <1>12,
     <1>13, <1>14, <1>15, <1>16, <1>17, <1>18, <1>19, <1>20, <1>21, <1>22, <1>23,
     <1>24, <1>25, <1>26, <1>27, <1>28, <1>29, <1>30, <1>31, <1>32, <1>33, <1>34,
     <1>35, <1>36
     DEF Next, Call, ThreadStep, InitStep, RegionStep, TeardownStep, DrainStep

LEMMA CallsStep ==
  ASSUME IInv, [Next]_vars
  PROVE  CallsInv'
<1> USE DEF IInv, TypeOK, CallsInv, PhaseInv, Standing, Critical, InitPoints,
            LeavePoints, TearPoints, zoneVars, memoryVars, flagVars, regionVars,
            quarantineVars, processVars
<1>1. ASSUME NEW t \in Threads, InitShadowzone(t) PROVE CallsInv'
  BY <1>1 DEF InitShadowzone, Goto, Running, TearingDown
<1>2. ASSUME NEW t \in Threads, AlreadyInitialized(t) PROVE CallsInv'
  BY <1>2 DEF AlreadyInitialized, Goto, InitReturns
<1>3. ASSUME NEW t \in Threads, Reserve(t) PROVE CallsInv'
  BY <1>3 DEF Reserve, Goto
<1>4. ASSUME NEW t \in Threads, ReserveFails(t) PROVE CallsInv'
  BY <1>4 DEF ReserveFails, Goto, InitReturns
<1>5. ASSUME NEW t \in Threads, AllocateTables(t) PROVE CallsInv'
  BY <1>5 DEF AllocateTables, Goto
<1>6. ASSUME NEW t \in Threads, AllocateTablesFails(t) PROVE CallsInv'
  <2>1. /\ pc' = [pc EXCEPT ![t] = "idle"] /\ arg' = [arg EXCEPT ![t] = Null]
        /\ \A r \in Regions : r # arg[t] => region'[r] = region[r]
    BY <1>6, InitFails DEF AllocateTablesFails
  <2>2. pc[t] \in Critical /\ initMutex = t
    BY <1>6, CriticalAlone DEF AllocateTablesFails
  <2>3. \A u \in Threads : pc[u] \notin {"carve", "register"}
    BY <2>2, NullAssumption
  <2>4. mapped' = 0 /\ area' = area
    BY <1>6 DEF AllocateTablesFails, Unmap
  <2>5. QED
    BY <2>1, <2>3, <2>4
<1>7. ASSUME NEW t \in Threads, Publish(t) PROVE CallsInv'
  BY <1>7 DEF Publish, Goto
<1>8. ASSUME NEW t \in Threads, StartDrain(t) PROVE CallsInv'
  <2>1. /\ pc' = [pc EXCEPT ![t] = IF arg[t] # Null THEN "carve" ELSE "idle"]
        /\ arg' = arg /\ region' = region
    BY <1>8, InitSucceeds DEF StartDrain
  <2>2. pc[t] = "start" /\ initMutex = t /\ initialized
    BY <1>8, CriticalAlone DEF StartDrain
  <2>3. \A u \in Threads : pc[u] \notin {"carve", "register"}
    BY <2>2, NullAssumption
  <2>4. /\ UNCHANGED <<mapped, area, records>> /\ initMutex' = Null /\ initialized' = initialized
    BY <1>8 DEF StartDrain
  <2>5. QED
    BY <2>1, <2>2, <2>3, <2>4
<1>9. ASSUME NEW t \in Threads, Carve(t) PROVE CallsInv'
  <2>1. /\ pc[t] = "carve" /\ pc' = [pc EXCEPT ![t] = "register"] /\ arg' = arg
        /\ area' = [area EXCEPT ![arg[t]] = [zone |-> zone, index |-> carved]]
        /\ UNCHANGED <<mapped, region, initMutex, initialized>>
    BY <1>9 DEF Carve, Goto
  <2>2. /\ arg[t] \in Regions /\ initialized /\ initMutex = Null
        /\ \A u \in Threads \ {t} : arg[u] # arg[t]
    BY <2>1
  <2>3. zone = mapped
    <3>1. \A u \in Threads : pc[u] \notin TearPoints
      BY ZenonT(40), <2>1
    <3>2. QED
      BY <2>2, <3>1 DEF Down
  <2>4. area'[arg[t]].zone = mapped
    BY <2>1, <2>2, <2>3
  <2>5. \A r \in Regions : r # arg[t] => area'[r] = area[r]
    BY <2>1
  <2>6. ASSUME NEW u \in Threads, pc'[u] = "register" PROVE area'[arg'[u]].zone = mapped'
    BY <2>1, <2>2, <2>4, <2>5, <2>6
  <2>7. ASSUME NEW u \in Threads
        PROVE  /\ arg'[u] # Null =>
                    /\ \/ region'[arg'[u]] = "constructing" /\ pc'[u] \in InitPoints
                       \/ region'[arg'[u]] = "destroying" /\ pc'[u] \in LeavePoints
                    /\ \A v \in Threads : arg'[v] = arg'[u] => v = u
               /\ pc'[u] \in LeavePoints => arg'[u] # Null
               /\ pc'[u] \in {"carve", "register"} =>
                    arg'[u] # Null /\ initialized' /\ initMutex' = Null
    BY <2>1, <2>2
  <2>8. QED
    BY <2>6, <2>7
<1>10. ASSUME NEW t \in Threads, CarveFails(t) PROVE CallsInv'
  BY <1>10 DEF CarveFails, Goto, CallEnds
<1>11. ASSUME NEW t \in Threads, RegisterRegion(t) PROVE CallsInv'
  BY <1>11 DEF RegisterRegion, Goto, CallEnds, RoomForRecord
<1>12. ASSUME NEW t \in Threads, Teardown(t) PROVE CallsInv'
  BY <1>12 DEF Teardown, Goto
<1>13. ASSUME NEW t \in Threads, StopDrain(t) PROVE CallsInv'
  BY <1>13 DEF StopDrain, Goto
<1>14. ASSUME NEW t \in Threads, Join(t) PROVE CallsInv'
  BY <1>14 DEF Join, Goto
<1>15. ASSUME NEW t \in Threads, FlushForced(t) PROVE CallsInv'
  BY <1>15 DEF FlushForced, Goto
<1>16. ASSUME NEW t \in Threads, ShutdownQueue(t) PROVE CallsInv'
  BY <1>16 DEF ShutdownQueue, Goto
<1>17. ASSUME NEW t \in Threads, ShutdownRegionTable(t) PROVE CallsInv'
  BY <1>17 DEF ShutdownRegionTable, Goto
<1>18. ASSUME NEW t \in Threads, ReleaseZones(t) PROVE CallsInv'
  <2>1. /\ pc[t] = "release" /\ pc' = [pc EXCEPT ![t] = "clear"] /\ mapped' = 0
        /\ UNCHANGED <<area, arg, records, region, initMutex, initialized>>
    BY <1>18 DEF ReleaseZones, Goto, Unmap
  <2>2. \A u \in Threads : arg[u] = Null
    BY ZenonT(40), <2>1
  <2>3. \A u \in Threads : pc[u] \notin {"carve", "register"}
    BY <2>2
  <2>4. QED
    BY <2>1, <2>2, <2>3
<1>19. ASSUME NEW t \in Threads, Cleared(t) PROVE CallsInv'
  <2>1. /\ pc[t] = "clear" /\ pc' = [pc EXCEPT ![t] = "idle"]
        /\ UNCHANGED <<mapped, area, arg, records, region, initMutex>>
    BY <1>19 DEF Cleared, Goto
  <2>2. \A u \in Threads : arg[u] = Null
    BY ZenonT(40), <2>1
  <2>3. \A u \in Threads : pc[u] \notin {"carve", "register"}
    BY <2>2
  <2>4. QED
    BY <2>1, <2>2, <2>3
<1>20. ASSUME NEW t \in Threads, NEW r \in Regions, ConstructRegion(t, r) PROVE CallsInv'
  BY <1>20 DEF ConstructRegion, Running, TearingDown, Goto
<1>21. ASSUME NEW t \in Threads, NEW r \in Regions, DestroyRegion(t, r) PROVE CallsInv'
  <2>1. /\ region[r] \in {"up", "failed"} /\ pc[t] = "idle"
        /\ region' = [region EXCEPT ![r] = "destroying"]
        /\ arg' = [arg EXCEPT ![t] = r] /\ pc' = [pc EXCEPT ![t] = "lock"]
        /\ UNCHANGED <<initialized, initMutex, area, mapped>>
    BY <1>21 DEF DestroyRegion, Goto
  <2>2. r # Null
    BY NullAssumption
  <2>3. arg[t] = Null
    BY <2>1
  <2>4. ASSUME NEW u \in Threads, arg[u] = r PROVE FALSE
    <3>1. region[r] \in {"constructing", "destroying"}
      BY <2>2, <2>4
    <3>2. QED
      BY <2>1, <3>1
  <2>5. QED
    BY <2>1, <2>2, <2>3, <2>4
<1>22. ASSUME NEW t \in Threads, NEW b \in Blocks, Allocate(t, b) PROVE CallsInv'
  BY <1>22 DEF Allocate, Running, TearingDown, Touch
<1>23. ASSUME NEW t \in Threads, NEW b \in Blocks, Destroy(t, b) PROVE CallsInv'
  BY <1>23 DEF Destroy, Claim, Running, TearingDown, Touch, Goto
<1>24. CASE DrainLoop
  BY <1>24 DEF DrainLoop
<1>25. CASE DrainLock
  BY <1>25 DEF DrainLock
<1>26. CASE DrainFlushed
  BY <1>26 DEF DrainFlushed
<1>27. CASE MainReturns
  BY <1>27 DEF MainReturns
<1>28. CASE DrainRetire
  BY <1>28 DEF DrainRetire, RetireHead
<1>29. ASSUME NEW t \in Threads, NEW b \in Blocks, DestroyStatic(t, b) PROVE CallsInv'
  BY <1>29 DEF DestroyStatic, Claim, Touch, Goto
<1>30. CASE UNCHANGED vars
  BY <1>30 DEF vars
<1>31. ASSUME NEW t \in Threads, RegisterFails(t) PROVE CallsInv'
  BY <1>31 DEF RegisterFails, Goto, CallEnds
<1>32. ASSUME NEW t \in Threads, Enqueued(t) PROVE CallsInv'
  BY <1>32 DEF Enqueued, Goto
<1>33. ASSUME NEW t \in Threads, DestructorLocks(t) PROVE CallsInv'
  BY <1>33 DEF DestructorLocks, Goto
<1>34. ASSUME NEW t \in Threads, DestructorReturns(t) PROVE CallsInv'
  BY <1>34 DEF DestructorReturns, Goto, CallEnds
<1>35. ASSUME NEW t \in Threads, ForcedRetire(t) PROVE CallsInv'
  BY <1>35 DEF ForcedRetire, RetireHead
<1>36. ASSUME NEW t \in Threads, NEW r \in Regions, ConstructEmpty(t, r) PROVE CallsInv'
  BY <1>36 DEF ConstructEmpty, Running, TearingDown
<1>37. QED
  BY <1>1, <1>2, <1>3, <1>4, <1>5, <1>6, <1>7, <1>8, <1>9, <1>10, <1>11, <1>12,
     <1>13, <1>14, <1>15, <1>16, <1>17, <1>18, <1>19, <1>20, <1>21, <1>22, <1>23,
     <1>24, <1>25, <1>26, <1>27, <1>28, <1>29, <1>30, <1>31, <1>32, <1>33, <1>34,
     <1>35, <1>36
     DEF Next, Call, ThreadStep, InitStep, RegionStep, TeardownStep, DrainStep

LEMMA RegionsStep ==
  ASSUME IInv, [Next]_vars
  PROVE  RegionsInv'
<1> USE DEF IInv, TypeOK, CallsInv, PhaseInv, RegionsInv, Critical, InitPoints,
            LeavePoints, TearPoints, zoneVars, memoryVars, flagVars, regionVars,
            quarantineVars, processVars
<1>1. ASSUME NEW t \in Threads, InitShadowzone(t) PROVE RegionsInv'
  BY <1>1 DEF InitShadowzone, Goto, Running, TearingDown
<1>2. ASSUME NEW t \in Threads, AlreadyInitialized(t) PROVE RegionsInv'
  BY <1>2 DEF AlreadyInitialized, Goto, InitReturns
<1>3. ASSUME NEW t \in Threads, Reserve(t) PROVE RegionsInv'
  <2>1. /\ pc[t] = "init" /\ ~ initialized /\ UNCHANGED region
    BY <1>3 DEF Reserve
  <2>2. \A r \in Regions : region[r] # "up"
    BY <2>1
  <2>3. QED
    BY <2>1, <2>2
<1>4. ASSUME NEW t \in Threads, ReserveFails(t) PROVE RegionsInv'
  BY <1>4 DEF ReserveFails, Goto, InitReturns
<1>5. ASSUME NEW t \in Threads, AllocateTables(t) PROVE RegionsInv'
  BY <1>5 DEF AllocateTables, Goto
<1>6. ASSUME NEW t \in Threads, AllocateTablesFails(t) PROVE RegionsInv'
  <2>1. \A r \in Regions : region'[r] = "up" <=> region[r] = "up"
    BY <1>6, InitFails DEF AllocateTablesFails
  <2>2. \A r \in Regions : region[r] # "up"
    BY <1>6, NoRegionUp DEF AllocateTablesFails
  <2>3. QED
    BY <2>1, <2>2
<1>7. ASSUME NEW t \in Threads, Publish(t) PROVE RegionsInv'
  BY <1>7 DEF Publish, Goto
<1>8. ASSUME NEW t \in Threads, StartDrain(t) PROVE RegionsInv'
  BY <1>8 DEF StartDrain, Goto, InitReturns
<1>9. ASSUME NEW t \in Threads, Carve(t) PROVE RegionsInv'
  <2>1. /\ pc[t] = "carve"
        /\ area' = [area EXCEPT ![arg[t]] = [zone |-> zone, index |-> carved]]
        /\ UNCHANGED <<mapped, records, region, initMutex, initialized>>
    BY <1>9 DEF Carve
  <2>2. arg[t] \in Regions /\ region[arg[t]] # "up"
    BY <2>1
  <2>3. QED
    BY <2>1, <2>2
<1>10. ASSUME NEW t \in Threads, CarveFails(t) PROVE RegionsInv'
  BY <1>10 DEF CarveFails, Goto, CallEnds
<1>11. ASSUME NEW t \in Threads, RegisterRegion(t) PROVE RegionsInv'
  <2> DEFINE n == [region |-> arg[t], area |-> area[arg[t]]]
  <2>1. /\ pc[t] = "register" /\ records' = Append(records, n)
        /\ region' = [region EXCEPT ![arg[t]] = "up"]
        /\ UNCHANGED <<mapped, area, initMutex, initialized>>
    BY <1>11 DEF RegisterRegion, CallEnds
  <2>2. /\ arg[t] \in Regions /\ initialized /\ initMutex = Null
        /\ area[arg[t]].zone = mapped
    BY <2>1
  <2>3. n.region = arg[t] /\ n.area = area[arg[t]] /\ n \in [region : Regions, area : Area]
    BY <2>2
  <2> HIDE DEF n
  <2>4. /\ records'[Len(records) + 1] = n /\ Len(records) + 1 \in DOMAIN records'
        /\ \A i \in DOMAIN records : i \in DOMAIN records' /\ records'[i] = records[i]
    BY <2>1, <2>3, AppendSlot
  <2>5. ASSUME NEW r \in Regions, region'[r] = "up"
        PROVE  /\ initialized' /\ initMutex' = Null /\ area'[r].zone = mapped'
               /\ \E i \in DOMAIN records' :
                    records'[i].region = r /\ records'[i].area = area'[r]
    <3>1. CASE r = arg[t]
      BY <2>1, <2>2, <2>3, <2>4, <3>1
    <3>2. CASE r # arg[t]
      <4>1. region[r] = "up"
        BY <2>1, <2>5, <3>2
      <4>2. QED
        BY <2>1, <2>4, <4>1
    <3>3. QED
      BY <3>1, <3>2
  <2>6. QED
    BY <2>5
<1>12. ASSUME NEW t \in Threads, Teardown(t) PROVE RegionsInv'
  BY <1>12 DEF Teardown, Goto
<1>13. ASSUME NEW t \in Threads, StopDrain(t) PROVE RegionsInv'
  BY <1>13 DEF StopDrain, Goto
<1>14. ASSUME NEW t \in Threads, Join(t) PROVE RegionsInv'
  BY <1>14 DEF Join, Goto
<1>15. ASSUME NEW t \in Threads, FlushForced(t) PROVE RegionsInv'
  BY <1>15 DEF FlushForced, Goto
<1>16. ASSUME NEW t \in Threads, ShutdownQueue(t) PROVE RegionsInv'
  BY <1>16 DEF ShutdownQueue, Goto
<1>17. ASSUME NEW t \in Threads, ShutdownRegionTable(t) PROVE RegionsInv'
  BY <1>17 DEF ShutdownRegionTable, Goto
<1>18. ASSUME NEW t \in Threads, ReleaseZones(t) PROVE RegionsInv'
  BY <1>18 DEF ReleaseZones, Goto, Unmap
<1>19. ASSUME NEW t \in Threads, Cleared(t) PROVE RegionsInv'
  <2>1. \A r \in Regions : region[r] # "up"
    BY <1>19, NoRegionUp DEF Cleared
  <2>2. UNCHANGED region
    BY <1>19 DEF Cleared
  <2>3. QED
    BY <2>1, <2>2
<1>20. ASSUME NEW t \in Threads, NEW r \in Regions, ConstructRegion(t, r) PROVE RegionsInv'
  BY <1>20 DEF ConstructRegion, Running, TearingDown, Goto
<1>21. ASSUME NEW t \in Threads, NEW r \in Regions, DestroyRegion(t, r) PROVE RegionsInv'
  BY <1>21 DEF DestroyRegion, Running, TearingDown, Goto
<1>22. ASSUME NEW t \in Threads, NEW b \in Blocks, Allocate(t, b) PROVE RegionsInv'
  BY <1>22 DEF Allocate, Running, TearingDown, Touch
<1>23. ASSUME NEW t \in Threads, NEW b \in Blocks, Destroy(t, b) PROVE RegionsInv'
  BY <1>23 DEF Destroy, Claim, Running, TearingDown, Touch, Goto
<1>24. CASE DrainLoop
  BY <1>24 DEF DrainLoop
<1>25. CASE DrainLock
  BY <1>25 DEF DrainLock
<1>26. CASE DrainFlushed
  BY <1>26 DEF DrainFlushed
<1>27. CASE MainReturns
  BY <1>27 DEF MainReturns
<1>28. CASE DrainRetire
  BY <1>28 DEF DrainRetire, RetireHead
<1>29. ASSUME NEW t \in Threads, NEW b \in Blocks, DestroyStatic(t, b) PROVE RegionsInv'
  BY <1>29 DEF DestroyStatic, Claim, Touch, Goto
<1>30. CASE UNCHANGED vars
  BY <1>30 DEF vars
<1>31. ASSUME NEW t \in Threads, RegisterFails(t) PROVE RegionsInv'
  BY <1>31 DEF RegisterFails, Goto, CallEnds
<1>32. ASSUME NEW t \in Threads, Enqueued(t) PROVE RegionsInv'
  BY <1>32 DEF Enqueued, Goto
<1>33. ASSUME NEW t \in Threads, DestructorLocks(t) PROVE RegionsInv'
  BY <1>33 DEF DestructorLocks, Goto
<1>34. ASSUME NEW t \in Threads, DestructorReturns(t) PROVE RegionsInv'
  <2>1. /\ region' = [region EXCEPT ![arg[t]] = "none"]
        /\ area' = [area EXCEPT ![arg[t]] = NoArea]
        /\ UNCHANGED <<mapped, records, initMutex, initialized>>
    BY <1>34 DEF DestructorReturns, CallEnds
  <2>2. QED
    BY <2>1
<1>35. ASSUME NEW t \in Threads, ForcedRetire(t) PROVE RegionsInv'
  BY <1>35 DEF ForcedRetire, RetireHead
<1>36. ASSUME NEW t \in Threads, NEW r \in Regions, ConstructEmpty(t, r) PROVE RegionsInv'
  BY <1>36 DEF ConstructEmpty, Running, TearingDown
<1>37. QED
  BY <1>1, <1>2, <1>3, <1>4, <1>5, <1>6, <1>7, <1>8, <1>9, <1>10, <1>11, <1>12,
     <1>13, <1>14, <1>15, <1>16, <1>17, <1>18, <1>19, <1>20, <1>21, <1>22, <1>23,
     <1>24, <1>25, <1>26, <1>27, <1>28, <1>29, <1>30, <1>31, <1>32, <1>33, <1>34,
     <1>35, <1>36
     DEF Next, Call, ThreadStep, InitStep, RegionStep, TeardownStep, DrainStep

LEMMA RecordsStep ==
  ASSUME IInv, [Next]_vars
  PROVE  RecordsInv'
<1> USE DEF IInv, TypeOK, CallsInv, PhaseInv, RecordsInv, Standing, Down, Rising, Joined,
            Critical, InitPoints, LeavePoints, TearPoints, zoneVars, memoryVars,
            flagVars, regionVars, quarantineVars, processVars
<1>1. ASSUME NEW t \in Threads, InitShadowzone(t) PROVE RecordsInv'
  BY <1>1 DEF InitShadowzone, Goto, Running, TearingDown
<1>2. ASSUME NEW t \in Threads, AlreadyInitialized(t) PROVE RecordsInv'
  BY <1>2 DEF AlreadyInitialized, Goto, InitReturns
<1>3. ASSUME NEW t \in Threads, Reserve(t) PROVE RecordsInv'
  <2>1. /\ pc[t] = "init" /\ ~ initialized /\ initMutex = Null /\ UNCHANGED records
    BY <1>3 DEF Reserve
  <2>2. \A u \in Threads : pc[u] \notin TearPoints
    BY ZenonT(40), <2>1
  <2>3. records = <<>>
    BY <2>1, <2>2
  <2>4. QED
    BY <2>1, <2>3, NoRecords
<1>4. ASSUME NEW t \in Threads, ReserveFails(t) PROVE RecordsInv'
  BY <1>4 DEF ReserveFails, Goto, InitReturns
<1>5. ASSUME NEW t \in Threads, AllocateTables(t) PROVE RecordsInv'
  BY <1>5 DEF AllocateTables, Goto
<1>6. ASSUME NEW t \in Threads, AllocateTablesFails(t) PROVE RecordsInv'
  BY <1>6 DEF AllocateTablesFails, Goto, InitReturns, Unmap, ForgetZones
<1>7. ASSUME NEW t \in Threads, Publish(t) PROVE RecordsInv'
  BY <1>7 DEF Publish, Goto
<1>8. ASSUME NEW t \in Threads, StartDrain(t) PROVE RecordsInv'
  BY <1>8 DEF StartDrain, Goto, InitReturns
<1>9. ASSUME NEW t \in Threads, Carve(t) PROVE RecordsInv'
  BY <1>9 DEF Carve, Goto
<1>10. ASSUME NEW t \in Threads, CarveFails(t) PROVE RecordsInv'
  BY <1>10 DEF CarveFails, Goto, CallEnds
<1>11. ASSUME NEW t \in Threads, RegisterRegion(t) PROVE RecordsInv'
  <2> DEFINE n == [region |-> arg[t], area |-> area[arg[t]]]
  <2>1. /\ pc[t] = "register" /\ records' = Append(records, n) /\ UNCHANGED mapped
    BY <1>11 DEF RegisterRegion
  <2>2. arg[t] \in Regions /\ area[arg[t]].zone = mapped /\ mapped # 0
    <3>1. arg[t] \in Regions /\ area[arg[t]].zone = mapped /\ initialized /\ initMutex = Null
      BY <2>1
    <3>2. \A u \in Threads : pc[u] \notin TearPoints
      BY ZenonT(40), <2>1
    <3>3. QED
      BY <3>1, <3>2
  <2>3. n.region = arg[t] /\ n.area = area[arg[t]] /\ n \in [region : Regions, area : Area]
    BY <2>2
  <2> HIDE DEF n
  <2> DEFINE last == Len(records) + 1
  <2>4. /\ records'[last] = n /\ DOMAIN records' = DOMAIN records \union {last}
        /\ \A i \in DOMAIN records : records'[i] = records[i] /\ i <= last
        /\ last <= last /\ last \notin DOMAIN records
    BY <2>1, <2>3, AppendSlot
  <2> HIDE DEF last
  <2>5. \A i \in DOMAIN records' : records'[i].area.zone = mapped'
    BY <2>1, <2>2, <2>3, <2>4
  <2>6. ASSUME NEW i \in DOMAIN records'
        PROVE  \E k \in DOMAIN records' :
                 /\ records'[k].region = records'[i].region
                 /\ \A j \in DOMAIN records' : records'[j].region = records'[i].region => k <= j
    <3>1. CASE \E m \in DOMAIN records : records[m].region = records'[i].region
      <4>1. PICK m \in DOMAIN records : records[m].region = records'[i].region
        BY <3>1
      <4>2. PICK k \in DOMAIN records :
              /\ records[k].region = records[m].region
              /\ \A j \in DOMAIN records : records[j].region = records[m].region => k <= j
        OBVIOUS
      <4>3. k \in DOMAIN records' /\ records'[k].region = records'[i].region
        BY <2>4, <4>1, <4>2
      <4>4. ASSUME NEW j \in DOMAIN records', records'[j].region = records'[i].region
            PROVE  k <= j
        <5>1. CASE j = last
          BY <2>4, <5>1
        <5>2. CASE j # last
          BY <2>4, <4>1, <4>2, <4>4, <5>2
        <5>3. QED
          BY <5>1, <5>2
      <4>5. QED
        BY <4>3, <4>4
    <3>2. CASE \A m \in DOMAIN records : records[m].region # records'[i].region
      <4>1. i = last /\ \A j \in DOMAIN records' : records'[j].region = records'[i].region => j = last
        BY <2>4, <3>2
      <4>2. QED
        BY <2>4, <4>1
    <3>3. QED
      BY <3>1, <3>2
  <2>7. QED
    BY <2>1, <2>2, <2>5, <2>6
<1>12. ASSUME NEW t \in Threads, Teardown(t) PROVE RecordsInv'
  BY <1>12 DEF Teardown, Goto
<1>13. ASSUME NEW t \in Threads, StopDrain(t) PROVE RecordsInv'
  BY <1>13 DEF StopDrain, Goto
<1>14. ASSUME NEW t \in Threads, Join(t) PROVE RecordsInv'
  BY <1>14 DEF Join, Goto
<1>15. ASSUME NEW t \in Threads, FlushForced(t) PROVE RecordsInv'
  BY <1>15 DEF FlushForced, Goto
<1>16. ASSUME NEW t \in Threads, ShutdownQueue(t) PROVE RecordsInv'
  BY <1>16 DEF ShutdownQueue, Goto
<1>17. ASSUME NEW t \in Threads, ShutdownRegionTable(t) PROVE RecordsInv'
  BY <1>17 DEF ShutdownRegionTable, Goto
<1>18. ASSUME NEW t \in Threads, ReleaseZones(t) PROVE RecordsInv'
  BY <1>18 DEF ReleaseZones, Goto, Unmap
<1>19. ASSUME NEW t \in Threads, Cleared(t) PROVE RecordsInv'
  BY <1>19 DEF Cleared, Goto, ForgetZones
<1>20. ASSUME NEW t \in Threads, NEW r \in Regions, ConstructRegion(t, r) PROVE RecordsInv'
  BY <1>20 DEF ConstructRegion, Running, TearingDown, Goto
<1>21. ASSUME NEW t \in Threads, NEW r \in Regions, DestroyRegion(t, r) PROVE RecordsInv'
  BY <1>21 DEF DestroyRegion, Running, TearingDown, Goto
<1>22. ASSUME NEW t \in Threads, NEW b \in Blocks, Allocate(t, b) PROVE RecordsInv'
  BY <1>22 DEF Allocate, Running, TearingDown, Touch
<1>23. ASSUME NEW t \in Threads, NEW b \in Blocks, Destroy(t, b) PROVE RecordsInv'
  BY <1>23 DEF Destroy, Claim, Running, TearingDown, Touch, Goto
<1>24. CASE DrainLoop
  BY <1>24 DEF DrainLoop
<1>25. CASE DrainLock
  BY <1>25 DEF DrainLock
<1>26. CASE DrainFlushed
  BY <1>26 DEF DrainFlushed
<1>27. CASE MainReturns
  BY <1>27 DEF MainReturns
<1>28. CASE DrainRetire
  BY <1>28 DEF DrainRetire, RetireHead
<1>29. ASSUME NEW t \in Threads, NEW b \in Blocks, DestroyStatic(t, b) PROVE RecordsInv'
  BY <1>29 DEF DestroyStatic, Claim, Touch, Goto
<1>30. CASE UNCHANGED vars
  BY <1>30 DEF vars
<1>31. ASSUME NEW t \in Threads, RegisterFails(t) PROVE RecordsInv'
  BY <1>31 DEF RegisterFails, Goto, CallEnds
<1>32. ASSUME NEW t \in Threads, Enqueued(t) PROVE RecordsInv'
  BY <1>32 DEF Enqueued, Goto
<1>33. ASSUME NEW t \in Threads, DestructorLocks(t) PROVE RecordsInv'
  BY <1>33 DEF DestructorLocks, Goto
<1>34. ASSUME NEW t \in Threads, DestructorReturns(t) PROVE RecordsInv'
  BY <1>34 DEF DestructorReturns, Goto, CallEnds
<1>35. ASSUME NEW t \in Threads, ForcedRetire(t) PROVE RecordsInv'
  BY <1>35 DEF ForcedRetire, RetireHead
<1>36. ASSUME NEW t \in Threads, NEW r \in Regions, ConstructEmpty(t, r) PROVE RecordsInv'
  BY <1>36 DEF ConstructEmpty, Running, TearingDown
<1>37. QED
  BY <1>1, <1>2, <1>3, <1>4, <1>5, <1>6, <1>7, <1>8, <1>9, <1>10, <1>11, <1>12,
     <1>13, <1>14, <1>15, <1>16, <1>17, <1>18, <1>19, <1>20, <1>21, <1>22, <1>23,
     <1>24, <1>25, <1>26, <1>27, <1>28, <1>29, <1>30, <1>31, <1>32, <1>33, <1>34,
     <1>35, <1>36
     DEF Next, Call, ThreadStep, InitStep, RegionStep, TeardownStep, DrainStep

\* Steps that leave the ring and its blocks as they are, and every region up that is.
LEMMA SameRegionsKeepRing ==
  ASSUME TypeOK, RingInv, UNCHANGED <<block, queue>>, slots => slots',
         \A r \in Regions : region[r] \in {"up", "destroying"} => region'[r] = region[r]
  PROVE  RingInv'
  BY SlotBlocks, BlocksAssumption DEF RingInv

\* m_Tail's fetch_add: a region that is up has a ring to enqueue to.
LEMMA ClaimKeepsRing ==
  ASSUME IInv, NEW t \in Threads, NEW b \in Blocks, block[b] = "held",
         UNCHANGED <<region, slots>>, block' = [block EXCEPT ![b] = "retired"],
         slots => queue' = Append(queue, [block |-> b, writer |-> t])
  PROVE  RingInv'
<1>1. region[RegionOf[b]] = "up" /\ RegionOf[b] \in Regions
  BY BlocksAssumption DEF IInv, RingInv
<1>2. slots
  <2>1. \A u \in Threads : pc[u] \notin TearPoints
    BY <1>1, NoRegionUp DEF IInv
  <2>2. QED
    BY <1>1, <2>1 DEF IInv, RegionsInv, PhaseInv, Standing, Down
<1> DEFINE n == [block |-> b, writer |-> t]
           last == Len(queue) + 1
<1>3. n \in Slot /\ n.block = b
  BY DEF Slot
<1> HIDE DEF n
<1>4. /\ queue'[last] = n /\ DOMAIN queue' = DOMAIN queue \union {last}
      /\ \A i \in DOMAIN queue : queue'[i] = queue[i]
      /\ last \notin DOMAIN queue
  BY <1>2, <1>3, AppendSlot DEF n, IInv, TypeOK
<1> HIDE DEF last
<1>5. \A i \in DOMAIN queue : queue[i].block # b
  BY DEF IInv, RingInv
<1>6. \A c \in Blocks : c # b => block'[c] = block[c]
  BY DEF IInv, TypeOK
<1>7. block'[b] = "retired"
  BY DEF IInv, TypeOK
<1>8. \A c \in Blocks : block'[c] = "held" => region'[RegionOf[c]] = "up"
  BY <1>6, <1>7 DEF IInv, RingInv
<1>9. \A c \in Blocks : block'[c] = "retired" <=> \E i \in DOMAIN queue' : queue'[i].block = c
  BY <1>3, <1>4, <1>5, <1>6, <1>7 DEF IInv, RingInv
<1>10. \A i, j \in DOMAIN queue' : queue'[i].block = queue'[j].block => i = j
  BY <1>3, <1>4, <1>5 DEF IInv, RingInv
<1>11. \A i \in DOMAIN queue' :
         queue'[i].writer # Null => region'[RegionOf[queue'[i].block]] = "up"
  BY <1>1, <1>3, <1>4 DEF IInv, RingInv
<1>12. QED
  BY <1>1, <1>2, <1>8, <1>9, <1>10, <1>11 DEF RingInv

\* A block is given back with its only slot.
LEMMA RetireKeepsRing ==
  ASSUME TypeOK, RingInv, RetireHead, UNCHANGED <<region, slots>>
  PROVE  RingInv'
<1> DEFINE b == queue[1].block
<1>1. /\ queue # <<>> /\ 1 \in DOMAIN queue /\ Head(queue) = queue[1]
      /\ queue' = Tail(queue) /\ block' = [block EXCEPT ![b] = "free"] /\ slots
  BY TailSlots DEF RetireHead, HeadPublished, TypeOK
<1>2. b \in Blocks
  BY <1>1, SlotBlocks
<1>3. \A i \in DOMAIN queue' :
        queue'[i] = queue[i + 1] /\ i + 1 \in DOMAIN queue /\ i \in Nat /\ i + 1 # 1
  BY <1>1, TailSlots DEF TypeOK
<1>4. \A i \in DOMAIN queue : i # 1 => i - 1 \in DOMAIN queue' /\ queue'[i - 1] = queue[i]
  <2>1. \A i \in DOMAIN queue : i \in Nat /\ (i - 1) + 1 = i
    BY DEF TypeOK
  <2>2. QED
    BY <1>1, <1>3, <2>1, TailSlots DEF TypeOK
<1> HIDE DEF b
<1>5. \A i \in DOMAIN queue : i # 1 => queue[i].block # b
  BY <1>1 DEF RingInv, b
<1>6. block'[b] = "free" /\ \A c \in Blocks : c # b => block'[c] = block[c]
  BY <1>1, <1>2 DEF TypeOK
<1>7. \A c \in Blocks : block'[c] = "held" => region'[RegionOf[c]] = "up"
  BY <1>6 DEF RingInv
<1>8. ASSUME NEW c \in Blocks
      PROVE  block'[c] = "retired" <=> \E i \in DOMAIN queue' : queue'[i].block = c
  <2>1. CASE c = b
    BY <1>3, <1>5, <1>6, <2>1
  <2>2. CASE c # b
    <3>1. block[c] = "retired" <=> \E i \in DOMAIN queue : queue[i].block = c
      BY DEF RingInv
    <3>2. \A i \in DOMAIN queue : queue[i].block = c => i # 1
      BY <2>2 DEF b
    <3>3. QED
      BY <1>3, <1>4, <1>6, <2>2, <3>1, <3>2
  <2>3. QED
    BY <2>1, <2>2
<1>9. \A i, j \in DOMAIN queue' : queue'[i].block = queue'[j].block => i = j
  BY <1>3 DEF RingInv
<1>10. \A i \in DOMAIN queue' :
         queue'[i].writer # Null => region'[RegionOf[queue'[i].block]] = "up"
  BY <1>3 DEF RingInv
<1>11. QED
  BY <1>1, <1>7, <1>8, <1>9, <1>10 DEF RingInv

LEMMA RingStep ==
  ASSUME IInv, [Next]_vars
  PROVE  RingInv'
<1> USE DEF IInv, TypeOK, RingInv, RegionsInv, PhaseInv, Standing, Down, InitPoints,
            LeavePoints, TearPoints, zoneVars, memoryVars, flagVars, regionVars,
            quarantineVars, processVars
<1>1. ASSUME NEW t \in Threads, InitShadowzone(t) PROVE RingInv'
  BY <1>1 DEF InitShadowzone, Goto, Running, TearingDown
<1>2. ASSUME NEW t \in Threads, AlreadyInitialized(t) PROVE RingInv'
  <2>1. UNCHANGED <<block, queue, slots, region>>
    BY <1>2, InitSucceeds DEF AlreadyInitialized
  <2>2. QED
    BY <2>1, SameRegionsKeepRing
<1>3. ASSUME NEW t \in Threads, Reserve(t) PROVE RingInv'
  BY <1>3 DEF Reserve, Goto
<1>4. ASSUME NEW t \in Threads, ReserveFails(t) PROVE RingInv'
  <2>1. /\ UNCHANGED <<block, queue, slots>>
        /\ \A r \in Regions : region[r] \in {"up", "destroying"} => region'[r] = region[r]
    BY <1>4, InitFails DEF ReserveFails
  <2>2. QED
    BY <2>1, SameRegionsKeepRing
<1>5. ASSUME NEW t \in Threads, AllocateTables(t) PROVE RingInv'
  BY <1>5, SameRegionsKeepRing DEF AllocateTables
<1>6. ASSUME NEW t \in Threads, AllocateTablesFails(t) PROVE RingInv'
  <2>1. queue = <<>>
    BY <1>6 DEF AllocateTablesFails, Rising
  <2>2. /\ UNCHANGED <<block, queue>>
        /\ \A r \in Regions : region'[r] = "up" <=> region[r] = "up"
    BY <1>6, InitFails DEF AllocateTablesFails
  <2>3. QED
    BY <2>1, <2>2, BlocksAssumption
<1>7. ASSUME NEW t \in Threads, Publish(t) PROVE RingInv'
  BY <1>7 DEF Publish, Goto
<1>8. ASSUME NEW t \in Threads, StartDrain(t) PROVE RingInv'
  <2>1. UNCHANGED <<block, queue, slots, region>>
    BY <1>8, InitSucceeds DEF StartDrain
  <2>2. QED
    BY <2>1, SameRegionsKeepRing
<1>9. ASSUME NEW t \in Threads, Carve(t) PROVE RingInv'
  BY <1>9 DEF Carve, Goto
<1>10. ASSUME NEW t \in Threads, CarveFails(t) PROVE RingInv'
  <2>1. arg[t] \in Regions /\ region[arg[t]] = "constructing"
    BY <1>10 DEF CarveFails, CallsInv
  <2>2. UNCHANGED <<block, queue, slots>> /\ region' = [region EXCEPT ![arg[t]] = "failed"]
    BY <1>10 DEF CarveFails, CallEnds
  <2>3. QED
    BY <2>1, <2>2, SameRegionsKeepRing
<1>11. ASSUME NEW t \in Threads, RegisterRegion(t) PROVE RingInv'
  <2>1. arg[t] \in Regions /\ region[arg[t]] = "constructing"
    BY <1>11 DEF RegisterRegion, CallsInv
  <2>2. UNCHANGED <<block, queue, slots>> /\ region' = [region EXCEPT ![arg[t]] = "up"]
    BY <1>11 DEF RegisterRegion, CallEnds
  <2>3. QED
    BY <2>1, <2>2, SameRegionsKeepRing
<1>12. ASSUME NEW t \in Threads, Teardown(t) PROVE RingInv'
  BY <1>12 DEF Teardown, Goto
<1>13. ASSUME NEW t \in Threads, StopDrain(t) PROVE RingInv'
  BY <1>13 DEF StopDrain, Goto
<1>14. ASSUME NEW t \in Threads, Join(t) PROVE RingInv'
  BY <1>14 DEF Join, Goto
<1>15. ASSUME NEW t \in Threads, FlushForced(t) PROVE RingInv'
  BY <1>15 DEF FlushForced, Goto
<1>16. ASSUME NEW t \in Threads, ShutdownQueue(t) PROVE RingInv'
  <2>1. queue = <<>>
    <3>1. \A r \in Regions : region[r] = "none"
      BY <1>16 DEF ShutdownQueue
    <3>2. QED
      BY <3>1
  <2>2. UNCHANGED <<block, region>> /\ queue' = <<>>
    BY <1>16 DEF ShutdownQueue
  <2>3. QED
    BY <2>1, <2>2
<1>17. ASSUME NEW t \in Threads, ShutdownRegionTable(t) PROVE RingInv'
  BY <1>17 DEF ShutdownRegionTable, Goto
<1>18. ASSUME NEW t \in Threads, ReleaseZones(t) PROVE RingInv'
  BY <1>18 DEF ReleaseZones, Goto, Unmap
<1>19. ASSUME NEW t \in Threads, Cleared(t) PROVE RingInv'
  BY <1>19 DEF Cleared, Goto, ForgetZones
<1>20. ASSUME NEW t \in Threads, NEW r \in Regions, ConstructRegion(t, r) PROVE RingInv'
  <2>1. /\ region[r] = "none" /\ region' = [region EXCEPT ![r] = "constructing"]
        /\ UNCHANGED <<block, queue, slots>>
    BY <1>20 DEF ConstructRegion
  <2>2. QED
    BY <2>1, SameRegionsKeepRing
<1>21. ASSUME NEW t \in Threads, NEW r \in Regions, DestroyRegion(t, r) PROVE RingInv'
  <2>1. /\ region' = [region EXCEPT ![r] = "destroying"]
        /\ UNCHANGED <<block, queue, slots>> /\ Unused(r)
    BY <1>21 DEF DestroyRegion
  <2>2. \A b \in Blocks : block[b] = "held" => region'[RegionOf[b]] = "up"
    BY <2>1, BlocksAssumption DEF Unused
  <2>3. \A i \in DOMAIN queue :
          queue[i].writer # Null => region'[RegionOf[queue[i].block]] = "up"
    BY <2>1, SlotBlocks DEF Unused
  <2>4. ASSUME NEW q \in Regions, region[q] \in {"up", "destroying"}
        PROVE  region'[q] \in {"up", "destroying"}
    BY <2>1, <2>4
  <2>5. QED
    BY <2>1, <2>2, <2>3, <2>4
<1>22. ASSUME NEW t \in Threads, NEW b \in Blocks, Allocate(t, b) PROVE RingInv'
  BY <1>22 DEF Allocate, Running, TearingDown, Touch
<1>23. ASSUME NEW t \in Threads, NEW b \in Blocks, Destroy(t, b) PROVE RingInv'
  <2>1. /\ block[b] = "held" /\ region' = region /\ slots' = slots
        /\ block' = [block EXCEPT ![b] = "retired"]
        /\ slots => queue' = Append(queue, [block |-> b, writer |-> t])
    BY <1>23 DEF Destroy, Claim
  <2> HIDE DEF IInv, TypeOK, RingInv, RegionsInv, PhaseInv, Standing, Down
  <2>2. QED
    BY <2>1, ClaimKeepsRing
<1>24. CASE DrainLoop
  BY <1>24 DEF DrainLoop
<1>25. CASE DrainLock
  BY <1>25 DEF DrainLock
<1>26. CASE DrainFlushed
  BY <1>26 DEF DrainFlushed
<1>27. CASE MainReturns
  BY <1>27 DEF MainReturns
<1>28. CASE DrainRetire
  <2>1. RetireHead /\ UNCHANGED <<region, slots>>
    BY <1>28 DEF DrainRetire
  <2>2. QED
    BY <2>1, RetireKeepsRing
<1>29. ASSUME NEW t \in Threads, NEW b \in Blocks, DestroyStatic(t, b) PROVE RingInv'
  <2>1. /\ block[b] = "held" /\ region' = region /\ slots' = slots
        /\ block' = [block EXCEPT ![b] = "retired"]
        /\ slots => queue' = Append(queue, [block |-> b, writer |-> t])
    BY <1>29 DEF DestroyStatic, Claim
  <2> HIDE DEF IInv, TypeOK, RingInv, RegionsInv, PhaseInv, Standing, Down
  <2>2. QED
    BY <2>1, ClaimKeepsRing
<1>30. CASE UNCHANGED vars
  BY <1>30 DEF vars
<1>31. ASSUME NEW t \in Threads, RegisterFails(t) PROVE RingInv'
  <2>1. arg[t] \in Regions /\ region[arg[t]] = "constructing"
    BY <1>31 DEF RegisterFails, CallsInv
  <2>2. UNCHANGED <<block, queue, slots>> /\ region' = [region EXCEPT ![arg[t]] = "failed"]
    BY <1>31 DEF RegisterFails, CallEnds
  <2>3. QED
    BY <2>1, <2>2, SameRegionsKeepRing
<1>32. ASSUME NEW t \in Threads, Enqueued(t) PROVE RingInv'
  <2>1. /\ UNCHANGED <<block, region, slots>>
        /\ queue' = [i \in DOMAIN queue |->
                       IF queue[i].writer = t THEN [queue[i] EXCEPT !.writer = Null]
                                              ELSE queue[i]]
    BY <1>32 DEF Enqueued
  <2>2. ASSUME NEW i \in DOMAIN queue
        PROVE  queue'[i].block = queue[i].block /\ (queue'[i].writer # Null => queue[i].writer # Null)
    <3>1. queue[i] \in Slot
      BY SlotBlocks
    <3>2. QED
      BY <2>1, <3>1 DEF Slot
  <2>3. DOMAIN queue' = DOMAIN queue
    BY <2>1
  <2>4. queue # <<>> => slots /\ \E r \in Regions : region[r] \in {"up", "destroying"}
    OBVIOUS
  <2>5. queue' # <<>> => queue # <<>>
    BY <2>3, PublishType, <1>32
  <2>6. QED
    BY <2>1, <2>2, <2>3, <2>4, <2>5
<1>33. ASSUME NEW t \in Threads, DestructorLocks(t) PROVE RingInv'
  BY <1>33 DEF DestructorLocks, Goto
<1>34. ASSUME NEW t \in Threads, DestructorReturns(t) PROVE RingInv'
  <2>1. arg[t] \in Regions /\ region[arg[t]] = "destroying" /\ ForcedEnds
    BY <1>34 DEF DestructorReturns, CallsInv
  <2>2. UNCHANGED <<block, queue, slots>> /\ region' = [region EXCEPT ![arg[t]] = "none"]
    BY <1>34 DEF DestructorReturns, CallEnds
  <2>3. \A r \in Regions : region[r] = "up" => region'[r] = "up"
    BY <2>1, <2>2
  <2>4. ASSUME queue # <<>> PROVE \E r \in Regions : region[r] = "up"
    <3>1. 1 \in DOMAIN queue /\ Head(queue) = queue[1]
      BY <2>4, TailSlots
    <3>2. queue[1].writer # Null
      BY <2>1, <2>4, <3>1 DEF ForcedEnds, HeadPublished
    <3>3. RegionOf[queue[1].block] \in Regions
      BY <3>1, SlotBlocks
    <3>4. QED
      BY <3>1, <3>2, <3>3
  <2>5. QED
    BY <2>2, <2>3, <2>4, SlotBlocks, BlocksAssumption
<1>35. ASSUME NEW t \in Threads, ForcedRetire(t) PROVE RingInv'
  <2>1. RetireHead /\ UNCHANGED <<region, slots>>
    BY <1>35 DEF ForcedRetire
  <2>2. QED
    BY <2>1, RetireKeepsRing
<1>36. ASSUME NEW t \in Threads, NEW r \in Regions, ConstructEmpty(t, r) PROVE RingInv'
  <2>1. /\ region[r] = "none" /\ region' = [region EXCEPT ![r] = "failed"]
        /\ UNCHANGED <<block, queue, slots>>
    BY <1>36 DEF ConstructEmpty
  <2>2. QED
    BY <2>1, SameRegionsKeepRing
<1>37. QED
  BY <1>1, <1>2, <1>3, <1>4, <1>5, <1>6, <1>7, <1>8, <1>9, <1>10, <1>11, <1>12,
     <1>13, <1>14, <1>15, <1>16, <1>17, <1>18, <1>19, <1>20, <1>21, <1>22, <1>23,
     <1>24, <1>25, <1>26, <1>27, <1>28, <1>29, <1>30, <1>31, <1>32, <1>33, <1>34,
     <1>35, <1>36
     DEF Next, Call, ThreadStep, InitStep, RegionStep, TeardownStep, DrainStep

-----------------------------------------------------------------------------
LEMMA InitInv == Documented /\ Init => IInv
<1> SUFFICES ASSUME Documented, Init PROVE IInv
  OBVIOUS
<1>1. TypeOK
  <2>1. ZonesType /\ FlagsType
    BY Bounds DEF Init, ZonesType, FlagsType
  <2>2. RecordsType
    BY Bounds, NoRecords DEF Init, RecordsType
  <2>3. ControlType /\ RingType
    BY DEF Init, ControlType, RingType, NoArea, Area, Slot
  <2>4. QED
    BY <2>1, <2>2, <2>3, TypeParts
<1>2. PhaseInv
  BY NullAssumption DEF Init, PhaseInv, Down, Critical, TearPoints
<1>3. CallsInv
  BY DEF Init, CallsInv, LeavePoints
<1>4. RegionsInv
  BY DEF Init, RegionsInv
<1>5. RecordsInv /\ RingInv
  BY DEF Init, RecordsInv, RingInv
<1>6. QED
  BY <1>1, <1>2, <1>3, <1>4, <1>5 DEF IInv

LEMMA InvStep == IInv /\ [Next]_vars => IInv'
<1> SUFFICES ASSUME IInv, [Next]_vars PROVE IInv'
  OBVIOUS
<1>1. Documented'
  BY DEF IInv, Documented
<1>2. QED
  BY <1>1, TypeStep, PhaseStep, CallsStep, RegionsStep, RecordsStep, RingStep
     DEF IInv

\* IInv is inductive.
THEOREM RuntimeInductive == Documented /\ Spec => []IInv
  BY InitInv, InvStep, PTL DEF Spec

\* Every variable has its type, and the table of regions never has more records
\* than it was allocated for (RegionRecord.cpp:75-90).
THEOREM RuntimeTypeCorrect == Documented /\ Spec => []TypeOK
<1>1. IInv => TypeOK
  BY DEF IInv
<1>2. QED
  BY <1>1, RuntimeInductive, PTL

\* Whatever calls of init and teardown come before, whoever uses the zones or the
\* ring of the runtime finds them there (KerbecsRuntime.cpp:48-79).
THEOREM UsersAreMapped == Documented /\ Spec => []UsersMapped
<1>1. ASSUME IInv PROVE UsersMapped
  <2>1. ASSUME NEW r \in Regions, region[r] = "up"
        PROVE  area[r].zone = mapped /\ mapped # 0
    <3>1. area[r].zone = mapped /\ records # <<>>
      BY <1>1, <2>1, NoRecords DEF IInv, RegionsInv
    <3>2. QED
      BY <1>1, <3>1 DEF IInv, RecordsInv
  <2>2. ASSUME drain = "flush" PROVE slots
    <3>1. CASE \E t \in Threads : pc[t] \in Critical
      BY <1>1, <2>2, <3>1 DEF IInv, PhaseInv, Critical, Rising
    <3>2. CASE \E t \in Threads : pc[t] \in TearPoints
      BY <1>1, <2>2, <3>2 DEF IInv, PhaseInv, TearPoints, Joined, Standing, Down
    <3>3. CASE \A t \in Threads : pc[t] \notin Critical /\ pc[t] \notin TearPoints
      <4>1. initMutex = Null
        BY <1>1, <3>3 DEF IInv, PhaseInv, TypeOK
      <4>2. QED
        BY <1>1, <2>2, <3>3, <4>1 DEF IInv, PhaseInv, Standing, Down
    <3>4. QED
      BY <3>1, <3>2, <3>3
  <2>3. \A i \in DOMAIN records : records[i].area.zone = mapped
    BY <1>1 DEF IInv, RecordsInv
  <2>4. QED
    BY <2>1, <2>2, <2>3 DEF UsersMapped
<1>2. IInv => UsersMapped
  BY <1>1
<1>3. QED
  BY <1>2, RuntimeInductive, PTL

\* Between calls the runtime is up or down and nothing in between, after any
\* failures and restarts, and no init starts a second drain thread
\* (KerbecsRuntime.cpp:85-150).
THEOREM AlwaysUpOrDown == Documented /\ Spec => []UpOrDown
<1>1. ASSUME IInv PROVE UpOrDown
  <2>1. \A t \in Threads : pc[t] = "start" => drain = "none"
    BY <1>1 DEF IInv, PhaseInv, Rising
  <2>2. ASSUME \A t \in Threads : pc[t] = "idle"
        PROVE  IF initialized
               THEN /\ zone = mapped /\ zone # 0 /\ slots /\ table
                    /\ ~ shutdown /\ drainRunning /\ drain \notin {"none", "exit"}
               ELSE /\ zone = 0 /\ mapped = 0 /\ ~ slots /\ ~ table /\ records = <<>>
                    /\ ~ drainRunning /\ drain = "none"
    <3>1. initMutex = Null
      BY <1>1, <2>2 DEF IInv, PhaseInv, TypeOK, Critical
    <3>2. \A t \in Threads : pc[t] \notin TearPoints
      BY <2>2 DEF TearPoints
    <3>3. (Standing /\ ~ shutdown /\ drainRunning /\ Draining) \/ Down
      BY <1>1, <3>1, <3>2 DEF IInv, PhaseInv
    <3>4. QED
      BY <3>3 DEF Standing, Draining, Down
  <2>3. QED
    BY <2>1, <2>2 DEF UpOrDown
<1>2. IInv => UpOrDown
  BY <1>1
<1>3. QED
  BY <1>2, RuntimeInductive, PTL

\* No block is lost: it is in one slot of the ring from its destruction until it
\* is given back, and the last of the regions leaves the ring empty, so that
\* nothing goes with it (KerbecsRuntime.cpp:60-61, Region.h:70-74,
\* QuarantineQueue.cpp:115-139).
THEOREM NothingIsLost == Documented /\ Spec => []NothingLost
<1>1. IInv => NothingLost
  BY DEF IInv, RingInv, NothingLost
<1>2. QED
  BY <1>1, RuntimeInductive, PTL

\* An address in a region that is up resolves to the record of that region, or to
\* an older one of its range when it has been registered before in this life of
\* the runtime, and always to maps that are mapped (RegionRecord.cpp:64-113).
THEOREM ResolvesToOwner == Documented /\ Spec => []ResolveFindsOwner
<1>1. ASSUME IInv, NEW r \in Regions, region[r] = "up"
      PROVE  /\ table /\ \E i \in Matching(r) : records[i].area = area[r]
             /\ ResolveRegion(r).region = r /\ ResolveRegion(r).area.zone = mapped
             /\ \/ ResolveRegion(r).area = area[r]
                \/ \E i \in Matching(r) : records[i].area # area[r]
  <2>1. PICK i \in DOMAIN records : records[i].region = r /\ records[i].area = area[r]
    BY <1>1 DEF IInv, RegionsInv
  <2>2. PICK k \in DOMAIN records :
          /\ records[k].region = r
          /\ \A j \in DOMAIN records : records[j].region = r => k <= j
    BY <1>1, <2>1 DEF IInv, RecordsInv
  <2>3. k \in Matching(r) /\ \A j \in Matching(r) : k <= j
    BY <2>2 DEF Matching
  <2> DEFINE first == CHOOSE m \in Matching(r) : \A j \in Matching(r) : m <= j
  <2>4. first \in Matching(r)
    BY <2>3
  <2> HIDE DEF first
  <2>5. table
    <3>1. initialized /\ initMutex = Null
      BY <1>1 DEF IInv, RegionsInv
    <3>2. \A t \in Threads : pc[t] \notin TearPoints
      BY <1>1, NoRegionUp DEF IInv
    <3>3. QED
      BY <1>1, <3>1, <3>2 DEF IInv, PhaseInv, Standing, Down
  <2>6. ResolveRegion(r) = records[first]
    BY <2>4, <2>5 DEF ResolveRegion, first
  <2>7. first \in DOMAIN records /\ records[first].region = r
    BY <2>4 DEF Matching
  <2>8. records[first].area.zone = mapped
    BY <1>1, <2>7 DEF IInv, RecordsInv
  <2>9. i \in Matching(r)
    BY <2>1 DEF Matching
  <2>10. \/ records[first].area = area[r]
         \/ \E j \in Matching(r) : records[j].area # area[r]
    BY <2>4
  <2>11. QED
    BY <2>1, <2>5, <2>6, <2>7, <2>8, <2>9, <2>10
<1>2. IInv => ResolveFindsOwner
  BY <1>1 DEF ResolveFindsOwner
<1>3. QED
  BY <1>2, RuntimeInductive, PTL
=============================================================================
