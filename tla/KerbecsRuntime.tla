---------------------------- MODULE KerbecsRuntime ----------------------------
(***************************************************************************)
(* The life of the process-wide runtime (KerbecsRuntime.cpp): init() under *)
(* its mutex, teardownShadowzone(), the drain thread, and what depends on  *)
(* them: the constructor and destructor of Region (Region.h:27-74), the    *)
(* table of regions (RegionRecord.cpp) and the static objects of           *)
(* KerbecsStatic.h, which are destroyed when main has returned.            *)
(*                                                                         *)
(* The quarantine is an unbounded queue of slots here, claimed and then    *)
(* published, and a registry is not seen at all: QuarantineQueue and       *)
(* AllocationRegistry have the detail.                                     *)
(***************************************************************************)
EXTENDS Integers, Sequences

CONSTANTS
  Threads,        \* threads of the program
  Regions,        \* Region objects, each with a range of memory of its own
  Statics,        \* those that persistentRegion() and globalRegion() hold
  Spared,         \* regions a program does not destroy before its teardown
  Blocks,         \* blocks the regions' allocators give out
  RegionOf,       \* RegionOf[b]: the region b is allocated from
  TableCapacity,  \* REGION_TABLE_CAPACITY
  ZoneAreas,      \* regions whose maps fit into the zones
  MappingBound,   \* bound: how often the zones are reserved
  Null

ASSUME RegionsAssumption == Statics \subseteq Regions /\ Spared \subseteq Regions
ASSUME BlocksAssumption  == RegionOf \in [Blocks -> Regions]
ASSUME BoundsAssumption  == {TableCapacity, ZoneAreas, MappingBound} \subseteq Nat
ASSUME NullAssumption    == Null \notin Threads \union Regions

VARIABLES
  zone,           \* m_MemoryZone and its parts: which reservation they point to, 0 for none
  mapped,         \* the reservation that is mapped, 0 for none
  mappings,       \* reservations made so far
  carved,         \* areas given out by the bump allocators of the zones
  slots,          \* m_Slots of the quarantine is allocated
  table,          \* s_Records is allocated
  records,        \* the first s_Count records
  initialized,    \* m_Initialized
  shutdown,       \* m_Shutdown
  drainRunning,   \* m_DrainRunning
  drain,          \* control point of the drain thread; "none": m_DrainThread is not joinable
  initMutex,      \* who holds s_InitMutex
  region,         \* region[r]: the Region object
  area,           \* area[r]: where the maps of a region object are, or were
  block,          \* block[b]: free, held by the program, or retired by a destroy
  queue,          \* the slots from m_Head to m_Tail: a block, and the thread that has
                  \* claimed the slot for it and not published it yet
  exited,         \* main has returned
  fault,          \* somebody has touched a zone that is not mapped
  pc,             \* control point of each thread
  arg             \* arg[t]: the region whose constructor or destructor t runs

zoneVars == <<zone, mapped, mappings, carved>>
memoryVars == <<slots, table, records>>
flagVars == <<initialized, shutdown, drainRunning>>
regionVars == <<region, area>>
quarantineVars == <<block, queue>>
processVars == <<exited, fault>>
vars == <<zoneVars, memoryVars, flagVars, drain, initMutex, regionVars,
          quarantineVars, processVars, pc, arg>>

NoArea == [zone |-> 0, index |-> 0]

Init ==
  /\ zone = 0 /\ mapped = 0 /\ mappings = 0 /\ carved = 0
  /\ slots = FALSE /\ table = FALSE /\ records = <<>>
  /\ initialized = FALSE /\ shutdown = FALSE /\ drainRunning = FALSE
  /\ drain = "none"
  /\ initMutex = Null
  /\ region = [r \in Regions |-> "none"]
  /\ area   = [r \in Regions |-> NoArea]
  /\ block  = [b \in Blocks |-> "free"]
  /\ queue = <<>>
  /\ exited = FALSE /\ fault = FALSE
  /\ pc  = [t \in Threads |-> "idle"]
  /\ arg = [t \in Threads |-> Null]

Goto(t, label) == pc' = [pc EXCEPT ![t] = label]

TearPoints == {"stop", "join", "flush", "queueDown", "tableDown", "release", "clear"}

\* How README.md:82-94 asks programs to use the runtime: nobody else is inside
\* it or enters it during a teardown.
TearingDown == \E t \in Threads : pc[t] \in TearPoints
Running == ~ exited /\ ~ TearingDown

\* Memory::release and the pointers to what it unmaps.
Unmap == mapped' = 0
ForgetZones == zone' = 0

-----------------------------------------------------------------------------
(* init *)

\* init() has returned ok to t: the end, unless a constructor called it.
InitReturns(t, ok) ==
  /\ Goto(t, IF ok /\ arg[t] # Null THEN "carve" ELSE "idle")
  /\ region' = [r \in Regions |-> IF r = arg[t] /\ ~ ok THEN "failed" ELSE region[r]]
  /\ arg' = IF ok THEN arg ELSE [arg EXCEPT ![t] = Null]

InitShadowzone(t) ==
  /\ Running
  /\ pc[t] = "idle"
  /\ Goto(t, "init")
  /\ UNCHANGED <<zoneVars, memoryVars, flagVars, drain, initMutex, regionVars,
                 quarantineVars, processVars, arg>>

AlreadyInitialized(t) ==
  /\ pc[t] = "init"
  /\ initMutex = Null
  /\ initialized
  /\ InitReturns(t, TRUE)
  /\ UNCHANGED <<zoneVars, memoryVars, flagVars, drain, initMutex, area,
                 quarantineVars, processVars>>

\* The mutex is taken and the zones are reserved; the bump allocators start over.
Reserve(t) ==
  /\ pc[t] = "init"
  /\ initMutex = Null
  /\ ~ initialized
  /\ mappings < MappingBound
  /\ initMutex' = t
  /\ mappings' = mappings + 1
  /\ zone' = mappings + 1
  /\ mapped' = mappings + 1
  /\ carved' = 0
  /\ Goto(t, "allocate")
  /\ UNCHANGED <<memoryVars, flagVars, drain, regionVars, quarantineVars, processVars,
                 arg>>

\* reserveAt has found no room, at the hint or elsewhere.
ReserveFails(t) ==
  /\ pc[t] = "init"
  /\ initMutex = Null
  /\ ~ initialized
  /\ InitReturns(t, FALSE)
  /\ UNCHANGED <<zoneVars, memoryVars, flagVars, drain, initMutex, area,
                 quarantineVars, processVars>>

\* The ring and the table are allocated; a table that is there already is kept.
AllocateTables(t) ==
  /\ pc[t] = "allocate"
  /\ slots' = TRUE
  /\ table' = TRUE
  /\ Goto(t, "publish")
  /\ UNCHANGED <<zoneVars, records, flagVars, drain, initMutex, regionVars,
                 quarantineVars, processVars, arg>>

\* Mutant: the error path forgets the ring that was allocated.
AllocateTablesLeaks(t) ==
  /\ pc[t] = "allocate"
  /\ slots' = TRUE
  /\ table' = FALSE /\ records' = <<>>
  /\ Unmap /\ ForgetZones
  /\ shutdown' = FALSE /\ initialized' = FALSE
  /\ initMutex' = Null
  /\ InitReturns(t, FALSE)
  /\ UNCHANGED <<mappings, carved, drainRunning, drain, area, quarantineVars,
                 processVars>>

\* One of them is not: everything is undone.
AllocateTablesFails(t) ==
  /\ pc[t] = "allocate"
  /\ slots' = FALSE
  /\ table' = FALSE /\ records' = <<>>
  /\ Unmap /\ ForgetZones
  /\ shutdown' = FALSE /\ initialized' = FALSE
  /\ initMutex' = Null
  /\ InitReturns(t, FALSE)
  /\ UNCHANGED <<mappings, carved, drainRunning, drain, area, quarantineVars,
                 processVars>>

\* m_Initialized is set before there is a drain thread ...
Publish(t) ==
  /\ pc[t] = "publish"
  /\ shutdown' = FALSE
  /\ initialized' = TRUE
  /\ Goto(t, "start")
  /\ UNCHANGED <<zoneVars, memoryVars, drainRunning, drain, initMutex, regionVars,
                 quarantineVars, processVars, arg>>

\* ... which the end of the critical section starts.
StartDrain(t) ==
  /\ pc[t] = "start"
  /\ drainRunning' = TRUE
  /\ drain' = "loop"
  /\ initMutex' = Null
  /\ InitReturns(t, TRUE)
  /\ UNCHANGED <<zoneVars, memoryVars, initialized, shutdown, area, quarantineVars,
                 processVars>>

-----------------------------------------------------------------------------
(* _drainLoop *)

\* Mutant: the loop is not left.
DrainForever ==
  /\ drain = "loop"
  /\ drain' = "tick"
  /\ UNCHANGED <<zoneVars, memoryVars, flagVars, initMutex, regionVars,
                 quarantineVars, processVars, pc, arg>>

\* The loop condition, which is checked before the interval and after it; then
\* the epoch moves on and the thread calls flushEligible.
DrainLoop ==
  /\ drain = "loop"
  /\ drain' = IF drainRunning THEN "tick" ELSE "exit"
  /\ UNCHANGED <<zoneVars, memoryVars, flagVars, initMutex, regionVars,
                 quarantineVars, processVars, pc, arg>>

\* Who has m_FlushLock.
LockFree == drain # "flush" /\ \A t \in Threads : pc[t] \notin {"flush", "leave"}

DrainLock ==
  /\ drain = "tick"
  /\ LockFree
  /\ drain' = "flush"
  /\ UNCHANGED <<zoneVars, memoryVars, flagVars, initMutex, regionVars,
                 quarantineVars, processVars, pc, arg>>

\* The block of the slot at m_Head is there; a flush stops at a slot that is only
\* claimed, whatever has been published behind it.
HeadPublished == queue # <<>> /\ Head(queue).writer = Null

\* _retireSlot, and m_Head moves on.
RetireHead ==
  /\ slots
  /\ HeadPublished
  /\ block' = [block EXCEPT ![Head(queue).block] = "free"]
  /\ queue' = Tail(queue)

\* With m_FlushLock the drain thread retires the blocks that are old enough ...
DrainRetire ==
  /\ drain = "flush"
  /\ RetireHead
  /\ UNCHANGED <<zoneVars, memoryVars, flagVars, drain, initMutex, regionVars,
                 processVars, pc, arg>>

\* ... and stops at the first one that is not.
DrainFlushed ==
  /\ drain = "flush"
  /\ drain' = "loop"
  /\ UNCHANGED <<zoneVars, memoryVars, flagVars, initMutex, regionVars,
                 quarantineVars, processVars, pc, arg>>

\* flushEligible(SIZE_MAX, true) of a teardown or a destructor: it retires what
\* is published, however young, ...
ForcedRetire(t) ==
  /\ pc[t] \in {"flush", "leave"}
  /\ RetireHead
  /\ UNCHANGED <<zoneVars, memoryVars, flagVars, drain, initMutex, regionVars,
                 processVars, pc, arg>>

\* ... as long as there is something.
ForcedEnds == ~ slots \/ ~ HeadPublished

-----------------------------------------------------------------------------
(* teardownShadowzone *)

\* The compare-exchange of m_Shutdown; a call that loses it changes nothing.
Teardown(t) ==
  /\ \A u \in Threads : pc[u] \in {"idle"} \union TearPoints
  /\ \A r \in Regions \ Spared : region[r] = "none"
  /\ pc[t] = "idle"
  /\ ~ shutdown
  /\ shutdown' = TRUE
  /\ Goto(t, "stop")
  /\ UNCHANGED <<zoneVars, memoryVars, initialized, drainRunning, drain, initMutex,
                 regionVars, quarantineVars, processVars, arg>>

StopDrain(t) ==
  /\ pc[t] = "stop"
  /\ drainRunning' = FALSE
  /\ Goto(t, "join")
  /\ UNCHANGED <<zoneVars, memoryVars, initialized, shutdown, drain, initMutex,
                 regionVars, quarantineVars, processVars, arg>>

\* Mutant: the thread is detached.
Detach(t) ==
  /\ pc[t] = "join"
  /\ Goto(t, "flush")
  /\ UNCHANGED <<zoneVars, memoryVars, flagVars, drain, initMutex, regionVars,
                 quarantineVars, processVars, arg>>

Join(t) ==
  /\ pc[t] = "join"
  /\ drain \in {"none", "exit"}
  /\ drain' = "none"
  /\ Goto(t, "flush")
  /\ UNCHANGED <<zoneVars, memoryVars, flagVars, initMutex, regionVars,
                 quarantineVars, processVars, arg>>

FlushForced(t) ==
  /\ pc[t] = "flush"
  /\ ForcedEnds
  /\ Goto(t, "queueDown")
  /\ UNCHANGED <<zoneVars, memoryVars, flagVars, drain, initMutex, regionVars,
                 quarantineVars, processVars, arg>>

\* What is still in the ring is gone with it.
ShutdownQueue(t) ==
  /\ pc[t] = "queueDown"
  /\ slots' = FALSE
  /\ queue' = <<>>
  /\ Goto(t, "tableDown")
  /\ UNCHANGED <<zoneVars, table, records, flagVars, drain, initMutex, regionVars,
                 block, processVars, arg>>

\* Mutant: the table stays for the next init.
KeepRegionTable(t) ==
  /\ pc[t] = "tableDown"
  /\ Goto(t, "release")
  /\ UNCHANGED <<zoneVars, memoryVars, flagVars, drain, initMutex, regionVars,
                 quarantineVars, processVars, arg>>

ShutdownRegionTable(t) ==
  /\ pc[t] = "tableDown"
  /\ table' = FALSE
  /\ records' = <<>>
  /\ Goto(t, "release")
  /\ UNCHANGED <<zoneVars, slots, flagVars, drain, initMutex, regionVars,
                 quarantineVars, processVars, arg>>

ReleaseZones(t) ==
  /\ pc[t] = "release"
  /\ Unmap
  /\ Goto(t, "clear")
  /\ UNCHANGED <<zone, mappings, carved, memoryVars, flagVars, drain, initMutex,
                 regionVars, quarantineVars, processVars, arg>>

Cleared(t) ==
  /\ pc[t] = "clear"
  /\ ForgetZones
  /\ initialized' = FALSE
  /\ Goto(t, "idle")
  /\ UNCHANGED <<mapped, mappings, carved, memoryVars, shutdown, drainRunning, drain,
                 initMutex, regionVars, quarantineVars, processVars, arg>>

-----------------------------------------------------------------------------
(* The region table *)

\* Mutant: the last record of the table is followed by another one.
RoomForTooMany == Len(records) <= TableCapacity

RoomForRecord == Len(records) < TableCapacity

\* resolveRegion of an address in the range of r: the first record that has it.
Matching(r) == {i \in DOMAIN records : records[i].region = r}
ResolveRegion(r) ==
  IF ~ table \/ Matching(r) = {} THEN Null
  ELSE records[CHOOSE i \in Matching(r) : \A j \in Matching(r) : i <= j]

-----------------------------------------------------------------------------
(* Region *)

Touch(r) == fault' = (fault \/ area[r].zone # mapped)

\* The constructor calls init() first.  The range may have been another region's
\* before, in this life of the runtime or an earlier one.
ConstructRegion(t, r) ==
  /\ Running
  /\ pc[t] = "idle"
  /\ region[r] = "none"
  /\ region' = [region EXCEPT ![r] = "constructing"]
  /\ arg' = [arg EXCEPT ![t] = r]
  /\ Goto(t, "init")
  /\ UNCHANGED <<zoneVars, memoryVars, flagVars, drain, initMutex, area,
                 quarantineVars, processVars>>

\* A region of no size or with no registry is never initialized.
ConstructEmpty(t, r) ==
  /\ Running
  /\ pc[t] = "idle"
  /\ region[r] = "none"
  /\ region' = [region EXCEPT ![r] = "failed"]
  /\ UNCHANGED <<zoneVars, memoryVars, flagVars, drain, initMutex, area,
                 quarantineVars, processVars, pc, arg>>

\* shadowzoneAllocate and metadataZoneAllocate, which commits pages.
Carve(t) ==
  /\ pc[t] = "carve"
  /\ carved < ZoneAreas
  /\ carved' = carved + 1
  /\ area' = [area EXCEPT ![arg[t]] = [zone |-> zone, index |-> carved]]
  /\ fault' = (fault \/ zone # mapped)
  /\ Goto(t, "register")
  /\ UNCHANGED <<zone, mapped, mappings, memoryVars, flagVars, drain, initMutex,
                 region, quarantineVars, exited, arg>>

\* The constructor or the destructor that t runs.
CallEnds(t, outcome) ==
  /\ region' = [region EXCEPT ![arg[t]] = outcome]
  /\ arg' = [arg EXCEPT ![t] = Null]
  /\ Goto(t, "idle")

\* The sizes overflow, or a zone is exhausted: what the other zone gave is not
\* given back.
CarveFails(t) ==
  /\ pc[t] = "carve"
  /\ carved' \in {carved, carved + 1} /\ carved' <= ZoneAreas
  /\ CallEnds(t, "failed")
  /\ UNCHANGED <<zone, mapped, mappings, memoryVars, flagVars, drain, initMutex, area,
                 quarantineVars, processVars>>

\* The node pool cannot be allocated, or the table is full.
RegisterFails(t) ==
  /\ pc[t] = "register"
  /\ CallEnds(t, "failed")
  /\ UNCHANGED <<zoneVars, memoryVars, flagVars, drain, initMutex, area,
                 quarantineVars, processVars>>

RegisterRegion(t) ==
  /\ pc[t] = "register"
  /\ table /\ RoomForRecord
  /\ records' = Append(records, [region |-> arg[t], area |-> area[arg[t]]])
  /\ CallEnds(t, "up")
  /\ UNCHANGED <<zoneVars, slots, table, flagVars, drain, initMutex, area,
                 quarantineVars, processVars>>

\* allocate and construct: they write the access record and the shadow map.
\* Static objects are constructed before main, so before any teardown.
Allocate(t, b) ==
  /\ Running
  /\ pc[t] = "idle"
  /\ region[RegionOf[b]] = "up"
  /\ RegionOf[b] \in Statics => area[RegionOf[b]].zone = mapped
  /\ block[b] = "free"
  /\ block' = [block EXCEPT ![b] = "held"]
  /\ Touch(RegionOf[b])
  /\ UNCHANGED <<zoneVars, memoryVars, flagVars, drain, initMutex, regionVars, queue,
                 exited, pc, arg>>

\* destroy, and enqueue with m_Tail's fetch_add; the block is forgotten when
\* there is no ring.
Claim(t, b) ==
  /\ pc[t] = "idle"
  /\ block[b] = "held"
  /\ block' = [block EXCEPT ![b] = "retired"]
  /\ IF slots
     THEN queue' = Append(queue, [block |-> b, writer |-> t]) /\ Goto(t, "enqueue")
     ELSE UNCHANGED <<queue, pc>>
  /\ Touch(RegionOf[b])
  /\ UNCHANGED <<zoneVars, memoryVars, flagVars, drain, initMutex, regionVars,
                 exited, arg>>

Destroy(t, b) ==
  /\ Running
  /\ RegionOf[b] \notin Statics
  /\ Claim(t, b)

\* The slot is filled in and its block stored.
Enqueued(t) ==
  /\ pc[t] = "enqueue"
  /\ queue' = [i \in DOMAIN queue |->
                 IF queue[i].writer = t THEN [queue[i] EXCEPT !.writer = Null]
                                        ELSE queue[i]]
  /\ Goto(t, "idle")
  /\ UNCHANGED <<zoneVars, memoryVars, flagVars, drain, initMutex, regionVars, block,
                 processVars, arg>>

\* No object of r is left, and no call on r has still to return.
Unused(r) ==
  /\ \A b \in Blocks : RegionOf[b] = r => block[b] # "held"
  /\ \A i \in DOMAIN queue : RegionOf[queue[i].block] = r => queue[i].writer = Null

\* ~Region, which begins with a forced flush.
DestroyRegion(t, r) ==
  /\ IF r \in Statics THEN exited /\ \A u \in Threads : pc[u] = "idle" ELSE Running
  /\ pc[t] = "idle"
  /\ region[r] \in {"up", "failed"}
  /\ Unused(r)
  /\ region' = [region EXCEPT ![r] = "destroying"]
  /\ arg' = [arg EXCEPT ![t] = r]
  /\ Goto(t, "lock")
  /\ UNCHANGED <<zoneVars, memoryVars, flagVars, drain, initMutex, area,
                 quarantineVars, processVars>>

DestructorLocks(t) ==
  /\ pc[t] = "lock"
  /\ LockFree
  /\ Goto(t, "leave")
  /\ UNCHANGED <<zoneVars, memoryVars, flagVars, drain, initMutex, regionVars,
                 quarantineVars, processVars, arg>>

\* Mutant: the region leaves its blocks to the drain thread.
DestructorUnflushed(t) ==
  /\ pc[t] = "leave"
  /\ CallEnds(t, "none")
  /\ area' = [area EXCEPT ![arg[t]] = NoArea]
  /\ UNCHANGED <<zoneVars, memoryVars, flagVars, drain, initMutex, quarantineVars,
                 processVars>>

\* The flush ends, with blocks of the region behind a claimed slot or not.
DestructorReturns(t) ==
  /\ pc[t] = "leave"
  /\ ForcedEnds
  /\ CallEnds(t, "none")
  /\ area' = [area EXCEPT ![arg[t]] = NoArea]
  /\ UNCHANGED <<zoneVars, memoryVars, flagVars, drain, initMutex, quarantineVars,
                 processVars>>

-----------------------------------------------------------------------------
(* Static objects *)

MainReturns ==
  /\ Running
  /\ \A t \in Threads : pc[t] = "idle"
  /\ exited' = TRUE
  /\ UNCHANGED <<zoneVars, memoryVars, flagVars, drain, initMutex, regionVars,
                 quarantineVars, fault, pc, arg>>

\* ~KerbecsDestructor: the conversion of the handle reads its access record, then
\* the region, which outlives it, destroys the object.
DestroyStatic(t, b) ==
  /\ exited
  /\ \A u \in Threads : pc[u] = "idle"
  /\ RegionOf[b] \in Statics
  /\ Claim(t, b)

-----------------------------------------------------------------------------
InitStep(t) ==
  \/ AlreadyInitialized(t)
  \/ Reserve(t)
  \/ ReserveFails(t)
  \/ AllocateTables(t)
  \/ AllocateTablesFails(t)
  \/ Publish(t)
  \/ StartDrain(t)

RegionStep(t) ==
  \/ Carve(t)
  \/ CarveFails(t)
  \/ RegisterRegion(t)
  \/ RegisterFails(t)
  \/ Enqueued(t)
  \/ DestructorLocks(t)
  \/ DestructorReturns(t)

TeardownStep(t) ==
  \/ StopDrain(t)
  \/ Join(t)
  \/ FlushForced(t)
  \/ ShutdownQueue(t)
  \/ ShutdownRegionTable(t)
  \/ ReleaseZones(t)
  \/ Cleared(t)

Call(t) ==
  \/ InitShadowzone(t)
  \/ Teardown(t)
  \/ \E r \in Regions :
       ConstructRegion(t, r) \/ ConstructEmpty(t, r) \/ DestroyRegion(t, r)
  \/ \E b \in Blocks : Allocate(t, b) \/ Destroy(t, b) \/ DestroyStatic(t, b)

ThreadStep(t) == InitStep(t) \/ RegionStep(t) \/ TeardownStep(t) \/ ForcedRetire(t)
DrainStep == DrainLoop \/ DrainLock \/ DrainFlushed \/ DrainRetire

Next ==
  \/ \E t \in Threads : Call(t) \/ ThreadStep(t)
  \/ DrainStep
  \/ MainReturns

\* Threads inside the runtime keep running, and so does the drain thread.
Fairness == (\A t \in Threads : WF_vars(ThreadStep(t))) /\ WF_vars(DrainStep)

Spec     == Init /\ [][Next]_vars
FairSpec == Spec /\ Fairness

-----------------------------------------------------------------------------
(* Properties *)

InitPoints == {"init", "allocate", "publish", "start", "carve", "register"}
LeavePoints == {"lock", "leave"}
Area == [zone : Nat, index : Nat]
Slot == [block : Blocks, writer : Threads \union {Null}]

\* Every variable has its type, and the table never outgrows its allocation
\* (RegionRecord.cpp:76).
TypeOK ==
  /\ {zone, mapped, mappings} \subseteq 0 .. MappingBound
  /\ carved \in 0 .. ZoneAreas
  /\ {slots, table, initialized, shutdown, drainRunning, exited, fault} \subseteq BOOLEAN
  /\ records \in Seq([region : Regions, area : Area])
  /\ Len(records) <= TableCapacity
  /\ drain \in {"none", "loop", "tick", "flush", "exit"}
  /\ initMutex \in Threads \union {Null}
  /\ region \in [Regions -> {"none", "constructing", "up", "failed", "destroying"}]
  /\ area   \in [Regions -> Area]
  /\ block  \in [Blocks -> {"free", "held", "retired"}]
  /\ queue  \in Seq(Slot)
  /\ pc  \in [Threads -> {"idle", "enqueue"} \union InitPoints \union LeavePoints
                           \union TearPoints]
  /\ arg \in [Threads -> Regions \union {Null}]

\* Whoever uses the memory of the runtime finds it there: the maps of a region
\* are in the zones that are mapped, the drain thread never flushes a ring that
\* was released (KerbecsRuntime.cpp:57-72), and the table records no map of
\* zones that were.
UsersMapped ==
  /\ \A r \in Regions : region[r] = "up" => area[r].zone = mapped /\ mapped # 0
  /\ drain = "flush" => slots
  /\ \A i \in DOMAIN records : records[i].area.zone = mapped

\* Between calls the runtime is either entirely up, with a running drain thread,
\* or entirely down, with nothing to join and nothing allocated, whichever
\* calls have failed and however often it was started before.  And init never
\* assigns to a joinable std::thread, which would end the process
\* (KerbecsRuntime.cpp:148).
UpOrDown ==
  /\ \A t \in Threads : pc[t] = "start" => drain = "none"
  /\ (\A t \in Threads : pc[t] = "idle") =>
       IF initialized
       THEN /\ zone = mapped /\ zone # 0 /\ slots /\ table
            /\ ~ shutdown /\ drainRunning /\ drain \notin {"none", "exit"}
       ELSE /\ zone = 0 /\ mapped = 0 /\ ~ slots /\ ~ table /\ records = <<>>
            /\ ~ drainRunning /\ drain = "none"

\* A block that was destroyed is in one slot of the ring until it is given back,
\* and no other block is: enqueue is never refused (KerbecsRuntime.cpp:60-61).  A
\* destructor may leave blocks of its region in the ring, behind a slot that is
\* claimed and not published (QuarantineQueue.cpp:126), but the last of the
\* regions leaves none, and none goes with the ring when it is released.
NothingLost ==
  /\ \A b \in Blocks :
       block[b] = "retired" <=> \E i \in DOMAIN queue : queue[i].block = b
  /\ \A i, j \in DOMAIN queue : queue[i].block = queue[j].block => i = j
  /\ (\A r \in Regions : region[r] = "none") => queue = <<>>

\* The table has a record of every region that is up, with the maps it has now,
\* and an address in the region resolves to that record, or to an older one when
\* the range was registered before in this life of the runtime: in either case to
\* maps that are mapped, never to those of an earlier life (RegionRecord.cpp:103).
ResolveFindsOwner ==
  \A r \in Regions : region[r] = "up" =>
    /\ table /\ \E i \in Matching(r) : records[i].area = area[r]
    /\ ResolveRegion(r).region = r /\ ResolveRegion(r).area.zone = mapped
    /\ \/ ResolveRegion(r).area = area[r]
       \/ \E i \in Matching(r) : records[i].area # area[r]

\* Static objects are destroyed when main has returned, and all other memory of
\* the runtime is used while it is mapped (README.md:133).
StaticsDestroyed == ~ fault

\* init, teardown and the constructor of Region return: nobody is stuck on the
\* mutex, and the drain thread can always be joined.
CallsReturn ==
  \A t \in Threads : pc[t] \in InitPoints \union TearPoints ~> pc[t] = "idle"
=============================================================================
