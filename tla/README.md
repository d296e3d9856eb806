# Kerbecs: specification, model checking and proofs

Kerbecs is an address-sanitizer library: a `Region` wraps a user's allocator,
gives out checked handles, and keeps every destroyed block in a quarantine for a
while before the memory goes back. This directory holds TLA+ modules of its
concurrent core, the TLC runs that check them and TLAPS proofs about them.

Paths below are relative to the repository's source directory
(`src/Private/AllocationRegistry.cpp` and so on; line numbers are of the
modelled commit).

## The system

| Part | State | Operations | Used by |
|---|---|---|---|
| `AllocationRegistry` (one per region) | buckets with a chain head and a spin lock, a pool of `RegistryNode`s (state, base, live count, `m_DtorLock`, generation), `m_NodeCursor`, `m_Count` | `insert`, `find`, `beginRetiring`, `endRetiring`, `retire`, `shutdown` | `Region`, `QuarantineQueue` |
| `QuarantineQueue` (one per process) | a ring of entries, `m_Head`, `m_Tail`, `m_FlushLock` | `enqueue`, `flushEligible`, `_onSaturation`, `shutdown` | `endRetiring`, drain thread, `~Region`, teardown |
| `Region` and `ShadowedMemory` | registry, access records with generations, shadow bits | `allocate`, `construct`, `destroy`, dereference, `operator+`, destructor | user threads |
| `KerbecsRuntime` | zones, epoch, drain thread, `m_Initialized`, `m_Shutdown` | `init`, `teardownShadowzone`, `_drainLoop` | everybody |
| Region table (`RegionRecord.cpp`) | an array of records published by `s_Count` | `registerRegionRecord`, `resolveRegion` | `Region` |
| Violation stack (`Violation.cpp`) | a thread-local ring of 32 entries | `pushViolation`, `popViolation` | every detection site |
| Bump allocators | `m_Bump` | `_bumpReserve` | runtime, static objects |
| Layouts | none (arithmetic) | `blockSize`, `place`, `verifyGuards` | `Region` |
| Statistics | counters, peak | `statsOn...` | everybody |
| Static objects | two regions, destructors | `KERBECS_PERSISTENT`, `KERBECS_GLOBAL` | user |
| Pages, hashes, checksums | none | wrappers and pure functions | |

How they interact: `Region::destroy` calls `beginRetiring`, decrements the live
count, runs the C++ destructor, and calls `endRetiring`, which either makes the
block `Live` again or moves it to `Quarantine` and enqueues it. The drain thread
advances the epoch every 50 ms and flushes blocks whose stamp is two epochs old;
a flush calls `retire` in the registry stamped in the entry (`Quarantine` to
`Dead`) and gives the memory back. `insert` refuses a base until its older node is
`Dead`, and gives it the next generation. `~Region` forces a flush of the whole
ring and releases its registry.

What is hard:

- lock-free lookups during inserts and state changes; two lookups per retirement;
- the window between `Quarantine` and the entry's publication;
- slots of the ring that two claims share, entries published out of order;
- a flush in one region's destructor against enqueues of other regions;
- counters changed before or after the fact they count;
- a runtime that is started lazily, fails half-way, is torn down and started again,
  while regions, static objects and a background thread live on its memory;
- reservations and page commits that race; sizes that wrap; padding that must be
  stamped and verified alike.

What makes each part correct: the registry must keep at most one usable node per
base, generations that only grow, exclusive retirement, and every quarantined
base in exactly one hand; the queue must never tear, lose, duplicate or reorder an
entry, and must retire every published block; regions must not outlive the
registry pointers they leave in the ring; handles must never match a recycled
block; reservations must be disjoint, and payload and guards must fit into them; and
whatever uses the runtime's memory must find it mapped.

`PROJECT.json` lists the components, the hazards with the line where each bites
and the properties that cover it, the map from definitions to source lines, the
runs and the theorems.

## Modules

| Module | Contents |
|---|---|
| `BlockLifecycle` | abstract: the life of one block base, each operation atomic |
| `AllocationRegistry` | the registry, one step per shared access; properties |
| `AllocationRegistryInvariant` | the inductive invariant `IInv`, and `ExactInv` for generations and `m_Count` |
| `AllocationRegistryChains`, `AllocationRegistryProofs` | TLAPS: lemmas about chains and lookups; the theorems |
| `ReservationQueue` | abstract: a queue with reserved and completed places |
| `QuarantineQueue` | the ring, its producers, the drain thread, destructors of regions; properties |
| `QuarantineQueueInvariant` | the inductive invariant `RingInv`, and `CountOK` for `m_QuarantinedBlocks` |
| `QuarantineQueueProofs` | TLAPS: the theorems about the ring |
| `Region` | `allocate`, `construct`, `destroy`, handles, shadow bits and blocks, over atomic registry operations; properties |
| `RegionInvariant`, `RegionProofs` | the inductive invariant `RegionInv` for careful clients; TLAPS: the theorems |
| `KerbecsRuntime` | `init`, teardown, the drain thread's life, the region table, constructors and destructors of regions, static objects; properties |
| `KerbecsRuntimeProofs` | its inductive invariant, TLAPS proofs |
| `BlockLayout` | the arithmetic and the stamps of the three layouts, as operators |
| `GuardedBlocks` | size checks, bump allocator, page commits and `place`, with the program's writes; properties |
| `GuardedBlocksProofs` | lemmas about `AlignUp`, the layouts and their stamps, the inductive invariants of the ranges and of the guard bytes, TLAPS proofs |
| `Statistics`, `StatisticsProofs` | the counters and the peak; TLAPS proofs |
| `BoundedStack` | abstract: a bounded stack that evicts its oldest entry |
| `ViolationRing`, `ViolationRingProofs` | the ring of a thread's violations; it implements `BoundedStack`, TLAPS proofs |
| `MCAllocationRegistry`, `MCQuarantineQueue`, `MCRegion`, `MCKerbecsRuntime`, `MCSupport` | small instances for TLC |

Operators named `...` with a comment that begins "Mutant:" are wrong variants of
the definition they precede. No specification uses them; each shows that a
property fails when the code has that fault.

### AllocationRegistry

`head`, `bucketLock`, `nodeCursor`, `count` are `m_Head`, `m_Lock`, `m_NodeCursor`
and `m_Count`; `state` to `generation` are the fields of a `RegistryNode`, nodes
being numbered by their place in the pool. `pc` holds each thread's control point
and `base`, `cur`, `mine`, `gen`, `goal` its local variables.

| Operation | Actions |
|---|---|
| `insert` | `InsertLock`, `InsertScan` (per node), `InsertOverlap`, `InsertExhausted`, `InsertNode`, `InsertLink`, `InsertCount` |
| `find` | `FindFrom` (by the caller), `FindNext`, `FindReturn` |
| `beginRetiring` | `BeginCall`, `find`, `BeginMiss`, `BeginForeign`, `BeginBusy`, `BeginTryLock`, `BeginRetires` or `BeginNotLive` with `UnlockReturn` |
| `Region::destroy` in between | `DestroyObject` |
| `endRetiring` | `EndCall`, `find`, `EndLoad`, then `EndKeepLive`, `UnlockReturn` or `EndQuarantine`, `UnlockLast`, `EndCount`, `EndEnqueue` |
| `retire` | `RetireCall`, `find`, `RetireCAS` |

Writes to a node that is not yet reachable are one step (`InsertNode`), and so are
the store of `m_Next`, the head CAS and the unlock, all under the bucket lock and
ordered by the release of the CAS. Clients call with any base at any time: the
allocator that chooses addresses is the user's. The quarantine is a set of bases
here; `QuarantineQueue` refines that side. The destructor of an object and the
shadow bits are not part of this module.

### QuarantineQueue

`head`, `tail`, `flushLock` are `m_Head`, `m_Tail`, `m_FlushLock`; `blockBase`,
`stamp`, `owner` are the fields of the slots. A region's identity also names the
thread that runs its destructor. `since` is a history variable for `TwoEpochs`.

| Operation | Actions |
|---|---|
| `Region::destroy`, call of `endRetiring` | `EndRetiring` (loads the epoch) |
| `enqueue` | `Claim`, `CheckRoom` or `Saturate`, `Fill`, `Publish`, `Count` |
| `flushEligible`, `_retireSlot` | `FlushLock`, then per slot `FlushLook`, `FlushLoad`, `FlushAge`, `FlushRetire`, `FlushStats`, `FlushClear`, `FlushAdvance`; `FlushUnlock` |
| `_drainLoop` | `Tick` and an unforced flush |
| `~Region` | `DestroyRegion`, a forced flush, `RegionShutdown` |

`EndRetiring` takes a block only if nobody is still to retire it, which is what
`CustodyMatchesState` of the registry says. `~Region` starts only when no
`destroy` of that region is running: to do otherwise is an error of the user.

### Region

A node of the registry, the access record of the same index (`m_MetadataMapBase`)
and the handle built from it are one number, as nodes are never reused; a handle
moved by `operator+` to element `i` is the number and `i`. `size` and `accessGen` are
`m_UserSize` and `m_Generation` of the access records, `shadow` the shadow bits,
`free` and `flushed` the blocks in the hands of the user's allocator and of a flush
between `retire` and the deallocation thunk. `object` says what a client keeps in an
element; only the properties and the clients' discipline look at it.

The bits of an element are `set`, `clear` or, when `_setShadow` did not reach all of
them, `unsure`. Setting bits stops at a page of the map that cannot be committed
(`Region.h:196`): `allocate` then gives the block back, with the bits before that page
set, and `destroy` goes on. Clearing passes over a page that is not resident and still
succeeds (`Region.h:197`). Which pages these are is a free choice of every call.

| Operation | Actions |
|---|---|
| `allocate` | `Allocate` (the user's allocator), `AllocPoison` or `AllocWild` (outside of the region, or a page does not commit), `AllocInsert` or `AllocRefused`, `AllocReturn` or `AllocGiveBack` |
| `construct` | `Construct` (shadow bits), `ConstructNew` |
| `destroy` | `Destroy`, `Begin` or `BeginRefused`, `Classify`, `Report`; `Uncount`, `Invalidate` (last object), `Destruct`, `Poison`, `End`, `Unlock` or `UnlockLast` (enqueue) |
| `_retireSlot` | `Flush`, `FlushRelease` |
| `operator+`, `_check` | `Given` (the bound), `Overflow`; `CheckPasses` |
| calls that report a violation and change nothing else | `AllocTooLarge`, `EmptyHandle`, `ConstructMisaligned`, `Overflow`, each with `Rejected` |

`find`, `insert`, `beginRetiring` and the first half of `endRetiring` are one step
each here: theorem `RegistryRefinesLifecycle` shows that the registry behaves like
that, and `RegionRefinesLifecycle` that the region does with these steps.
`m_DtorLock` stays, because a refused `destroy` tells the caller why, and that answer
depends on who still holds the lock. The quarantine is a set whose blocks are retired
in any order at any time, which includes what the ring and the epochs do. With
`Careful` set a client constructs an object once, in memory it was given, and destroys it
once, while it lives; without it, it may call either at any time and with any handle it
ever got, second constructions and second destructions included.
Elements take 8 bytes or more, so that no two share a byte of the shadow map, whose
update is not atomic (`Region.h:200`).

### KerbecsRuntime

`zone` stands for `m_MemoryZone` and the pointers into it, as the number of the
reservation they point to; `mapped` is the one the process really has. A map of a
region is the pair of a reservation and an index (`area`). `slots` and `table` say
whether the ring and `s_Records` are allocated. A block is `free`, `held` by the program or
`retired` by a destroy; `queue` has the slots of the ring from `m_Head` to `m_Tail`, each
with its block and, while the slot is claimed and not published, the thread that fills
it in (`writer`). A flush takes one slot per step and stops at one with a writer, as
`QuarantineQueue.cpp:125-127` does, so that teardown and destructors see what is in the
ring and what is not there yet. Capacity, stamps and registries are left to the modules
above.

| Operation | Actions |
|---|---|
| `init` | `AlreadyInitialized`, `ReserveFails` or `Reserve`, `AllocateTables` or `AllocateTablesFails`, `Publish`, `StartDrain` |
| `_drainLoop` | `DrainLoop` (the two tests of `m_DrainRunning`), `DrainLock`, `DrainRetire`, `DrainFlushed` |
| `teardownShadowzone` | `Teardown`, `StopDrain`, `Join`, `ForcedRetire` (per slot), `FlushForced`, `ShutdownQueue`, `ShutdownRegionTable`, `ReleaseZones`, `Cleared` |
| constructor of `Region` | `ConstructEmpty` (early return), or `ConstructRegion` (which calls `init`), `Carve` or `CarveFails`, `RegisterRegion` or `RegisterFails` |
| `allocate`, `destroy` and its enqueue | `Allocate`; `Destroy` (with the claim of a slot), `Enqueued` |
| `~Region` | `DestroyRegion`, `DestructorLocks`, `ForcedRetire` (per slot), `DestructorReturns` |
| static objects | construction is `ConstructRegion` and `Allocate`; `MainReturns`, `DestroyStatic`, `DestroyRegion` of a static region |

How programs use it comes from the repository's README (lines 82-94): nobody is in
another call of the runtime during a teardown, and every region has been destroyed
before it. The set `Spared` holds the regions a program does not destroy first: it is
empty except in `runtime_static`, where it holds the static region, which a program
cannot destroy before `main` returns.

A range may be used by one region after another, in one life of the runtime or in several.
Records are never removed (`RegionRecord.cpp:90`) and `resolveRegion` returns the first
match, so an address then resolves to the older record while its range is registered
twice; `ResolveFindsOwner` says that this is the only way not to get the present one.

### GuardedBlocks and BlockLayout

`bump` is `m_Bump`, `page` the state of each page, `memory` a byte per offset of the
zone. `BlockLayout` computes with sizes below `SizeLimit` that wrap like `size_t`.

| Operation | Actions and operators |
|---|---|
| `Region::allocate`, checks | `Accepted`, guard of `Allocate` |
| `_bumpReserve` | `Allocate` (first load), `Reserve`, `ReserveAgain`, `ReserveFails` |
| `BumpAllocatorBase::allocate`, `commitPageIfNeeded` | `CommitQuery`, `Commit`, `CommitEnds` |
| `blockSize`, `place`, `verifyGuards` | `BlockSize`, `Offsets` and `Stamps` (action `Place`), `VerifyGuards` |
| the program | `Fill` writes a payload, `Stray` a byte near one |

A page is `committed` when it has been made accessible and `resident` when it has been
touched as well: on Linux `queryPage` asks `mincore`, which tells them apart only
this way, so committing twice is normal.

### Statistics, ViolationRing

`highest` is a history variable, the greatest value `m_ActiveBytes` ever had. Every
atomic operation of `statsOnInit` and `statsOnDestroy` is a step. The violation stack is
local to a thread, so its operations are whole steps; what is hard there is the
modular arithmetic of `m_Top` and `m_Count`, hence the refinement.

## Runs

| Run | Question | Result |
|---|---|---|
| `registry_safety` | do the registry's safety properties hold under every interleaving? | yes |
| `registry_liveness` | does it implement `BlockLifecycle`; is every quarantined block retired and every `m_DtorLock` released? | yes |
| `queue_safety` | is the ring exclusive, never torn, lossless, and a FIFO of reservations? | yes |
| `queue_liveness` | is every published block retired; is the flush lock given back to a destructor that waits, and does a destructor return that has it, while blocks of another region are enqueued? | yes |
| `queue_epochs` | does a block stay two epochs (README.md:117)? | no: the forced flush of one region's destructor takes another's blocks |
| `queue_owner` | does the registry named by an entry exist (QuarantineQueue.h:35)? | no: forced flush stops at a foreign claim |
| `region_safety` | for careful clients: are handles valid exactly as long as their block, do shadow bits stay as their element's last call left them, is every block in one hand and released in the end? | yes |
| `region_stale` | and if a client destroys through a stale handle (README.md:154, `AllocationRegistry.cpp:87`)? | no: it destroys the newer object, and the wrong access record is cleared |
| `runtime` | do users of the runtime find it mapped, is it entirely up or down between calls, does no block vanish with the ring, do addresses resolve, do init, teardown and constructors return? | yes; but a destructor may leave blocks of its region in the ring, which a later flush releases through a dangling registry (`queue_owner`) |
| `runtime_static` | and are static objects destroyed when main returns (README.md:133)? | no: the teardown at the end of main has unmapped their access records |
| `support` | are ranges disjoint and accessible, do sections fit, do guards report what was overwritten and nothing else; is the peak exact; is the violation ring a bounded stack? | yes |
| `guarded_align` | is in-block metadata aligned (MemoryLayouts.h:40, :108)? | no: the block need not start at such an address |

What the registry's properties say: one tracked node per base
(`AtMostOneTracked`), growing generations (`GenerationsIncrease`), exclusive
retirement (`RetiringIsExclusive`), the second lookup finds the same node
(`EndFindsOwnNode`), live counts match states (`LiveCountConsistent`), one hand
per quarantined base (`CustodyMatchesState`), `retire` never fails
(`RetireSucceeds`), `m_Count` is off only by operations in flight
(`CountMatches`). Those of the other modules are commented there.

**Stale stamps.** `queue_epochs` stops at its shortest trace, the forced flush. The two
epochs of README.md:117 can be missed without one: `destroy` loads the epoch before
`endRetiring` (`Region.h:161`), and the entry that is published later carries it.
`MCQuarantineQueue_stamp.cfg`, which is not among the runs above, isolates this in an
instance with one region, whose destructor cannot be at fault:
`tlc -config MCQuarantineQueue_stamp.cfg MCQuarantineQueue` finds `TwoEpochs` violated in
15 states. A thread loads epoch 0; the drain thread moves on to 1; the entry is published
in epoch 1 with stamp 0; the drain thread moves on to 2, the age test
`m_Epoch + 2 > curEpoch` (`QuarantineQueue.cpp:131`) lets the block pass, and it is
retired after one epoch in the ring.

### Bounds

- Registry: two clients and the flusher; three bases, two of them in one bucket;
  three nodes, so that a base is recycled twice and other bases lie between its
  nodes. No insert starts when the cursor has reached `CursorBound`: where that is the
  number of nodes (safety), the pool is exhausted by two inserts at once, where it is one
  more (liveness and refinement) by one insert after another. Blocks of one and of two
  objects, both thread policies. The liveness and refinement run has two bases in one
  bucket and two nodes.
- Queue: three producers (two for the violations and liveness), two regions, three
  blocks, two of one region. Capacity 2 and `TailBound` 5: the ring wraps twice,
  two claims a capacity apart meet in one slot, and it saturates. `EpochBound` 3 lets
  an entry age by two epochs at least once. An enqueue starts only while two more
  epochs are within the bound, so that the bound does not look like a drain
  thread that stopped. Liveness has two producers, two regions with a block each and
  `TailBound` 4, so that blocks of one region are enqueued while the destructor of the
  other one flushes.
- Region: two clients, one block inside the region that is recycled twice (three
  nodes, then the pool is exhausted) and one outside of it, blocks of one and of two
  elements, both thread policies. Blocks inside the region share nothing but the pool
  and the flush, so one of them is enough.
- Runtime: two threads, two ordinary regions and a static one, each with one block, so that the
  destructor of one region meets a slot that is claimed for a block of another one;
  two reservations of the zones (so one complete restart), a table of two records and
  zones with three areas: a third region finds the table full, a constructor that fails
  after carving uses an area up. `MappingBound` is what ends the run.
- Support: two threads, one request of each layout and two that overflow; redzones,
  canaries and metadata of a few bytes instead of 16, 8 and 32 or 64, sizes modulo 256,
  a zone of 92 bytes on three pages, which blocks of 24, 68 and 18 bytes fill in several
  orders, so that blocks share pages and reservations fail. The program writes one byte
  outside, at a distance that falls into a guard, into padding or into metadata. Three
  callers and three blocks of different sizes for the statistics; a ring of three. The
  three components share no state; each one runs while the others are at their start,
  which adds their states up instead of multiplying them.
- Symmetry of clients and colliding bases (registry), of producers and the two blocks
  of one region (queue), in safety runs only; none for the region, whose run also checks liveness.
- The queue's runs allow deadlock: `_onSaturation` ends the process, and blocks and
  epochs run out.

### Fairness

Weak fairness of each thread's steps inside an operation: the scheduler runs every
thread, and no code inside blocks except on a lock. Nothing makes a client call. The
drain thread loops until teardown, so `Tick` and `DrainStep` are weakly fair. Taking
`m_FlushLock` is only weakly fair, as the lock is an unfair spin lock: a thread that
spins may find it taken by somebody else for ever. `DestructorReturns` therefore does
not say that a destructor gets the lock. It says that whoever has it while a destructor
waits gives it back, or the destructor gets it; and that a destructor that has it
returns, although others publish behind the slots it retires. The number of enqueues is
bounded by `TailBound`; that producers outrun a flush for ever is thus not excluded for
the code. `tryLock` never waits, and the bucket lock is only used where the insert that
holds it goes on, so the registry needs no strong fairness.

In `KerbecsRuntime` each thread inside a call and the drain thread are weakly fair. That
a thread is not starved on `s_InitMutex` needs no strong fairness here because init
takes the mutex for more than a moment only when it reserves zones, which the bound
limits. A flush may go on as long as blocks are destroyed. `CallsReturn` speaks of init,
constructors and teardown, in which nobody else flushes or which do not flush; a
destructor waits for `m_FlushLock`, of which the paragraph above says what holds.

## Proofs

All theorems are about every value of the constants that satisfies the modules'
assumptions; the bounds (`CursorBound`, `TailBound`, `EpochBound`, `MappingBound`,
`StrayBound`) are arbitrary numbers in them. The assumptions say that special values are
not members of the sets they mark, that bases have buckets and blocks a region, that
capacities are natural numbers, and what is listed with the modules below. TLC
evaluates them in the runs.

**Registry** (`AllocationRegistryProofs`). None of the safety properties is inductive
alone; theorem `Inductive` has what they rest on. A retirement's second lookup succeeds
because the node is still in its chain, in front of or at the walk's position; it is the
node of the first lookup because only one node of the base is tracked; that is so
because insert has scanned the whole chain under the bucket lock, and the nodes it
has passed stay Dead. `IInv` says this: every node of a bucket is reachable from
its head along nodes of falling number (so chains are acyclic), what a scan has
passed, where each walk may still find its node, who holds which lock at which
control point, and who holds each quarantined base. `AllocationRegistryChains`
has the lemmas about chains; the proof has one step per action.

`ExactInductive` adds what the counts need. Insert gives a node the generation after
that of its base's newest node (`SuccessionOK`: none is skipped), and `m_Count` is the
number of nodes that are `Live` or `Retiring`, less the threads that have still to add
their node, plus those that have still to subtract theirs (`CountOK`). Each action moves
at most one node into or out of the first set and one thread into or out of the others;
`CountExact` (property `CountMatches`) follows. `RegistryRefinesLifecycle` is the
refinement of `BlockLifecycle`: an insert takes effect at `InsertLink`, the retirement at
`BeginRetires`, its end at `EndKeepLive` or `EndQuarantine`, `retire` at its
compare-exchange; every other step leaves the life of all bases as it is. The generation
of a base there is that of its newest node here, hence `SuccessionOK`.

**Queue** (`QuarantineQueueProofs`, theorem `RingInductive` and six others). Tickets
less than a capacity apart have different slots (`SlotInjective`, from the division
theorem). `RingInv` puts every writing producer and every published slot in the
window of `Capacity` tickets from `m_Head`, so that slot and ticket determine each
other there; `m_Head` moves only past a cleared slot whose producer is done.

`QuarantinedExact` says that `m_QuarantinedBlocks` is the number of published slots,
less the producers that have still to count theirs and the flushes that have counted one
they have not cleared; published slots are counted by cardinality, so it needs that each
is published and cleared once. `RingRefinesQueue` maps the ring to `ReservationQueue`:
the queue is the sequence of the tickets from the oldest one not retired to `m_Tail`, a
place being completed when its slot is published. A claim appends, a publication
completes a place, a retirement takes the first one, which must then be complete, and
every other step stutters: order, no loss and no duplication hold for every capacity and
any number of producers and regions.

**Region** (`RegionProofs`, theorem `RegionInductive` and seven others). The theorems have
the form `Careful => (Spec => []Inv)`, where `Careful` is the discipline of the
clients above: an object is destroyed once, while it lives. Without it the properties are
false, as `region_stale` shows. `RegionInv` turns on the live count: it is the number of
elements whose object has not been uncounted (`Counted`, a cardinality). While an object
of a node is left, the node is therefore tracked, its base is not recycled, and any
lookup by a handle returns the handle's own node; the thread that has taken
`m_LiveCount` to zero is the only one that clears the access record, and holds
`m_DtorLock` from its `beginRetiring` to the unlock. On this rest `ChecksAreSound`
(a handle passes its check only while its block belongs to it), `AliveIsUsable`,
`ShadowBitsMatch` (every element's bits are those that its own last call left, up to the
pages that `_setShadow` cannot commit or passes over), `BlocksInOneHand`,
`OnlyForeignFail` (of objects alone in their block: an element of an array is refused
while `m_DtorLock` is busy, too) and `RegionRefinesLifecycle`.

**Runtime** (`KerbecsRuntimeProofs`, theorem `RuntimeInductive` and five others). The
theorems have the form `Documented /\ Spec => []Inv`, where `Documented` says that
`Spared` is empty: the program destroys its regions before the teardown. The inductive
invariant ties the whole process to its phase: only one thread is in init's critical
section, and then the runtime is down but for what that thread has built; only one
thread tears down, and then nobody is in a constructor and no region is left; at each
point of either, which of zones, ring, table, flags and drain thread exist. From this
follow `UsersMapped` (regions are up only while their zones are mapped), `UpOrDown` and
`NothingLost`. The last one rests on `RingInv`: every retired block is in one slot, a
claimed slot belongs to a region that is up (nobody may destroy a region while one of
its calls runs), and as long as the ring has an entry, some region is left. The last
part is what makes it inductive although destructors leave blocks behind: a forced flush
ends with an empty ring, or at a claimed slot, whose region is still up. A block may
thus outlive its region in the ring, but not the last region. `ResolveFindsOwner` needs
that every record carries an area of the present mapping, and that a region that is up
has a record of its present area.

**Guarded blocks** (`GuardedBlocksProofs`). `AcceptedFits` is the arithmetic: under
`SizesAssumption`, `OverheadAssumption` (the sections around a payload take less than a
quarter of the size range) and `RequestsAssumption` (the alignment divides
`SizeLimit`), a request that passes both checks of `Region::allocate` has a block size
that no intermediate step has wrapped for; `AlignUp` is proved to be the next multiple.
`ReservationAssumption` is needed on top: `_bumpReserve` does not notice a wrap of
`aligned + v_Bytes`, so the block must be smaller than the size range less the zone.
The invariant says that a thread that has reserved a range holds it below `m_Bump`,
disjoint from all others', and that the pages before its cursor are accessible, which no
step takes back. `GuardsAlwaysReport` needs a second invariant, `MemoryInv`: a guard byte
of a block holds what `place` stamped there unless the program has written to it.
`StampsAre` shows for the three layouts that exactly one of the writes of `place` covers
each guard byte, with the value `verifyGuards` compares it with, and that none
leaves the block; a payload holds no guard byte, and other blocks have no byte of this
one. The padding, whose length depends on the size and alignment requested, is where
such code goes wrong; the run covers three requests, the proof all of them.

**Statistics** (`StatisticsProofs`): a thread between its `fetch_add` and its successful
compare-exchange carries the missing maximum; either the peak is the maximum or such a
thread does. **Violations** (`ViolationRingProofs`): the refinement itself is proved,
step by step, with the sequence of surviving entries as the mapping.

Every invariant and every refinement that a run finds to hold is thus proved. Liveness is
model-checked only, as it is out of the prover's reach: `QuarantineEnds`,
`DtorLockFreed`, `PublishedRetired`, `DestructorReturns`, `DestroyedReleased` and
`CallsReturn`. The properties of the runs that expect a violation (and of `Region`
without `Careful`) are false, and their counterexamples are TLC's.

## What is left

Handles with an offset of their own would show that `operator+`, which compares with the
size of the whole payload from wherever the handle points (`ShadowedMemory.h:85`), is right
for the handle that `allocate` returned only. That, elements destroyed twice
(`Region.h:156`) and elements that share a shadow byte (`Region.h:200`) are hazards without
a property; so is a bucket lock that a refused insert would not release, and starvation on
`m_FlushLock`.

## Not modelled

- Weak memory: every step is sequentially consistent; where the code relies on
  acquire and release the steps are cut so that plain stores are visible no later than
  the release store they precede.
- Debug assertions: they are off (the release build).
- Addresses are model values in the registry, so `_index` is an arbitrary function and
  the 32-bit thread hash is taken to be unique.
- A teardown at the same time as an init, a constructor or a `destroy`: the
  repository's README excludes it. A process that ends without a teardown: the runtime is
  allocated with `new` and never deleted (`KerbecsRuntime.cpp:32`), so its thread object is
  not destroyed at all.
- Regions without a range (`p_RegionBase` null, as in the example of README.md:73):
  `allocate` refuses every request at once (`Region.h:99`).
- A failing `mprotect` in the bump allocator, which ignores its result
  (`KerbecsAllocators.cpp:46`); in `_setShadow`, which does not, it is modelled.
- `decommit`, which nothing calls. The Windows branches.
- A careful client that constructs a destroyed element again: `Construct` allows it without
  `Careful` only, so that the properties and theorems about careful clients do not cover it.
- `findRange`, `shadowStateOf`, `verifyEnhancedMetadata`, hashes and checksums: pure
  functions without a caller in the library. So are `verifyGuards` and `resolveRegion`, but
  users may call them, and they say what the stamps and the records are for.
- Violations of the kinds that nothing reports (`LeakDetected`, `UseBeforeInit`,
  `MetadataCorruption`, `QuarantineSaturation`), and the text of violations.
- Compiler selection, macros and concepts, which have no state.
