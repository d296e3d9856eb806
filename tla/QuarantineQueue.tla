--------------------------- MODULE QuarantineQueue ---------------------------
(***************************************************************************)
(* QuarantineQueue (QuarantineQueue.h/.cpp) and who runs it: threads that  *)
(* destroy the last object of a block enqueue it without a lock, the drain *)
(* thread (KerbecsRuntime::_drainLoop) advances the epoch and flushes what *)
(* is two epochs old, and the destructor of a Region flushes everything it *)
(* can before it releases its registry.  Flushes exclude each other by     *)
(* m_FlushLock; an enqueue is only ordered with them by m_Tail, m_Head and *)
(* the m_BlockBase of its slot.                                            *)
(*                                                                         *)
(* The caller's side of the contract is that of AllocationRegistry: a      *)
(* block is handed over once and not again before it has been retired.     *)
(***************************************************************************)
EXTENDS Integers, FiniteSets

CONSTANTS
  Producers,      \* threads in Region::destroy
  Drain,          \* the drain thread
  Regions,        \* a region stands for the thread that runs its destructor
  Blocks,         \* block addresses
  RegionOf,       \* the region a block belongs to
  Capacity,       \* m_Capacity, a power of two: tail & mask is tail % Capacity
  TailBound,      \* bound of the model: m_Tail stops there
  EpochBound,     \* bound of the model: m_Epoch stops there
  Null

Flushers == Regions \union {Drain}
Threads  == Producers \union Flushers
Index    == 0 .. Capacity - 1

ASSUME ThreadsAssumption ==
  /\ Producers \intersect Flushers = {}
  /\ Drain \notin Regions
  /\ Null \notin Threads
ASSUME BlocksAssumption == RegionOf \in [Blocks -> Regions] /\ Null \notin Blocks
ASSUME BoundsAssumption ==
  Capacity \in Nat \ {0} /\ TailBound \in Nat /\ EpochBound \in Nat

VARIABLES
  head,           \* m_Head
  tail,           \* m_Tail
  blockBase,      \* blockBase[i] ... owner[i]: m_BlockBase, m_Epoch and
  stamp,          \*   m_OwningRegistry of slot i
  owner,
  since,          \* history only: m_Epoch when slot i was published
  flushLock,      \* holder of m_FlushLock
  epoch,          \* m_Epoch
  quarantined,    \* m_QuarantinedBlocks
  aborted,        \* _onSaturation has ended the process
  pc,             \* control point of each thread
  block,          \* block[p] ... ticket[p]: the locals of producer p
  read,
  ticket

slotVars  == <<blockBase, stamp, owner, since>>
localVars == <<block, read, ticket>>
vars == <<head, tail, slotVars, flushLock, epoch, quarantined, aborted, pc, localVars>>

Slot(k) == k % Capacity
Front   == Slot(head)

\* Thread t of the running process is at a control point.
At(t, label)   == ~ aborted /\ pc[t] = label
Goto(t, label) == pc' = [pc EXCEPT ![t] = label]

Init ==
  /\ head        = 0
  /\ tail        = 0
  /\ blockBase   = [i \in Index |-> Null]
  /\ stamp       = [i \in Index |-> 0]
  /\ owner       = [i \in Index |-> Null]
  /\ since       = [i \in Index |-> 0]
  /\ flushLock   = Null
  /\ epoch       = 0
  /\ quarantined = 0
  /\ aborted     = FALSE
  /\ pc = [t \in Threads |-> IF t \in Producers THEN "idle"
                             ELSE IF t = Drain THEN "sleep" ELSE "open"]
  /\ block  = [p \in Producers |-> Null]
  /\ read   = [p \in Producers |-> 0]
  /\ ticket = [p \in Producers |-> 0]

-----------------------------------------------------------------------------
(* enqueue *)

\* The flush that works on the front slot has given the block back.
FrontRetired == \E f \in Flushers : pc[f] \in {"stats", "clear"}

\* Somebody is still to retire the block.
Held(b) ==
  \/ \E p \in Producers : pc[p] \in {"claim", "check", "fill", "publish"} /\ block[p] = b
  \/ \E i \in Index : blockBase[i] = b /\ ~ (i = Front /\ FrontRetired)

\* Region::destroy reads the epoch before it calls endRetiring, whose last act
\* is the enqueue.
EndRetiring(p, b) ==
  /\ At(p, "idle")
  /\ pc[RegionOf[b]] = "open"
  /\ ~ Held(b)
  /\ epoch + 2 <= EpochBound
  /\ block' = [block EXCEPT ![p] = b]
  /\ read'  = [read EXCEPT ![p] = epoch]
  /\ Goto(p, "claim")
  /\ UNCHANGED <<head, tail, slotVars, flushLock, epoch, quarantined, aborted, ticket>>

Claim(p) ==
  /\ At(p, "claim")
  /\ tail < TailBound
  /\ ticket' = [ticket EXCEPT ![p] = tail]
  /\ tail' = tail + 1
  /\ Goto(p, "check")
  /\ UNCHANGED <<head, slotVars, flushLock, epoch, quarantined, aborted, block, read>>

\* Mutant: off by one, a full ring has room.
CheckRoomFull(p) ==
  /\ At(p, "check")
  /\ ticket[p] - head <= Capacity
  /\ Goto(p, "fill")
  /\ UNCHANGED <<head, tail, slotVars, flushLock, epoch, quarantined, aborted, localVars>>

\* m_Head, read after the claim, decides whether the slot can still be in use.
CheckRoom(p) ==
  /\ At(p, "check")
  /\ ticket[p] - head < Capacity
  /\ Goto(p, "fill")
  /\ UNCHANGED <<head, tail, slotVars, flushLock, epoch, quarantined, aborted, localVars>>

\* _onSaturation: the process traps.
Saturate(p) ==
  /\ At(p, "check")
  /\ ticket[p] - head >= Capacity
  /\ aborted' = TRUE
  /\ UNCHANGED <<head, tail, slotVars, flushLock, epoch, quarantined, pc, localVars>>

\* Mutant: the arguments of enqueue are swapped.
FillSwapped(p) ==
  LET i == Slot(ticket[p])
  IN /\ At(p, "fill")
     /\ stamp' = [stamp EXCEPT ![i] = read[p]]
     /\ owner' = [owner EXCEPT ![i] = block[p]]
     /\ Goto(p, "publish")
     /\ UNCHANGED <<head, tail, blockBase, since, flushLock, epoch, quarantined,
                    aborted, localVars>>

Fill(p) ==
  LET i == Slot(ticket[p])
  IN /\ At(p, "fill")
     /\ stamp' = [stamp EXCEPT ![i] = read[p]]
     /\ owner' = [owner EXCEPT ![i] = RegionOf[block[p]]]
     /\ Goto(p, "publish")
     /\ UNCHANGED <<head, tail, blockBase, since, flushLock, epoch, quarantined,
                    aborted, localVars>>

Publish(p) ==
  LET i == Slot(ticket[p])
  IN /\ At(p, "publish")
     /\ blockBase' = [blockBase EXCEPT ![i] = block[p]]
     /\ since' = [since EXCEPT ![i] = epoch]
     /\ Goto(p, "count")
     /\ UNCHANGED <<head, tail, stamp, owner, flushLock, epoch, quarantined, aborted,
                    localVars>>

\* statsOnQuarantineEnqueue; enqueue, endRetiring and destroy return.
Count(p) ==
  /\ At(p, "count")
  /\ quarantined' = quarantined + 1
  /\ block'  = [block EXCEPT ![p] = Null]
  /\ read'   = [read EXCEPT ![p] = 0]
  /\ ticket' = [ticket EXCEPT ![p] = 0]
  /\ Goto(p, "idle")
  /\ UNCHANGED <<head, tail, slotVars, flushLock, epoch, aborted>>

-----------------------------------------------------------------------------
(* flushEligible: unforced by the drain thread, forced by ~Region *)

FlushLock(f) ==
  /\ At(f, "lock")
  /\ flushLock = Null
  /\ flushLock' = f
  /\ Goto(f, "look")
  /\ UNCHANGED <<head, tail, slotVars, epoch, quarantined, aborted, localVars>>

\* Mutant: off by one, the newest entry is left in the ring.
FlushLookButOne(f) ==
  /\ At(f, "look")
  /\ Goto(f, IF head + 1 >= tail THEN "unlock" ELSE "load")
  /\ UNCHANGED <<head, tail, slotVars, flushLock, epoch, quarantined, aborted, localVars>>

FlushLook(f) ==
  /\ At(f, "look")
  /\ Goto(f, IF head >= tail THEN "unlock" ELSE "load")
  /\ UNCHANGED <<head, tail, slotVars, flushLock, epoch, quarantined, aborted, localVars>>

\* Mutants: a claimed slot is taken for a published one; it is skipped.
FlushLoadUnpublished(f) ==
  /\ At(f, "load")
  /\ Goto(f, IF f = Drain THEN "age" ELSE "retire")
  /\ UNCHANGED <<head, tail, slotVars, flushLock, epoch, quarantined, aborted, localVars>>

FlushLoadSkips(f) ==
  /\ At(f, "load")
  /\ Goto(f, CASE blockBase[Front] = Null -> "advance"
               [] blockBase[Front] # Null /\ f = Drain -> "age"
               [] OTHER -> "retire")
  /\ UNCHANGED <<head, tail, slotVars, flushLock, epoch, quarantined, aborted, localVars>>

\* A claimed slot that is not published yet ends the flush, a forced one too.
FlushLoad(f) ==
  /\ At(f, "load")
  /\ Goto(f, CASE blockBase[Front] = Null -> "unlock"
               [] blockBase[Front] # Null /\ f = Drain -> "age"
               [] OTHER -> "retire")
  /\ UNCHANGED <<head, tail, slotVars, flushLock, epoch, quarantined, aborted, localVars>>

FlushAge(f) ==
  /\ At(f, "age")
  /\ Goto(f, IF stamp[Front] + 2 > epoch THEN "unlock" ELSE "retire")
  /\ UNCHANGED <<head, tail, slotVars, flushLock, epoch, quarantined, aborted, localVars>>

\* _retireSlot: retire() in the owning registry, then the deallocation.
FlushRetire(f) ==
  /\ At(f, "retire")
  /\ Goto(f, "stats")
  /\ UNCHANGED <<head, tail, slotVars, flushLock, epoch, quarantined, aborted, localVars>>

\* Mutant: the block still counts as quarantined.
FlushStatsMissing(f) ==
  /\ At(f, "stats")
  /\ Goto(f, "clear")
  /\ UNCHANGED <<head, tail, slotVars, flushLock, epoch, quarantined, aborted, localVars>>

FlushStats(f) ==
  /\ At(f, "stats")
  /\ quarantined' = quarantined - 1
  /\ Goto(f, "clear")
  /\ UNCHANGED <<head, tail, slotVars, flushLock, epoch, aborted, localVars>>

\* Mutant: m_BlockBase is not nulled.
FlushClearKeepsBase(f) ==
  /\ At(f, "clear")
  /\ stamp' = [stamp EXCEPT ![Front] = 0]
  /\ owner' = [owner EXCEPT ![Front] = Null]
  /\ since' = [since EXCEPT ![Front] = 0]
  /\ Goto(f, "advance")
  /\ UNCHANGED <<head, tail, blockBase, flushLock, epoch, quarantined, aborted,
                 localVars>>

FlushClear(f) ==
  /\ At(f, "clear")
  /\ stamp'     = [stamp EXCEPT ![Front] = 0]
  /\ owner'     = [owner EXCEPT ![Front] = Null]
  /\ blockBase' = [blockBase EXCEPT ![Front] = Null]
  /\ since'     = [since EXCEPT ![Front] = 0]
  /\ Goto(f, "advance")
  /\ UNCHANGED <<head, tail, flushLock, epoch, quarantined, aborted, localVars>>

FlushAdvance(f) ==
  /\ At(f, "advance")
  /\ head' = head + 1
  /\ Goto(f, "look")
  /\ UNCHANGED <<tail, slotVars, flushLock, epoch, quarantined, aborted, localVars>>

\* Mutant: m_FlushLock stays taken.
FlushUnlockForgets(f) ==
  /\ At(f, "unlock")
  /\ Goto(f, IF f = Drain THEN "sleep" ELSE "shutdown")
  /\ UNCHANGED <<head, tail, slotVars, flushLock, epoch, quarantined, aborted, localVars>>

FlushUnlock(f) ==
  /\ At(f, "unlock")
  /\ flushLock' = Null
  /\ Goto(f, IF f = Drain THEN "sleep" ELSE "shutdown")
  /\ UNCHANGED <<head, tail, slotVars, epoch, quarantined, aborted, localVars>>

\* _drainLoop after its sleep.
Tick ==
  /\ At(Drain, "sleep")
  /\ epoch' = IF epoch < EpochBound THEN epoch + 1 ELSE epoch
  /\ Goto(Drain, "lock")
  /\ UNCHANGED <<head, tail, slotVars, flushLock, quarantined, aborted, localVars>>

\* ~Region, called when no destroy() of the region is running ...
DestroyRegion(r) ==
  /\ At(r, "open")
  /\ \A p \in Producers : block[p] # Null => RegionOf[block[p]] # r
  /\ Goto(r, "lock")
  /\ UNCHANGED <<head, tail, slotVars, flushLock, epoch, quarantined, aborted, localVars>>

\* ... releases the registry of the region after the flush.
RegionShutdown(r) ==
  /\ At(r, "shutdown")
  /\ Goto(r, "gone")
  /\ UNCHANGED <<head, tail, slotVars, flushLock, epoch, quarantined, aborted, localVars>>

-----------------------------------------------------------------------------
ProducerStep(p) ==
  \/ Claim(p)
  \/ CheckRoom(p)
  \/ Saturate(p)
  \/ Fill(p)
  \/ Publish(p)
  \/ Count(p)

\* A flush once it has the lock.
FlushStep(f) ==
  \/ FlushLook(f)
  \/ FlushLoad(f)
  \/ FlushAge(f)
  \/ FlushRetire(f)
  \/ FlushStats(f)
  \/ FlushClear(f)
  \/ FlushAdvance(f)
  \/ FlushUnlock(f)

Next ==
  \/ \E p \in Producers : (\E b \in Blocks : EndRetiring(p, b)) \/ ProducerStep(p)
  \/ \E f \in Flushers : FlushLock(f) \/ FlushStep(f)
  \/ Tick
  \/ \E r \in Regions : DestroyRegion(r) \/ RegionShutdown(r)

\* Threads keep running.  m_FlushLock is a spin lock without any order: a thread
\* that waits for it gets it only when it stays free from some time on.
Fairness ==
  /\ \A p \in Producers : WF_vars(ProducerStep(p))
  /\ \A f \in Flushers : WF_vars(FlushLock(f)) /\ WF_vars(FlushStep(f))
  /\ WF_vars(Tick)
  /\ \A r \in Regions : WF_vars(RegionShutdown(r))

Spec     == Init /\ [][Next]_vars
FairSpec == Spec /\ Fairness

-----------------------------------------------------------------------------
(* Properties *)

ProducerPoints == {"idle", "claim", "check", "fill", "publish", "count"}

FlushPoints ==
  {"lock", "look", "load", "age", "retire", "stats", "clear", "advance", "unlock"}

\* Every variable has the type its C++ field has, and every thread is at a
\* control point of its own code; m_QuarantinedBlocks may wrap below zero
\* (QuarantineQueue.cpp:101, 156).
TypeOK ==
  /\ head \in Nat /\ tail \in Nat /\ epoch \in Nat /\ quarantined \in Int
  /\ aborted     \in BOOLEAN
  /\ blockBase   \in [Index -> Blocks \union {Null}]
  /\ stamp       \in [Index -> Nat]
  /\ owner       \in [Index -> Regions \union {Null}]
  /\ since       \in [Index -> Nat]
  /\ flushLock   \in Flushers \union {Null}
  /\ DOMAIN pc = Threads
  /\ \A p \in Producers : pc[p] \in ProducerPoints
  /\ pc[Drain] \in FlushPoints \union {"sleep"}
  /\ \A r \in Regions : pc[r] \in FlushPoints \union {"open", "shutdown", "gone"}
  /\ block  \in [Producers -> Blocks \union {Null}]
  /\ read   \in [Producers -> Nat]
  /\ ticket \in [Producers -> Nat]

Writes(p) == pc[p] \in {"fill", "publish"}

\* The control points at which a flush works on the front slot.
Works(f) == pc[f] \in {"age", "retire", "stats", "clear"}

\* A producer that has passed the room check has its slot to itself, although
\* two claims a capacity apart share an index: the slot is empty (the assertion
\* of QuarantineQueue.cpp:91), no other producer writes it, no flush clears it.
SlotsExclusive ==
  \A p \in Producers : Writes(p) =>
    /\ blockBase[Slot(ticket[p])] = Null
    /\ \A q \in Producers : Writes(q) /\ Slot(ticket[q]) = Slot(ticket[p]) => q = p
    /\ \A f \in Flushers : Works(f) => Slot(ticket[p]) # Front

\* A flush that has seen m_BlockBase sees the fields of the same enqueue: they
\* are plain stores, ordered by the release store of m_BlockBase alone.
NoTornEntry ==
  \A f \in Flushers : pc[f] \in {"age", "retire"} =>
    /\ blockBase[Front] # Null
    /\ owner[Front] = RegionOf[blockBase[Front]]

Pending(p) == pc[p] \in {"check", "fill", "publish"}

\* No claim is ever lost and none is left behind: every ticket from m_Head to
\* m_Tail is still with the producer that claimed it or published in its slot,
\* but for the one whose slot a flush has just cleared; all other slots are empty.
TicketsAccounted ==
  /\ \A k \in head .. tail - 1 :
       \/ \E p \in Producers : Pending(p) /\ ticket[p] = k
       \/ k < head + Capacity /\ blockBase[Slot(k)] # Null
       \/ k = head /\ \E f \in Flushers : pc[f] = "advance"
  /\ \A i \in Index : blockBase[i] # Null =>
       \E k \in head .. tail - 1 : k < head + Capacity /\ Slot(k) = i

\* m_QuarantinedBlocks is off by the operations in flight only: it counts the
\* blocks in the ring whenever nobody is inside.
QuarantinedMatches ==
  quarantined = Cardinality({i \in Index : blockBase[i] # Null})
                - Cardinality({p \in Producers : pc[p] = "count"})
                - Cardinality({f \in Flushers : pc[f] = "clear"})

(* Refinement *)

\* The oldest ticket that is not retired yet.
Oldest ==
  IF \E f \in Flushers : pc[f] \in {"stats", "clear", "advance"} THEN head + 1 ELSE head

EntryOf(k) ==
  LET claimants == {p \in Producers : Pending(p) /\ ticket[p] = k}
  IN IF claimants = {} THEN [block |-> blockBase[Slot(k)], ready |-> TRUE]
     ELSE [block |-> block[CHOOSE p \in claimants : TRUE], ready |-> FALSE]

Reservations == INSTANCE ReservationQueue
  WITH queue <- [i \in 1 .. tail - Oldest |-> EntryOf(Oldest + i - 1)]

\* The ring is a queue: however claims, publications and flushes interleave,
\* blocks are retired in the order of their claims, each one once and none
\* before it is published.
RefinesReservationQueue == Reservations!Spec

(* Liveness *)

\* Every block in the ring is retired, although the slots before it are filled
\* by other threads and the drain thread waits for two epochs.
PublishedRetired ==
  \A i \in Index : blockBase[i] # Null ~> blockBase[i] = Null \/ aborted

\* Whoever holds m_FlushLock while a destructor spins for it gives it back, and a
\* destructor that has got it returns, although other threads enqueue blocks of
\* other regions behind the one it works on (its flush is forced, and ends only at
\* a slot that is not published, or when nobody claims another one).
DestructorReturns ==
  \A r \in Regions :
    /\ pc[r] = "lock" ~> flushLock \in {Null, r} \/ aborted
    /\ flushLock = r ~> pc[r] = "gone" \/ aborted

(* What the documentation says *)

\* "A destroyed block ... sits in the shared quarantine queue for at least two
\* epochs before its memory is physically released" (README.md:117).  A region
\* flushing its own blocks on destruction is not held against that.
TwoEpochs ==
  \A f \in Flushers : pc[f] = "retire" /\ RegionOf[blockBase[Front]] # f =>
    since[Front] + 2 <= epoch

\* m_OwningRegistry is "stamped at enqueue time so flushEligible can route the
\* Quarantine->Dead CAS" (QuarantineQueue.h:35): the registry it names exists.
OwnerAlive == \A f \in Flushers : pc[f] = "retire" => pc[owner[Front]] # "gone"
=============================================================================
