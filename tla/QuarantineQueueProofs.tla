------------------------ MODULE QuarantineQueueProofs ------------------------
(***************************************************************************)
(* What QuarantineQueue promises for any number of producers, regions and  *)
(* blocks and any capacity: the invariant RingInv is inductive, and the    *)
(* safety properties of the ring follow from it.                           *)
(*                                                                         *)
(* The argument: within the window of Capacity tickets that starts at      *)
(* m_Head, a ticket has its slot to itself (SlotInjective).  The room      *)
(* check lets a producer write only inside the window, m_Head only grows,  *)
(* and it grows only past a slot that has been cleared; so a slot in the   *)
(* window is empty until the one producer with its ticket publishes it.    *)
(*                                                                         *)
(* From there on: m_QuarantinedBlocks counts the published slots, and the  *)
(* ring implements ReservationQueue, the queue being the tickets from the  *)
(* oldest one that is not retired up to m_Tail.                            *)
(***************************************************************************)
EXTENDS QuarantineQueueInvariant, FiniteSetTheorems, SequenceTheorems, TLAPS

-----------------------------------------------------------------------------
\* A slot number is an index of the ring.
LEMMA SlotType == ASSUME NEW k \in Nat PROVE Slot(k) \in Index
  BY BoundsAssumption DEF Slot, Index

\* A ticket is so many turns of the ring and a slot.
LEMMA SlotDiv ==
  ASSUME NEW k \in Nat
  PROVE  k = Capacity * (k \div Capacity) + Slot(k) /\ (k \div Capacity) \in Nat
  BY BoundsAssumption DEF Slot

\* A turn more is at least a capacity more.
LEMMA Mult ==
  ASSUME NEW c \in Nat \ {0}, NEW x \in Nat, NEW y \in Nat, x < y
  PROVE  c * x + c <= c * y
<1>1. PICK d \in Nat : y = x + 1 + d
  <2>1. y - x - 1 \in Nat /\ y = x + 1 + (y - x - 1)
    OBVIOUS
  <2> QED
    BY <2>1
<1>2. c * y = c * x + c + c * d
  BY <1>1
<1>3. c * d \in Nat /\ c * x \in Nat
  OBVIOUS
<1> QED
  BY <1>2, <1>3

\* Tickets less than a capacity apart have different slots.
LEMMA SlotInjective ==
  ASSUME NEW a \in Nat, NEW b \in Nat, a < b, b < a + Capacity
  PROVE  Slot(a) # Slot(b)
<1> SUFFICES ASSUME Slot(a) = Slot(b) PROVE FALSE
  OBVIOUS
<1> DEFINE x == a \div Capacity
           y == b \div Capacity
<1>1. /\ a = Capacity * x + Slot(a) /\ x \in Nat
      /\ b = Capacity * y + Slot(b) /\ y \in Nat
  BY SlotDiv
<1>a. Slot(a) \in Nat /\ Slot(b) \in Nat
  BY SlotType DEF Index
<1> HIDE DEF x, y
<1>c. Capacity \in Nat \ {0}
  BY BoundsAssumption
<1>b. Capacity * x \in Nat /\ Capacity * y \in Nat
  BY <1>1, <1>c
<1>2. x < y
  <2>1. CASE x = y
    BY <2>1, <1>1, <1>a, <1>b
  <2>2. CASE y < x
    <3>1. Capacity * y + Capacity <= Capacity * x
      BY <1>1, <1>c, <2>2, Mult
    <3> QED
      BY <3>1, <1>1, <1>a, <1>b, <1>c
  <2> QED
    BY <2>1, <2>2, <1>1
<1>3. Capacity * x + Capacity <= Capacity * y
  BY <1>1, <1>2, <1>c, Mult
<1> QED
  BY <1>1, <1>3, <1>a, <1>b, <1>c

\* Every step keeps the types.
LEMMA TypeStep == RingInv /\ Next => TypeOK'
<1> SUFFICES ASSUME RingInv, Next PROVE TypeOK'
  OBVIOUS
<1> USE ThreadsAssumption, BlocksAssumption, BoundsAssumption
    DEF RingInv, TypeOK, Threads, Flushers, At, Goto, slotVars, localVars
<1>1. ASSUME NEW p \in Producers, NEW b \in Blocks, EndRetiring(p, b)
      PROVE  TypeOK'
  BY <1>1 DEF EndRetiring, ProducerPoints, FlushPoints
<1>2. ASSUME NEW p \in Producers, Claim(p) PROVE TypeOK'
  BY <1>2 DEF Claim, ProducerPoints, FlushPoints
<1>3. ASSUME NEW p \in Producers, CheckRoom(p) PROVE TypeOK'
  BY <1>3 DEF CheckRoom, ProducerPoints, FlushPoints
<1>4. ASSUME NEW p \in Producers, Saturate(p) PROVE TypeOK'
  BY <1>4 DEF Saturate, ProducerPoints, FlushPoints
<1>5. ASSUME NEW p \in Producers, Fill(p) PROVE TypeOK'
  BY <1>5 DEF Fill, ProducerPoints, FlushPoints, TicketOK
<1>6. ASSUME NEW p \in Producers, Publish(p) PROVE TypeOK'
  BY <1>6 DEF Publish, ProducerPoints, FlushPoints
<1>7. ASSUME NEW p \in Producers, Count(p) PROVE TypeOK'
  BY <1>7 DEF Count, ProducerPoints, FlushPoints
<1>8. ASSUME NEW f \in Flushers, FlushLock(f) PROVE TypeOK'
  BY <1>8 DEF FlushLock, ProducerPoints, FlushPoints
<1>9. ASSUME NEW f \in Flushers, FlushLook(f) PROVE TypeOK'
  BY <1>9 DEF FlushLook, ProducerPoints, FlushPoints
<1>10. ASSUME NEW f \in Flushers, FlushLoad(f) PROVE TypeOK'
  BY <1>10 DEF FlushLoad, ProducerPoints, FlushPoints
<1>11. ASSUME NEW f \in Flushers, FlushAge(f) PROVE TypeOK'
  BY <1>11 DEF FlushAge, ProducerPoints, FlushPoints
<1>12. ASSUME NEW f \in Flushers, FlushRetire(f) PROVE TypeOK'
  BY <1>12 DEF FlushRetire, ProducerPoints, FlushPoints
<1>13. ASSUME NEW f \in Flushers, FlushStats(f) PROVE TypeOK'
  BY <1>13 DEF FlushStats, ProducerPoints, FlushPoints
<1>14. ASSUME NEW f \in Flushers, FlushClear(f) PROVE TypeOK'
  BY <1>14 DEF FlushClear, ProducerPoints, FlushPoints
<1>15. ASSUME NEW f \in Flushers, FlushAdvance(f) PROVE TypeOK'
  BY <1>15 DEF FlushAdvance, ProducerPoints, FlushPoints
<1>16. ASSUME NEW f \in Flushers, FlushUnlock(f) PROVE TypeOK'
  BY <1>16 DEF FlushUnlock, ProducerPoints, FlushPoints
<1>17. ASSUME Tick PROVE TypeOK'
  BY <1>17 DEF Tick, ProducerPoints, FlushPoints
<1>18. ASSUME NEW r \in Regions, DestroyRegion(r) PROVE TypeOK'
  BY <1>18 DEF DestroyRegion, ProducerPoints, FlushPoints
<1>19. ASSUME NEW r \in Regions, RegionShutdown(r) PROVE TypeOK'
  BY <1>19 DEF RegionShutdown, ProducerPoints, FlushPoints
<1> QED
  BY <1>1, <1>2, <1>3, <1>4, <1>5, <1>6, <1>7, <1>8, <1>9, <1>10, <1>11, <1>12,
     <1>13, <1>14, <1>15, <1>16, <1>17, <1>18, <1>19
  DEF Next, ProducerStep, FlushStep

\* Every step keeps m_FlushLock with the thread inside flushEligible.
LEMMA LockStep == RingInv /\ Next => LockOK'
<1> SUFFICES ASSUME RingInv, Next PROVE LockOK'
  OBVIOUS
<1> USE ThreadsAssumption, BlocksAssumption, BoundsAssumption
    DEF RingInv, TypeOK, Threads, Flushers, At, Goto, slotVars, localVars
<1>1. ASSUME NEW p \in Producers, NEW b \in Blocks, EndRetiring(p, b)
      PROVE  LockOK'
  BY <1>1 DEF EndRetiring, LockOK, LockedPoints
<1>2. ASSUME NEW p \in Producers, Claim(p) PROVE LockOK'
  BY <1>2 DEF Claim, LockOK, LockedPoints
<1>3. ASSUME NEW p \in Producers, CheckRoom(p) PROVE LockOK'
  BY <1>3 DEF CheckRoom, LockOK, LockedPoints
<1>4. ASSUME NEW p \in Producers, Saturate(p) PROVE LockOK'
  BY <1>4 DEF Saturate, LockOK, LockedPoints
<1>5. ASSUME NEW p \in Producers, Fill(p) PROVE LockOK'
  BY <1>5 DEF Fill, LockOK, LockedPoints
<1>6. ASSUME NEW p \in Producers, Publish(p) PROVE LockOK'
  BY <1>6 DEF Publish, LockOK, LockedPoints
<1>7. ASSUME NEW p \in Producers, Count(p) PROVE LockOK'
  BY <1>7 DEF Count, LockOK, LockedPoints
<1>8. ASSUME NEW f \in Flushers, FlushLock(f) PROVE LockOK'
  BY <1>8 DEF FlushLock, LockOK, LockedPoints
<1>9. ASSUME NEW f \in Flushers, FlushLook(f) PROVE LockOK'
  BY <1>9 DEF FlushLook, LockOK, LockedPoints
<1>10. ASSUME NEW f \in Flushers, FlushLoad(f) PROVE LockOK'
  BY <1>10 DEF FlushLoad, LockOK, LockedPoints
<1>11. ASSUME NEW f \in Flushers, FlushAge(f) PROVE LockOK'
  BY <1>11 DEF FlushAge, LockOK, LockedPoints
<1>12. ASSUME NEW f \in Flushers, FlushRetire(f) PROVE LockOK'
  BY <1>12 DEF FlushRetire, LockOK, LockedPoints
<1>13. ASSUME NEW f \in Flushers, FlushStats(f) PROVE LockOK'
  BY <1>13 DEF FlushStats, LockOK, LockedPoints
<1>14. ASSUME NEW f \in Flushers, FlushClear(f) PROVE LockOK'
  BY <1>14 DEF FlushClear, LockOK, LockedPoints
<1>15. ASSUME NEW f \in Flushers, FlushAdvance(f) PROVE LockOK'
  BY <1>15 DEF FlushAdvance, LockOK, LockedPoints
<1>16. ASSUME NEW f \in Flushers, FlushUnlock(f) PROVE LockOK'
  BY <1>16 DEF FlushUnlock, LockOK, LockedPoints
<1>17. ASSUME Tick PROVE LockOK'
  BY <1>17 DEF Tick, LockOK, LockedPoints
<1>18. ASSUME NEW r \in Regions, DestroyRegion(r) PROVE LockOK'
  BY <1>18 DEF DestroyRegion, LockOK, LockedPoints
<1>19. ASSUME NEW r \in Regions, RegionShutdown(r) PROVE LockOK'
  BY <1>19 DEF RegionShutdown, LockOK, LockedPoints
<1> QED
  BY <1>1, <1>2, <1>3, <1>4, <1>5, <1>6, <1>7, <1>8, <1>9, <1>10, <1>11, <1>12,
     <1>13, <1>14, <1>15, <1>16, <1>17, <1>18, <1>19
  DEF Next, ProducerStep, FlushStep

\* Every step keeps tickets unique and those of writers inside the window:
\* m_Head moves past a ticket only when no producer has it any more.
LEMMA TicketStep == RingInv /\ Next => TicketOK'
<1> SUFFICES ASSUME RingInv, Next PROVE TicketOK'
  OBVIOUS
<1> USE ThreadsAssumption, BlocksAssumption, BoundsAssumption
    DEF RingInv, TypeOK, Threads, Flushers, At, Goto, slotVars, localVars
<1>1. ASSUME NEW p \in Producers, NEW b \in Blocks, EndRetiring(p, b)
      PROVE  TicketOK'
  BY <1>1 DEF EndRetiring, TicketOK, Pending, Writes
<1>2. ASSUME NEW p \in Producers, Claim(p) PROVE TicketOK'
  BY <1>2 DEF Claim, TicketOK, Pending, Writes
<1>3. ASSUME NEW p \in Producers, CheckRoom(p) PROVE TicketOK'
  BY <1>3 DEF CheckRoom, TicketOK, Pending, Writes
<1>4. ASSUME NEW p \in Producers, Saturate(p) PROVE TicketOK'
  BY <1>4 DEF Saturate, TicketOK, Pending, Writes
<1>5. ASSUME NEW p \in Producers, Fill(p) PROVE TicketOK'
  BY <1>5 DEF Fill, TicketOK, Pending, Writes
<1>6. ASSUME NEW p \in Producers, Publish(p) PROVE TicketOK'
  BY <1>6 DEF Publish, TicketOK, Pending, Writes
<1>7. ASSUME NEW p \in Producers, Count(p) PROVE TicketOK'
  BY <1>7 DEF Count, TicketOK, Pending, Writes
<1>8. ASSUME NEW f \in Flushers, FlushLock(f) PROVE TicketOK'
  BY <1>8 DEF FlushLock, TicketOK, Pending, Writes
<1>9. ASSUME NEW f \in Flushers, FlushLook(f) PROVE TicketOK'
  BY <1>9 DEF FlushLook, TicketOK, Pending, Writes
<1>10. ASSUME NEW f \in Flushers, FlushLoad(f) PROVE TicketOK'
  BY <1>10 DEF FlushLoad, TicketOK, Pending, Writes
<1>11. ASSUME NEW f \in Flushers, FlushAge(f) PROVE TicketOK'
  BY <1>11 DEF FlushAge, TicketOK, Pending, Writes
<1>12. ASSUME NEW f \in Flushers, FlushRetire(f) PROVE TicketOK'
  BY <1>12 DEF FlushRetire, TicketOK, Pending, Writes
<1>13. ASSUME NEW f \in Flushers, FlushStats(f) PROVE TicketOK'
  BY <1>13 DEF FlushStats, TicketOK, Pending, Writes
<1>14. ASSUME NEW f \in Flushers, FlushClear(f) PROVE TicketOK'
  BY <1>14 DEF FlushClear, TicketOK, Pending, Writes
<1>15. ASSUME NEW f \in Flushers, FlushAdvance(f) PROVE TicketOK'
  BY <1>15 DEF FlushAdvance, TicketOK, Pending, Writes, FlushOK
<1>16. ASSUME NEW f \in Flushers, FlushUnlock(f) PROVE TicketOK'
  BY <1>16 DEF FlushUnlock, TicketOK, Pending, Writes
<1>17. ASSUME Tick PROVE TicketOK'
  BY <1>17 DEF Tick, TicketOK, Pending, Writes
<1>18. ASSUME NEW r \in Regions, DestroyRegion(r) PROVE TicketOK'
  BY <1>18 DEF DestroyRegion, TicketOK, Pending, Writes
<1>19. ASSUME NEW r \in Regions, RegionShutdown(r) PROVE TicketOK'
  BY <1>19 DEF RegionShutdown, TicketOK, Pending, Writes
<1> QED
  BY <1>1, <1>2, <1>3, <1>4, <1>5, <1>6, <1>7, <1>8, <1>9, <1>10, <1>11, <1>12,
     <1>13, <1>14, <1>15, <1>16, <1>17, <1>18, <1>19
  DEF Next, ProducerStep, FlushStep

\* m_Head does not pass m_Tail.
LEMMA HeadStep == RingInv /\ Next => (head <= tail)'
<1> SUFFICES ASSUME RingInv, Next PROVE (head <= tail)'
  OBVIOUS
<1> USE ThreadsAssumption, BlocksAssumption, BoundsAssumption
    DEF RingInv, TypeOK, Threads, Flushers, At, Goto, slotVars, localVars
<1>1. ASSUME NEW p \in Producers, NEW b \in Blocks, EndRetiring(p, b)
      PROVE  (head <= tail)'
  BY <1>1 DEF EndRetiring
<1>2. ASSUME NEW p \in Producers, Claim(p) PROVE (head <= tail)'
  BY <1>2 DEF Claim
<1>3. ASSUME NEW p \in Producers, CheckRoom(p) PROVE (head <= tail)'
  BY <1>3 DEF CheckRoom
<1>4. ASSUME NEW p \in Producers, Saturate(p) PROVE (head <= tail)'
  BY <1>4 DEF Saturate
<1>5. ASSUME NEW p \in Producers, Fill(p) PROVE (head <= tail)'
  BY <1>5 DEF Fill
<1>6. ASSUME NEW p \in Producers, Publish(p) PROVE (head <= tail)'
  BY <1>6 DEF Publish
<1>7. ASSUME NEW p \in Producers, Count(p) PROVE (head <= tail)'
  BY <1>7 DEF Count
<1>8. ASSUME NEW f \in Flushers, FlushLock(f) PROVE (head <= tail)'
  BY <1>8 DEF FlushLock
<1>9. ASSUME NEW f \in Flushers, FlushLook(f) PROVE (head <= tail)'
  BY <1>9 DEF FlushLook
<1>10. ASSUME NEW f \in Flushers, FlushLoad(f) PROVE (head <= tail)'
  BY <1>10 DEF FlushLoad
<1>11. ASSUME NEW f \in Flushers, FlushAge(f) PROVE (head <= tail)'
  BY <1>11 DEF FlushAge
<1>12. ASSUME NEW f \in Flushers, FlushRetire(f) PROVE (head <= tail)'
  BY <1>12 DEF FlushRetire
<1>13. ASSUME NEW f \in Flushers, FlushStats(f) PROVE (head <= tail)'
  BY <1>13 DEF FlushStats
<1>14. ASSUME NEW f \in Flushers, FlushClear(f) PROVE (head <= tail)'
  BY <1>14 DEF FlushClear
<1>15. ASSUME NEW f \in Flushers, FlushAdvance(f) PROVE (head <= tail)'
  BY <1>15 DEF FlushAdvance, FlushOK
<1>16. ASSUME NEW f \in Flushers, FlushUnlock(f) PROVE (head <= tail)'
  BY <1>16 DEF FlushUnlock
<1>17. ASSUME Tick PROVE (head <= tail)'
  BY <1>17 DEF Tick
<1>18. ASSUME NEW r \in Regions, DestroyRegion(r) PROVE (head <= tail)'
  BY <1>18 DEF DestroyRegion
<1>19. ASSUME NEW r \in Regions, RegionShutdown(r) PROVE (head <= tail)'
  BY <1>19 DEF RegionShutdown
<1> QED
  BY <1>1, <1>2, <1>3, <1>4, <1>5, <1>6, <1>7, <1>8, <1>9, <1>10, <1>11, <1>12,
     <1>13, <1>14, <1>15, <1>16, <1>17, <1>18, <1>19
  DEF Next, ProducerStep, FlushStep

\* Two tickets of the window never share a slot.
LEMMA WindowInjective ==
  ASSUME RingInv, NEW j \in Nat, NEW k \in Nat, InWindow(j), InWindow(k), Slot(j) = Slot(k)
  PROVE  j = k
<1>1. head \in Nat /\ Capacity \in Nat
  BY BoundsAssumption DEF RingInv, TypeOK
<1>2. CASE j < k
  BY <1>1, <1>2, SlotInjective DEF InWindow
<1>3. CASE k < j
  BY <1>1, <1>3, SlotInjective DEF InWindow
<1> QED
  BY <1>2, <1>3

\* The slot of a producer's ticket is empty while the ticket is in the window.
LEMMA PendingSlotEmpty ==
  ASSUME RingInv, NEW p \in Producers, Pending(p), ticket[p] < head + Capacity
  PROVE  blockBase[Slot(ticket[p])] = Null
<1>1. ticket[p] \in Nat /\ InWindow(ticket[p])
  BY DEF RingInv, TypeOK, TicketOK, InWindow
<1>2. Slot(ticket[p]) \in Index
  BY <1>1, SlotType
<1> SUFFICES ASSUME blockBase[Slot(ticket[p])] # Null PROVE FALSE
  OBVIOUS
<1>3. PICK k \in head .. tail :
        InWindow(k) /\ Slot(k) = Slot(ticket[p]) /\ \A q \in Producers : Pending(q) => ticket[q] # k
  BY <1>2 DEF RingInv, SlotOK
<1>4. k \in Nat
  BY <1>3 DEF RingInv, TypeOK
<1> QED
  BY <1>1, <1>3, <1>4, WindowInjective

\* Writers have slots of their own, and none of them is the front slot a flush
\* works on.
LEMMA WritersApart ==
  ASSUME RingInv, NEW p \in Producers, Writes(p)
  PROVE  /\ Pending(p) /\ ticket[p] \in Nat /\ InWindow(ticket[p])
         /\ Slot(ticket[p]) \in Index
         /\ blockBase[Slot(ticket[p])] = Null
         /\ \A q \in Producers : Writes(q) /\ Slot(ticket[q]) = Slot(ticket[p]) => q = p
         /\ \A f \in Flushers : Works(f) => Slot(ticket[p]) # Front
<1>1. \A q \in Producers : Writes(q) =>
        Pending(q) /\ ticket[q] \in Nat /\ InWindow(ticket[q]) /\ ticket[q] < head + Capacity
  BY DEF RingInv, TypeOK, TicketOK, InWindow, Writes, Pending
<1>2. Slot(ticket[p]) \in Index
  BY <1>1, SlotType
<1>3. blockBase[Slot(ticket[p])] = Null
  BY <1>1, PendingSlotEmpty
<1>4. ASSUME NEW q \in Producers, Writes(q), Slot(ticket[q]) = Slot(ticket[p])
      PROVE  q = p
  <2>1. ticket[q] = ticket[p]
    BY <1>1, <1>4, WindowInjective
  <2> QED
    BY <1>1, <1>4, <2>1 DEF RingInv, TicketOK
<1>5. \A f \in Flushers : Works(f) => Slot(ticket[p]) # Front
  BY <1>3 DEF RingInv, FlushOK
<1> QED
  BY <1>1, <1>2, <1>3, <1>4, <1>5

\* What a flush has seen of the front slot stays so until it clears the slot:
\* no producer publishes there.
LEMMA FlushKept == RingInv /\ Next => FlushOK'
<1> SUFFICES ASSUME RingInv, Next PROVE FlushOK'
  OBVIOUS
<1> USE ThreadsAssumption, BlocksAssumption, BoundsAssumption
    DEF RingInv, TypeOK, Threads, Flushers, At, Goto, slotVars, localVars
<1>1. ASSUME NEW p \in Producers, NEW b \in Blocks, EndRetiring(p, b)
      PROVE  FlushOK'
  BY <1>1 DEF EndRetiring, FlushOK, Works, Pending, Front, LockOK, LockedPoints
<1>2. ASSUME NEW p \in Producers, Claim(p) PROVE FlushOK'
  BY <1>2 DEF Claim, FlushOK, Works, Pending, Front, LockOK, LockedPoints, TicketOK
<1>3. ASSUME NEW p \in Producers, CheckRoom(p) PROVE FlushOK'
  BY <1>3 DEF CheckRoom, FlushOK, Works, Pending, Front, LockOK, LockedPoints
<1>4. ASSUME NEW p \in Producers, Saturate(p) PROVE FlushOK'
  BY <1>4 DEF Saturate, FlushOK, Works, Pending, Front, LockOK, LockedPoints
<1>5. ASSUME NEW p \in Producers, Fill(p) PROVE FlushOK'
  BY <1>5 DEF Fill, FlushOK, Works, Pending, Front, LockOK, LockedPoints
<1>6. ASSUME NEW p \in Producers, Publish(p) PROVE FlushOK'
  <2>1. Writes(p)
    BY <1>6 DEF Publish, Writes
  <2>2. \A f \in Flushers : pc[f] = "advance" => Slot(ticket[p]) # Front
    <3> SUFFICES ASSUME NEW f \in Flushers, pc[f] = "advance", Slot(ticket[p]) = Front
                 PROVE  FALSE
      OBVIOUS
    <3>1. InWindow(head) /\ ticket[p] # head
      BY <2>1 DEF FlushOK, InWindow, Pending, Writes
    <3> QED
      BY <2>1, <3>1, WritersApart, WindowInjective DEF Front
  <2>3. Front \in Index
    BY SlotType DEF Front
  <2>4. block[p] \in Blocks
    BY <1>6 DEF Publish, TicketOK
  <2>5. /\ blockBase' = [blockBase EXCEPT ![Slot(ticket[p])] = block[p]]
        /\ pc' = [pc EXCEPT ![p] = "count"] /\ pc[p] = "publish"
        /\ UNCHANGED <<head, tail, ticket>> /\ Front' = Front
    BY <1>6 DEF Publish, Front, Slot
  <2> QED
    BY <2>2, <2>3, <2>4, <2>5 DEF FlushOK, Works, Pending
<1>7. ASSUME NEW p \in Producers, Count(p) PROVE FlushOK'
  BY <1>7 DEF Count, FlushOK, Works, Pending, Front, LockOK, LockedPoints
<1>8. ASSUME NEW f \in Flushers, FlushLock(f) PROVE FlushOK'
  BY <1>8 DEF FlushLock, FlushOK, Works, Pending, Front, LockOK, LockedPoints
<1>9. ASSUME NEW f \in Flushers, FlushLook(f) PROVE FlushOK'
  BY <1>9 DEF FlushLook, FlushOK, Works, Pending, Front, LockOK, LockedPoints
<1>10. ASSUME NEW f \in Flushers, FlushLoad(f) PROVE FlushOK'
  BY <1>10 DEF FlushLoad, FlushOK, Works, Pending, Front, LockOK, LockedPoints
<1>11. ASSUME NEW f \in Flushers, FlushAge(f) PROVE FlushOK'
  BY <1>11 DEF FlushAge, FlushOK, Works, Pending, Front, LockOK, LockedPoints
<1>12. ASSUME NEW f \in Flushers, FlushRetire(f) PROVE FlushOK'
  BY <1>12 DEF FlushRetire, FlushOK, Works, Pending, Front, LockOK, LockedPoints
<1>13. ASSUME NEW f \in Flushers, FlushStats(f) PROVE FlushOK'
  BY <1>13 DEF FlushStats, FlushOK, Works, Pending, Front, LockOK, LockedPoints
<1>14. ASSUME NEW f \in Flushers, FlushClear(f) PROVE FlushOK'
  <2>1. pc[f] = "clear" /\ Front \in Index /\ blockBase[Front] # Null /\ head < tail
    BY <1>14, SlotType DEF FlushClear, FlushOK, Works, Front
  <2>2. PICK k \in head .. tail :
          InWindow(k) /\ Slot(k) = Front /\ \A p \in Producers : Pending(p) => ticket[p] # k
    BY <2>1 DEF SlotOK
  <2>3. k = head
    BY <2>1, <2>2, WindowInjective DEF InWindow, Front
  <2>4. \A g \in Flushers : pc[g] \in LockedPoints => g = f
    BY <2>1 DEF LockOK, LockedPoints
  <2>5. /\ blockBase' = [blockBase EXCEPT ![Front] = Null]
        /\ pc' = [pc EXCEPT ![f] = "advance"]
        /\ UNCHANGED <<head, tail, ticket>> /\ Front' = Front
    BY <1>14 DEF FlushClear, Front, Slot
  <2>6. \A p \in Producers : Pending(p)' <=> Pending(p)
    BY <2>5 DEF Pending
  <2> QED
    BY <2>1, <2>2, <2>3, <2>4, <2>5, <2>6 DEF FlushOK, Works, LockedPoints
<1>15. ASSUME NEW f \in Flushers, FlushAdvance(f) PROVE FlushOK'
  <2>1. \A g \in Flushers : pc[g] \in LockedPoints => g = f
    BY <1>15 DEF LockOK, LockedPoints, FlushAdvance
  <2>2. pc' = [pc EXCEPT ![f] = "look"]
    BY <1>15 DEF FlushAdvance
  <2>3. \A g \in Flushers :
          pc'[g] \notin {"load", "age", "retire", "stats", "clear", "advance"}
    BY <2>1, <2>2 DEF LockedPoints
  <2> QED
    BY <2>3 DEF FlushOK, Works
<1>16. ASSUME NEW f \in Flushers, FlushUnlock(f) PROVE FlushOK'
  BY <1>16 DEF FlushUnlock, FlushOK, Works, Pending, Front, LockOK, LockedPoints
<1>17. ASSUME Tick PROVE FlushOK'
  BY <1>17 DEF Tick, FlushOK, Works, Pending, Front, LockOK, LockedPoints
<1>18. ASSUME NEW r \in Regions, DestroyRegion(r) PROVE FlushOK'
  BY <1>18 DEF DestroyRegion, FlushOK, Works, Pending, Front, LockOK, LockedPoints
<1>19. ASSUME NEW r \in Regions, RegionShutdown(r) PROVE FlushOK'
  BY <1>19 DEF RegionShutdown, FlushOK, Works, Pending, Front, LockOK, LockedPoints
<1> QED
  BY <1>1, <1>2, <1>3, <1>4, <1>5, <1>6, <1>7, <1>8, <1>9, <1>10, <1>11, <1>12,
     <1>13, <1>14, <1>15, <1>16, <1>17, <1>18, <1>19
  DEF Next, ProducerStep, FlushStep

\* The step changes no slot, gives up no ticket and leaves the front alone.
Untouched ==
  /\ UNCHANGED <<head, blockBase, owner>>
  /\ tail' \in Nat /\ tail <= tail'
  /\ \A p \in Producers :
       /\ pc'[p] = "publish" =>
            pc[p] = "publish" /\ block'[p] = block[p] /\ ticket'[p] = ticket[p]
       /\ Pending(p)' => ticket'[p] >= tail \/ (Pending(p) /\ ticket'[p] = ticket[p])
       /\ Pending(p) => Pending(p)' /\ ticket'[p] = ticket[p]
  /\ \A k \in tail .. tail' - 1 : \E p \in Producers : Pending(p)' /\ ticket'[p] = k
  /\ \A f \in Flushers : pc[f] = "advance" => pc'[f] = "advance"

\* All steps but the four that write or free a slot.
LEMMA UntouchedSteps ==
  ASSUME RingInv, Next,
         ~ \E p \in Producers : Fill(p) \/ Publish(p),
         ~ \E f \in Flushers : FlushClear(f) \/ FlushAdvance(f)
  PROVE  Untouched
<1> USE ThreadsAssumption, BlocksAssumption, BoundsAssumption
    DEF RingInv, TypeOK, Threads, Flushers, At, Goto, slotVars, localVars
<1>1. ASSUME NEW p \in Producers, NEW b \in Blocks, EndRetiring(p, b)
      PROVE  Untouched
  BY <1>1 DEF EndRetiring, Untouched, Pending
<1>2. ASSUME NEW p \in Producers, Claim(p) PROVE Untouched
  BY <1>2 DEF Claim, Untouched, Pending
<1>3. ASSUME NEW p \in Producers, CheckRoom(p) PROVE Untouched
  BY <1>3 DEF CheckRoom, Untouched, Pending
<1>4. ASSUME NEW p \in Producers, Saturate(p) PROVE Untouched
  BY <1>4 DEF Saturate, Untouched, Pending
<1>5. ASSUME NEW p \in Producers, Count(p) PROVE Untouched
  BY <1>5 DEF Count, Untouched, Pending
<1>6. ASSUME NEW f \in Flushers, FlushLock(f) PROVE Untouched
  BY <1>6 DEF FlushLock, Untouched, Pending
<1>7. ASSUME NEW f \in Flushers, FlushLook(f) PROVE Untouched
  BY <1>7 DEF FlushLook, Untouched, Pending
<1>8. ASSUME NEW f \in Flushers, FlushLoad(f) PROVE Untouched
  BY <1>8 DEF FlushLoad, Untouched, Pending
<1>9. ASSUME NEW f \in Flushers, FlushAge(f) PROVE Untouched
  BY <1>9 DEF FlushAge, Untouched, Pending
<1>10. ASSUME NEW f \in Flushers, FlushRetire(f) PROVE Untouched
  BY <1>10 DEF FlushRetire, Untouched, Pending
<1>11. ASSUME NEW f \in Flushers, FlushStats(f) PROVE Untouched
  BY <1>11 DEF FlushStats, Untouched, Pending
<1>12. ASSUME NEW f \in Flushers, FlushUnlock(f) PROVE Untouched
  BY <1>12 DEF FlushUnlock, Untouched, Pending
<1>13. ASSUME Tick PROVE Untouched
  BY <1>13 DEF Tick, Untouched, Pending
<1>14. ASSUME NEW r \in Regions, DestroyRegion(r) PROVE Untouched
  BY <1>14 DEF DestroyRegion, Untouched, Pending
<1>15. ASSUME NEW r \in Regions, RegionShutdown(r) PROVE Untouched
  BY <1>15 DEF RegionShutdown, Untouched, Pending
<1> QED
  BY <1>1, <1>2, <1>3, <1>4, <1>5, <1>6, <1>7, <1>8, <1>9, <1>10, <1>11, <1>12,
     <1>13, <1>14, <1>15
  DEF Next, ProducerStep, FlushStep

\* Such a step keeps the slots as they should be.
LEMMA UntouchedSlots == ASSUME RingInv, Untouched PROVE SlotOK'
<1> USE DEF RingInv, TypeOK
<1>1. \A k \in Nat : InWindow(k) => InWindow(k)' /\ k \in head' .. tail'
  BY DEF Untouched, InWindow
<1>2. ASSUME NEW i \in Index, blockBase'[i] # Null
      PROVE  /\ \E k \in head' .. tail' : InWindow(k)' /\ Slot(k) = i
                                          /\ \A p \in Producers : Pending(p)' => ticket'[p] # k
             /\ owner'[i] = RegionOf[blockBase'[i]]
  <2>1. PICK k \in head .. tail :
          InWindow(k) /\ Slot(k) = i /\ \A p \in Producers : Pending(p) => ticket[p] # k
    BY <1>2 DEF SlotOK, Untouched
  <2>2. k \in Nat /\ k < tail
    BY <2>1 DEF InWindow
  <2>3. \A p \in Producers : Pending(p)' => ticket'[p] # k
    BY <2>1, <2>2 DEF Untouched
  <2> QED
    BY <1>1, <1>2, <2>1, <2>2, <2>3 DEF SlotOK, Untouched
<1>3. ASSUME NEW p \in Producers, pc'[p] = "publish"
      PROVE  owner'[Slot(ticket'[p])] = RegionOf[block'[p]]
  <2>1. pc[p] = "publish" /\ block'[p] = block[p] /\ ticket'[p] = ticket[p] /\ owner' = owner
    BY <1>3 DEF Untouched
  <2> QED
    BY <2>1 DEF SlotOK
<1>4. \A p \in Producers : Slot(ticket[p])' = Slot(ticket'[p])
  BY DEF Slot
<1> QED
  BY <1>2, <1>3, <1>4 DEF SlotOK

\* Every step keeps each published slot with a ticket of the window.
LEMMA SlotKept == RingInv /\ Next => SlotOK'
<1> SUFFICES ASSUME RingInv, Next PROVE SlotOK'
  OBVIOUS
<1> USE ThreadsAssumption, BlocksAssumption, BoundsAssumption
    DEF RingInv, TypeOK, Threads, Flushers, At, Goto, slotVars, localVars
<1>1. CASE Untouched
  BY <1>1, UntouchedSlots
<1>2. ASSUME NEW p \in Producers, Fill(p) PROVE SlotOK'
  <2> DEFINE s == Slot(ticket[p])
  <2>1. Writes(p) /\ pc[p] = "fill"
    BY <1>2 DEF Fill, Writes
  <2>2. s \in Index /\ blockBase[s] = Null
    BY <2>1, WritersApart
  <2>3. \A q \in Producers : pc[q] = "publish" => Slot(ticket[q]) # s
    BY <2>1, WritersApart DEF Writes
  <2>4. /\ owner' = [owner EXCEPT ![s] = RegionOf[block[p]]]
        /\ pc' = [pc EXCEPT ![p] = "publish"]
        /\ UNCHANGED <<head, tail, blockBase, block, ticket>>
    BY <1>2 DEF Fill
  <2>5. \A q \in Producers : Pending(q)' <=> Pending(q)
    BY <2>1, <2>4 DEF Pending
  <2>6. \A q \in Producers : Slot(ticket[q])' = Slot(ticket[q])
    BY <2>4 DEF Slot
  <2>7. \A k \in Nat : InWindow(k)' <=> InWindow(k)
    BY <2>4 DEF InWindow
  <2> QED
    BY <2>2, <2>3, <2>4, <2>5, <2>6, <2>7 DEF SlotOK
<1>3. ASSUME NEW p \in Producers, Publish(p) PROVE SlotOK'
  <2> DEFINE s == Slot(ticket[p])
             k == ticket[p]
  <2>1. Writes(p) /\ pc[p] = "publish"
    BY <1>3 DEF Publish, Writes
  <2>2. /\ s \in Index /\ blockBase[s] = Null /\ InWindow(k) /\ k \in Nat /\ Pending(p)
        /\ block[p] \in Blocks
    BY <2>1, WritersApart DEF TicketOK
  <2>3. \A q \in Producers : q # p /\ pc[q] = "publish" => Slot(ticket[q]) # s
    BY <2>1, WritersApart DEF Writes
  <2>4. /\ blockBase' = [blockBase EXCEPT ![s] = block[p]]
        /\ pc' = [pc EXCEPT ![p] = "count"]
        /\ UNCHANGED <<head, tail, owner, block, ticket>>
    BY <1>3 DEF Publish
  <2>5. \A q \in Producers : Pending(q)' <=> Pending(q) /\ q # p
    BY <2>1, <2>4 DEF Pending
  <2>6. \A q \in Producers : Slot(ticket[q])' = Slot(ticket[q])
    BY <2>4 DEF Slot
  <2>7. \A j \in Nat : InWindow(j)' <=> InWindow(j)
    BY <2>4 DEF InWindow
  <2>8. \A q \in Producers : Pending(q) /\ ticket[q] = k => q = p
    BY <2>2 DEF TicketOK
  <2>9. k \in head .. tail
    BY <2>2 DEF InWindow
  <2>10. owner[s] = RegionOf[block[p]]
    BY <2>1 DEF SlotOK
  <2>11. ASSUME NEW i \in Index, blockBase'[i] # Null
         PROVE  /\ \E j \in head .. tail : InWindow(j)' /\ Slot(j) = i
                                          /\ \A q \in Producers : Pending(q)' => ticket[q] # j
                /\ owner[i] = RegionOf[blockBase'[i]]
    <3>1. CASE i = s
      BY <3>1, <2>2, <2>4, <2>5, <2>7, <2>8, <2>9, <2>10
    <3>2. CASE i # s
      BY <3>2, <2>4, <2>5, <2>7, <2>11 DEF SlotOK
    <3> QED
      BY <3>1, <3>2
  <2>12. \A q \in Producers : pc'[q] = "publish" =>
           owner[Slot(ticket[q])] = RegionOf[block[q]]
    BY <2>4 DEF SlotOK
  <2> QED
    BY <2>4, <2>6, <2>11, <2>12 DEF SlotOK
<1>4. ASSUME NEW f \in Flushers, FlushClear(f) PROVE SlotOK'
  <2>1. pc[f] = "clear" /\ Front \in Index
    BY <1>4, SlotType DEF FlushClear, Front
  <2>2. \A q \in Producers : pc[q] = "publish" => Slot(ticket[q]) # Front
    BY <2>1, WritersApart DEF Writes, Works
  <2>3. /\ blockBase' = [blockBase EXCEPT ![Front] = Null]
        /\ owner' = [owner EXCEPT ![Front] = Null]
        /\ pc' = [pc EXCEPT ![f] = "advance"]
        /\ UNCHANGED <<head, tail, block, ticket>>
    BY <1>4 DEF FlushClear
  <2>4. \A q \in Producers : pc'[q] = pc[q] /\ (Pending(q)' <=> Pending(q))
    BY <2>3 DEF Pending
  <2>5. \A q \in Producers : Slot(ticket[q])' = Slot(ticket[q])
    BY <2>3 DEF Slot
  <2>6. \A k \in Nat : InWindow(k)' <=> InWindow(k)
    BY <2>3 DEF InWindow
  <2> QED
    BY <2>1, <2>2, <2>3, <2>4, <2>5, <2>6 DEF SlotOK
<1>5. ASSUME NEW f \in Flushers, FlushAdvance(f) PROVE SlotOK'
  <2>1. /\ pc[f] = "advance" /\ blockBase[Front] = Null /\ head < tail
        /\ pc' = [pc EXCEPT ![f] = "look"] /\ head' = head + 1
        /\ UNCHANGED <<tail, blockBase, owner, block, ticket>>
    BY <1>5 DEF FlushAdvance, FlushOK
  <2>2. \A q \in Producers : pc'[q] = pc[q] /\ (Pending(q)' <=> Pending(q))
    BY <2>1 DEF Pending
  <2>3. \A q \in Producers : Slot(ticket[q])' = Slot(ticket[q])
    BY <2>1 DEF Slot
  <2>4. ASSUME NEW i \in Index, blockBase[i] # Null, NEW k \in head .. tail, InWindow(k),
               Slot(k) = i
        PROVE  k \in head' .. tail /\ InWindow(k)'
    <3>1. k # head
      BY <2>1, <2>4 DEF Front
    <3> QED
      BY <2>1, <2>4, <3>1 DEF InWindow
  <2> QED
    BY <2>1, <2>2, <2>3, <2>4 DEF SlotOK
<1> QED
  BY <1>1, <1>2, <1>3, <1>4, <1>5, UntouchedSteps

\* The tickets of the producers and the published slots cover the ring.
Covered(k) ==
  \/ \E p \in Producers : Pending(p) /\ ticket[p] = k
  \/ k < head + Capacity /\ blockBase[Slot(k)] # Null
  \/ k = head /\ \E f \in Flushers : pc[f] = "advance"

\* An interval splits where one likes.
LEMMA IntervalSplit ==
  ASSUME NEW a \in Nat, NEW b \in Nat, NEW c \in Nat, NEW k \in a .. c - 1
  PROVE  k \in a .. b - 1 \/ k \in b .. c - 1
  OBVIOUS

\* The end of an interval that is not reached.
LEMMA IntervalEnd ==
  ASSUME NEW a \in Nat, NEW b \in Nat, NEW k \in a .. b, k < b
  PROVE  k \in a .. b - 1
  OBVIOUS

\* No ticket is lost.
LEMMA AccountedKept == RingInv /\ Next => TicketsAccounted'
<1> SUFFICES ASSUME RingInv, Next PROVE TicketsAccounted'
  OBVIOUS
<1> USE ThreadsAssumption, BlocksAssumption, BoundsAssumption
    DEF RingInv, TypeOK, Threads, Flushers, At, Goto, slotVars, localVars
<1>1. ASSUME Untouched PROVE \A k \in head' .. tail' - 1 : Covered(k)'
  <2>1. ASSUME NEW k \in head .. tail' - 1
        PROVE  \/ \E p \in Producers : Pending(p)' /\ ticket'[p] = k
               \/ k < head + Capacity /\ blockBase[Slot(k)] # Null
               \/ k = head /\ \E f \in Flushers : pc'[f] = "advance"
    <3>1. CASE k \in head .. tail - 1
      BY <1>1, <3>1 DEF Untouched, TicketsAccounted
    <3>2. CASE k \in tail .. tail' - 1
      BY <1>1, <3>2 DEF Untouched
    <3>3. k \in head .. tail - 1 \/ k \in tail .. tail' - 1
      <4>1. head \in Nat /\ tail \in Nat /\ tail' \in Nat
        BY <1>1, TypeStep DEF TypeOK
      <4> QED
        BY <2>1, <4>1, IntervalSplit
    <3> QED
      BY <3>1, <3>2, <3>3
  <2>2. \A k \in Nat : Covered(k)' <=>
          \/ \E p \in Producers : Pending(p)' /\ ticket'[p] = k
          \/ k < head + Capacity /\ blockBase[Slot(k)] # Null
          \/ k = head /\ \E f \in Flushers : pc'[f] = "advance"
    BY <1>1 DEF Untouched, Covered, Slot
  <2>3. head' = head /\ \A k \in head .. tail' - 1 : k \in Nat
    BY <1>1 DEF Untouched
  <2> QED
    BY <2>1, <2>2, <2>3
<1>2. ASSUME NEW p \in Producers, Fill(p) PROVE \A k \in head' .. tail' - 1 : Covered(k)'
  <2>1. /\ pc[p] = "fill" /\ pc' = [pc EXCEPT ![p] = "publish"]
        /\ UNCHANGED <<head, tail, blockBase, ticket>>
    BY <1>2 DEF Fill
  <2>2. \A q \in Producers : Pending(q)' <=> Pending(q)
    BY <2>1 DEF Pending
  <2>3. \A f \in Flushers : pc'[f] = pc[f]
    BY <2>1
  <2>4. \A k \in Nat : Covered(k)' <=>
          \/ \E q \in Producers : Pending(q) /\ ticket[q] = k
          \/ k < head + Capacity /\ blockBase[Slot(k)] # Null
          \/ k = head /\ \E f \in Flushers : pc[f] = "advance"
    BY <2>1, <2>2, <2>3 DEF Covered, Slot
  <2> QED
    BY <2>1, <2>4 DEF TicketsAccounted
<1>3. ASSUME NEW p \in Producers, Publish(p) PROVE \A k \in head' .. tail' - 1 : Covered(k)'
  <2> DEFINE s == Slot(ticket[p])
  <2>1. Writes(p) /\ pc[p] = "publish"
    BY <1>3 DEF Publish, Writes
  <2>2. s \in Index /\ InWindow(ticket[p]) /\ block[p] \in Blocks
    BY <2>1, WritersApart DEF TicketOK
  <2>3. /\ blockBase' = [blockBase EXCEPT ![s] = block[p]]
        /\ pc' = [pc EXCEPT ![p] = "count"]
        /\ UNCHANGED <<head, tail, ticket>>
    BY <1>3 DEF Publish
  <2>4. \A q \in Producers : Pending(q) /\ q # p => Pending(q)'
    BY <2>1, <2>3 DEF Pending
  <2>5. \A f \in Flushers : pc'[f] = pc[f]
    BY <2>3
  <2>6. ASSUME NEW k \in head .. tail - 1
        PROVE  \/ \E q \in Producers : Pending(q)' /\ ticket[q] = k
               \/ k < head + Capacity /\ blockBase'[Slot(k)] # Null
               \/ k = head /\ \E f \in Flushers : pc'[f] = "advance"
    <3>1. CASE ticket[p] = k
      BY <2>2, <2>3, <3>1 DEF InWindow
    <3>2. CASE ticket[p] # k
      <4>1. k \in Nat /\ Slot(k) \in Index
        BY SlotType
      <4> QED
        BY <2>2, <2>3, <2>4, <2>5, <3>2, <4>1 DEF TicketsAccounted
    <3> QED
      BY <3>1, <3>2
  <2> QED
    BY <2>3, <2>6 DEF Covered
<1>4. ASSUME NEW f \in Flushers, FlushClear(f) PROVE \A k \in head' .. tail' - 1 : Covered(k)'
  <2>1. pc[f] = "clear" /\ Front \in Index /\ head < tail
    BY <1>4, SlotType DEF FlushClear, Front, FlushOK
  <2>2. /\ blockBase' = [blockBase EXCEPT ![Front] = Null]
        /\ pc' = [pc EXCEPT ![f] = "advance"]
        /\ UNCHANGED <<head, tail, ticket>>
    BY <1>4 DEF FlushClear
  <2>3. \A q \in Producers : Pending(q) => Pending(q)'
    BY <2>2 DEF Pending
  <2>4. ASSUME NEW k \in head .. tail - 1
        PROVE  \/ \E q \in Producers : Pending(q)' /\ ticket[q] = k
               \/ k < head + Capacity /\ blockBase'[Slot(k)] # Null
               \/ k = head /\ \E g \in Flushers : pc'[g] = "advance"
    <3>1. CASE k = head
      BY <2>1, <2>2, <3>1
    <3>2. CASE k # head
      <4>1. k \in Nat /\ Slot(k) \in Index
        BY SlotType
      <4>2. ASSUME k < head + Capacity PROVE Slot(k) # Front
        <5>1. head < k
          BY <3>2
        <5> QED
          BY <4>1, <4>2, <5>1, SlotInjective DEF Front
      <4> QED
        BY <2>2, <2>3, <3>2, <4>1, <4>2 DEF TicketsAccounted
    <3> QED
      BY <3>1, <3>2
  <2>5. \A k \in Nat : Covered(k)' <=>
          \/ \E q \in Producers : Pending(q)' /\ ticket[q] = k
          \/ k < head + Capacity /\ blockBase'[Slot(k)] # Null
          \/ k = head /\ \E g \in Flushers : pc'[g] = "advance"
    BY <2>2 DEF Covered, Slot
  <2> QED
    BY <2>2, <2>4, <2>5
<1>5. ASSUME NEW f \in Flushers, FlushAdvance(f) PROVE \A k \in head' .. tail' - 1 : Covered(k)'
  <2>1. /\ head' = head + 1 /\ pc' = [pc EXCEPT ![f] = "look"]
        /\ UNCHANGED <<tail, blockBase, ticket>>
    BY <1>5 DEF FlushAdvance
  <2>2. \A q \in Producers : Pending(q)' <=> Pending(q)
    BY <2>1 DEF Pending
  <2>3. ASSUME NEW k \in head + 1 .. tail - 1
        PROVE  \/ \E q \in Producers : Pending(q)' /\ ticket[q] = k
               \/ k < head + 1 + Capacity /\ blockBase[Slot(k)] # Null
    BY <2>2 DEF TicketsAccounted
  <2>4. head' = head + 1 /\ tail' = tail
    BY <2>1
  <2>5. \A k \in Nat : Covered(k)' <=>
          \/ \E q \in Producers : Pending(q)' /\ ticket[q] = k
          \/ k < head + 1 + Capacity /\ blockBase[Slot(k)] # Null
          \/ k = head + 1 /\ \E g \in Flushers : pc'[g] = "advance"
    BY <2>1 DEF Covered, Slot
  <2>6. \A k \in head + 1 .. tail - 1 : k \in Nat
    OBVIOUS
  <2>7. \A k \in head + 1 .. tail - 1 : Covered(k)'
    BY <2>3, <2>5, <2>6
  <2> QED
    BY <2>4, <2>7
<1>c. \A k \in head' .. tail' - 1 : Covered(k)'
  BY <1>1, <1>2, <1>3, <1>4, <1>5, UntouchedSteps
<1>d. ASSUME NEW i \in Index, blockBase'[i] # Null
      PROVE  \E k \in head' .. tail' - 1 : k < head' + Capacity /\ Slot(k) = i
  <2>1. SlotOK' /\ head' \in Nat /\ tail' \in Nat
    BY SlotKept, TypeStep DEF TypeOK
  <2>2. PICK k : k \in head' .. tail' /\ InWindow(k)' /\ k % Capacity = i
    BY <1>d, <2>1 DEF SlotOK, Slot
  <2>3. k \in head' .. tail' /\ k < tail' /\ k < head' + Capacity
    BY <2>2 DEF InWindow
  <2>4. k \in head' .. tail' - 1
    BY <2>1, <2>3, IntervalEnd
  <2> QED
    BY <2>2, <2>3, <2>4 DEF Slot
<1> QED
  BY <1>c, <1>d DEF TicketsAccounted, Covered, Slot

\* The ring is empty and nobody is inside.
LEMMA InitRing == Init => RingInv
<1> SUFFICES ASSUME Init PROVE RingInv
  OBVIOUS
<1> USE ThreadsAssumption, BlocksAssumption, BoundsAssumption DEF Threads, Flushers
<1>1. /\ head = 0 /\ tail = 0 /\ epoch = 0 /\ quarantined = 0 /\ aborted = FALSE
      /\ flushLock = Null
      /\ \A i \in Index : blockBase[i] = Null
      /\ \A p \in Producers : pc[p] = "idle"
      /\ \A f \in Flushers : pc[f] \in {"sleep", "open"}
  BY DEF Init
<1>2. TypeOK
  <2>1. /\ blockBase \in [Index -> Blocks \union {Null}]
        /\ stamp \in [Index -> Nat] /\ since \in [Index -> Nat]
        /\ owner \in [Index -> Regions \union {Null}]
        /\ block \in [Producers -> Blocks \union {Null}]
        /\ read \in [Producers -> Nat] /\ ticket \in [Producers -> Nat]
    BY DEF Init
  <2>2. /\ DOMAIN pc = Threads /\ pc[Drain] = "sleep"
        /\ \A r \in Regions : pc[r] = "open"
    BY DEF Init
  <2>3. \A p \in Producers : pc[p] \in ProducerPoints
    BY <1>1 DEF ProducerPoints
  <2>4. /\ head \in Nat /\ tail \in Nat /\ epoch \in Nat /\ quarantined \in Int
        /\ flushLock \in Flushers \union {Null}
    BY <1>1
  <2>5. aborted \in BOOLEAN
    BY Zenon DEF Init
  <2> QED
    BY <2>1, <2>2, <2>3, <2>4, <2>5 DEF TypeOK
<1>3. LockOK /\ FlushOK
  BY <1>1 DEF LockOK, LockedPoints, FlushOK, Works
<1>4. TicketOK /\ SlotOK
  BY <1>1 DEF TicketOK, SlotOK, Pending, Writes
<1>5. TicketsAccounted
  BY <1>1 DEF TicketsAccounted
<1> QED
  BY <1>1, <1>2, <1>3, <1>4, <1>5 DEF RingInv

\* A stuttering step changes nothing the invariant reads.
LEMMA StutterRing == RingInv /\ UNCHANGED vars => RingInv'
BY DEF RingInv, TypeOK, LockOK, FlushOK, TicketOK, SlotOK, TicketsAccounted, vars,
       slotVars, localVars, Works, Writes, Pending, InWindow, Front, Slot

\* The invariant holds of every reachable state of the ring.
THEOREM RingInductive == Spec => []RingInv
<1>1. RingInv /\ Next => RingInv'
  BY TypeStep, LockStep, HeadStep, FlushKept, TicketStep, SlotKept, AccountedKept
     DEF RingInv
<1>2. RingInv /\ [Next]_vars => RingInv'
  BY <1>1, StutterRing
<1> QED
  BY InitRing, <1>2, PTL DEF Spec

\* TypeOK for every capacity: in particular no producer writes outside the ring.
THEOREM RingTypes == Spec => []TypeOK
<1>1. RingInv => TypeOK
  BY DEF RingInv
<1> QED
  BY <1>1, RingInductive, PTL

\* No two producers write one slot and no flush works on it, although claims a
\* capacity apart share an index (QuarantineQueue.cpp:83-91).
THEOREM SlotsStayExclusive == Spec => []SlotsExclusive
<1>1. RingInv => SlotsExclusive
  BY WritersApart DEF SlotsExclusive
<1> QED
  BY <1>1, RingInductive, PTL

\* A flush that has seen m_BlockBase reads the owner of the same enqueue: the
\* plain fields are ordered by the release store alone (QuarantineQueue.cpp:94-99).
THEOREM EntriesNeverTorn == Spec => []NoTornEntry
<1>1. RingInv => NoTornEntry
  <2> SUFFICES ASSUME RingInv, NEW f \in Flushers, pc[f] \in {"age", "retire"}
               PROVE  blockBase[Front] # Null /\ owner[Front] = RegionOf[blockBase[Front]]
    BY DEF NoTornEntry
  <2>1. blockBase[Front] # Null
    BY DEF RingInv, FlushOK, Works
  <2>2. Front \in Index
    BY SlotType DEF Front, RingInv, TypeOK
  <2> QED
    BY <2>1, <2>2 DEF RingInv, SlotOK
<1> QED
  BY <1>1, RingInductive, PTL

\* No claimed ticket is lost or left behind (QuarantineQueue.cpp:81-99, 126-161).
THEOREM EveryTicketAccounted == Spec => []TicketsAccounted
<1>1. RingInv => TicketsAccounted
  BY DEF RingInv
<1> QED
  BY <1>1, RingInductive, PTL

-----------------------------------------------------------------------------
(* m_QuarantinedBlocks *)

\* The step changes neither the counter nor anything it is compared with.
CountsStay ==
  /\ UNCHANGED <<quarantined, blockBase>>
  /\ \A p \in Producers : pc'[p] = "count" <=> pc[p] = "count"
  /\ \A f \in Flushers : pc'[f] = "clear" <=> pc[f] = "clear"

\* All steps but the four that publish, count or clear an entry.
LEMMA CountsStaySteps ==
  ASSUME RingInv, Next,
         ~ \E p \in Producers : Publish(p) \/ Count(p),
         ~ \E f \in Flushers : FlushStats(f) \/ FlushClear(f)
  PROVE  CountsStay
<1> USE ThreadsAssumption, BlocksAssumption, BoundsAssumption
    DEF RingInv, TypeOK, Threads, Flushers, At, Goto, slotVars, localVars
<1>1. ASSUME NEW p \in Producers, NEW b \in Blocks, EndRetiring(p, b) PROVE CountsStay
  BY <1>1 DEF EndRetiring, CountsStay
<1>2. ASSUME NEW p \in Producers, Claim(p) PROVE CountsStay
  BY <1>2 DEF Claim, CountsStay
<1>3. ASSUME NEW p \in Producers, CheckRoom(p) PROVE CountsStay
  BY <1>3 DEF CheckRoom, CountsStay
<1>4. ASSUME NEW p \in Producers, Saturate(p) PROVE CountsStay
  BY <1>4 DEF Saturate, CountsStay
<1>5. ASSUME NEW p \in Producers, Fill(p) PROVE CountsStay
  BY <1>5 DEF Fill, CountsStay
<1>6. ASSUME NEW f \in Flushers, FlushLock(f) PROVE CountsStay
  BY <1>6 DEF FlushLock, CountsStay
<1>7. ASSUME NEW f \in Flushers, FlushLook(f) PROVE CountsStay
  BY <1>7 DEF FlushLook, CountsStay
<1>8. ASSUME NEW f \in Flushers, FlushLoad(f) PROVE CountsStay
  BY <1>8 DEF FlushLoad, CountsStay
<1>9. ASSUME NEW f \in Flushers, FlushAge(f) PROVE CountsStay
  BY <1>9 DEF FlushAge, CountsStay
<1>10. ASSUME NEW f \in Flushers, FlushRetire(f) PROVE CountsStay
  BY <1>10 DEF FlushRetire, CountsStay
<1>11. ASSUME NEW f \in Flushers, FlushAdvance(f) PROVE CountsStay
  BY <1>11 DEF FlushAdvance, CountsStay
<1>12. ASSUME NEW f \in Flushers, FlushUnlock(f) PROVE CountsStay
  BY <1>12 DEF FlushUnlock, CountsStay
<1>13. ASSUME Tick PROVE CountsStay
  BY <1>13 DEF Tick, CountsStay
<1>14. ASSUME NEW r \in Regions, DestroyRegion(r) PROVE CountsStay
  BY <1>14 DEF DestroyRegion, CountsStay
<1>15. ASSUME NEW r \in Regions, RegionShutdown(r) PROVE CountsStay
  BY <1>15 DEF RegionShutdown, CountsStay
<1> QED
  BY <1>1, <1>2, <1>3, <1>4, <1>5, <1>6, <1>7, <1>8, <1>9, <1>10, <1>11, <1>12,
     <1>13, <1>14, <1>15
  DEF Next, ProducerStep, FlushStep

\* The slots are finitely many.
LEMMA PublishedFinite == IsFiniteSet(Published) /\ Cardinality(Published) \in Nat
<1>1. IsFiniteSet(Index)
  BY BoundsAssumption, FS_Interval DEF Index
<1> QED
  BY <1>1, FS_Subset, FS_CardinalityType DEF Published

\* m_QuarantinedBlocks follows the published slots, up to the operations in flight.
LEMMA CountStep == RingInv /\ CountOK /\ Next => CountOK'
<1> SUFFICES ASSUME RingInv, CountOK, Next PROVE CountOK'
  OBVIOUS
<1>t. /\ quarantined \in Int /\ Cardinality(Counting) \in Nat /\ Cardinality(Counted) \in Nat
      /\ DOMAIN pc = Threads /\ blockBase \in [Index -> Blocks \union {Null}]
  BY FS_CardinalityType DEF CountOK, RingInv, TypeOK
<1> USE ThreadsAssumption, BlocksAssumption DEF At, Goto, Threads, Flushers
<1>1. ASSUME NEW p \in Producers, Publish(p) PROVE CountOK'
  <2> DEFINE s == Slot(ticket[p])
  <2>1. pc[p] = "publish" /\ Writes(p)
    BY <1>1 DEF Publish, Writes
  <2>2. s \in Index /\ blockBase[s] = Null /\ block[p] \in Blocks
    BY <2>1, WritersApart DEF RingInv, TicketOK
  <2>3. PICK i \in Index : i = s
    BY <2>2
  <2>4. /\ blockBase' = [blockBase EXCEPT ![i] = block[p]]
        /\ pc' = [pc EXCEPT ![p] = "count"] /\ quarantined' = quarantined
    BY <1>1, <2>3 DEF Publish
  <2>5. Published' = Published \union {i} /\ i \notin Published
    BY <1>t, <2>2, <2>3, <2>4 DEF Published
  <2>6. Counting' = Counting \union {p} /\ p \notin Counting
    BY <1>t, <2>1, <2>4 DEF Counting
  <2>7. Counted' = Counted
    BY <1>t, <2>4 DEF Counted
  <2>8. Cardinality(Published') = Cardinality(Published) + 1
    BY <2>5, PublishedFinite, FS_AddElement
  <2>9. IsFiniteSet(Counting') /\ Cardinality(Counting') = Cardinality(Counting) + 1
    BY <2>6, FS_AddElement DEF CountOK
  <2> QED
    BY <1>t, <2>4, <2>7, <2>8, <2>9, PublishedFinite DEF CountOK
<1>2. ASSUME NEW p \in Producers, Count(p) PROVE CountOK'
  <2>1. /\ pc[p] = "count" /\ pc' = [pc EXCEPT ![p] = "idle"]
        /\ quarantined' = quarantined + 1 /\ blockBase' = blockBase
    BY <1>2 DEF Count, slotVars
  <2>2. Published' = Published
    BY <2>1 DEF Published
  <2>3. Counting' = Counting \ {p} /\ p \in Counting
    BY <1>t, <2>1 DEF Counting
  <2>4. Counted' = Counted
    BY <1>t, <2>1 DEF Counted
  <2>5. IsFiniteSet(Counting') /\ Cardinality(Counting') = Cardinality(Counting) - 1
    BY <2>3, FS_RemoveElement DEF CountOK
  <2> QED
    BY <1>t, <2>1, <2>2, <2>4, <2>5, PublishedFinite DEF CountOK
<1>3. ASSUME NEW f \in Flushers, FlushStats(f) PROVE CountOK'
  <2>1. /\ pc[f] = "stats" /\ pc' = [pc EXCEPT ![f] = "clear"]
        /\ quarantined' = quarantined - 1 /\ blockBase' = blockBase
    BY <1>3 DEF FlushStats, slotVars
  <2>2. Published' = Published
    BY <2>1 DEF Published
  <2>3. Counted' = Counted \union {f} /\ f \notin Counted
    BY <1>t, <2>1 DEF Counted
  <2>4. Counting' = Counting
    BY <1>t, <2>1 DEF Counting
  <2>5. IsFiniteSet(Counted') /\ Cardinality(Counted') = Cardinality(Counted) + 1
    BY <2>3, FS_AddElement DEF CountOK
  <2> QED
    BY <1>t, <2>1, <2>2, <2>4, <2>5, PublishedFinite DEF CountOK
<1>4. ASSUME NEW f \in Flushers, FlushClear(f) PROVE CountOK'
  <2>1. pc[f] = "clear" /\ Front \in Index /\ blockBase[Front] # Null
    BY <1>4, SlotType DEF FlushClear, RingInv, TypeOK, FlushOK, Works, Front
  <2>2. PICK i \in Index : i = Front
    BY <2>1
  <2>3. /\ blockBase' = [blockBase EXCEPT ![i] = Null]
        /\ pc' = [pc EXCEPT ![f] = "advance"] /\ quarantined' = quarantined
    BY <1>4, <2>2 DEF FlushClear
  <2>4. Published' = Published \ {i} /\ i \in Published
    BY <1>t, <2>1, <2>2, <2>3 DEF Published
  <2>5. Counted' = Counted \ {f} /\ f \in Counted
    BY <1>t, <2>1, <2>3 DEF Counted
  <2>6. Counting' = Counting
    BY <1>t, <2>3 DEF Counting
  <2>7. Cardinality(Published') = Cardinality(Published) - 1
    BY <2>4, PublishedFinite, FS_RemoveElement
  <2>8. IsFiniteSet(Counted') /\ Cardinality(Counted') = Cardinality(Counted) - 1
    BY <2>5, FS_RemoveElement DEF CountOK
  <2> QED
    BY <1>t, <2>3, <2>6, <2>7, <2>8, PublishedFinite DEF CountOK
<1>5. ASSUME ~ \E p \in Producers : Publish(p) \/ Count(p),
             ~ \E f \in Flushers : FlushStats(f) \/ FlushClear(f)
      PROVE  CountOK'
  <2>1. CountsStay
    BY <1>5, CountsStaySteps
  <2>2. Published' = Published /\ Counting' = Counting /\ Counted' = Counted
    BY <2>1 DEF CountsStay, Published, Counting, Counted
  <2> QED
    BY <2>1, <2>2 DEF CountOK, CountsStay
<1> QED
  BY <1>1, <1>2, <1>3, <1>4, <1>5

\* Nothing is published or counted at the start.
LEMMA InitCount == Init => CountOK
<1> SUFFICES ASSUME Init PROVE CountOK
  OBVIOUS
<1>1. Published = {} /\ Counting = {} /\ Counted = {}
  BY ThreadsAssumption DEF Init, Published, Counting, Counted, Threads, Flushers
<1> QED
  BY <1>1, FS_EmptySet DEF CountOK, Init

\* The counter is exact but for the operations in flight, in every reachable state.
THEOREM QuarantinedExact == Spec => []QuarantinedMatches
<1>1. RingInv /\ CountOK /\ [Next]_vars => CountOK'
  <2>1. CountOK /\ UNCHANGED vars => CountOK'
    BY DEF CountOK, Published, Counting, Counted, vars, slotVars
  <2> QED
    BY <2>1, CountStep
<1>2. CountOK => QuarantinedMatches
  BY DEF CountOK, QuarantinedMatches, Published, Counting, Counted
<1> QED
  BY <1>1, <1>2, InitCount, RingInductive, PTL DEF Spec

-----------------------------------------------------------------------------
(* Windows of a function as sequences *)

\* The n values of g from a on.
Window(g, a, n) == [i \in 1 .. n |-> g[a + i - 1]]

\* g and h are the same at the n places from a on, or at all of these but j.
Agree(g, h, a, n)       == \A k \in Nat : a <= k /\ k < a + n => h[k] = g[k]
AgreeBut(g, h, a, n, j) == \A k \in Nat : a <= k /\ k < a + n /\ k # j => h[k] = g[k]

\* A sequence without its first value, and one with its i-th value replaced:
\* the lemmas are stated with these names so that the solver can instantiate them.
Rest(s) == Tail(s)
Replaced(s, i, x) == [s EXCEPT ![i] = x]

\* A window is a sequence of its values.
LEMMA WindowIsSequence ==
  ASSUME NEW S, NEW g \in [Nat -> S], NEW a \in Nat, NEW n \in Nat
  PROVE  Window(g, a, n) \in Seq(S) /\ Len(Window(g, a, n)) = n
<1>1. \A i \in 1 .. n : g[a + i - 1] \in S
  OBVIOUS
<1> QED
  BY <1>1 DEF Window

\* Values outside of the window do not matter.
LEMMA WindowStays ==
  ASSUME NEW g, NEW h, NEW a \in Nat, NEW n \in Nat,
         Agree(g, h, a, n)
  PROVE  Window(h, a, n) = Window(g, a, n)
<1>1. \A i \in 1 .. n : h[a + i - 1] = g[a + i - 1]
  BY DEF Agree
<1> QED
  BY <1>1 DEF Window

\* A window that grows at its end.
LEMMA WindowGrows ==
  ASSUME NEW S, NEW g \in [Nat -> S], NEW h \in [Nat -> S], NEW a \in Nat, NEW n \in Nat,
         Agree(g, h, a, n)
  PROVE  Window(h, a, n + 1) = Append(Window(g, a, n), h[a + n])
<1> DEFINE s == Window(g, a, n)
           r == Append(s, h[a + n])
           w == Window(h, a, n + 1)
<1>a. a + n \in Nat /\ n + 1 \in Nat
  OBVIOUS
<1>1. s \in Seq(S) /\ Len(s) = n /\ h[a + n] \in S
  BY <1>a, WindowIsSequence
<1>2. w \in Seq(S) /\ Len(w) = n + 1
  BY ZenonT(40), <1>a, WindowIsSequence
<1>3. \A i \in 1 .. n : s[i] = g[a + i - 1] /\ w[i] = h[a + i - 1]
  BY DEF Window
<1>4. w[n + 1] = h[a + n]
  BY DEF Window
<1> HIDE DEF s, w
<1>5. /\ r \in Seq(S) /\ Len(r) = n + 1 /\ r[n + 1] = h[a + n]
      /\ \A i \in 1 .. n : r[i] = s[i]
  BY <1>1, AppendProperties
<1> HIDE DEF r
<1>6. \A i \in 1 .. n + 1 : w[i] = r[i]
  <2>1. \A i \in 1 .. n : h[a + i - 1] = g[a + i - 1]
    BY DEF Agree
  <2> QED
    BY <2>1, <1>3, <1>4, <1>5
<1>7. w = r
  BY <1>2, <1>5, <1>6, SeqEqual
<1> QED
  BY <1>7 DEF w, r, s

\* A window that moves past its first value.
LEMMA WindowShrinks ==
  ASSUME NEW S, NEW g \in [Nat -> S], NEW h \in [Nat -> S], NEW a \in Nat, NEW n \in Nat,
         n > 0, AgreeBut(g, h, a, n, a)
  PROVE  /\ Window(g, a, n) # <<>>
         /\ Head(Window(g, a, n)) = g[a]
         /\ Window(h, a + 1, n - 1) = Rest(Window(g, a, n))
<1> DEFINE s == Window(g, a, n)
           w == Window(h, a + 1, n - 1)
           r == Tail(s)
<1>a. a + 1 \in Nat /\ n - 1 \in Nat
  OBVIOUS
<1>1. s \in Seq(S) /\ Len(s) = n
  BY WindowIsSequence
<1>2. w \in Seq(S) /\ Len(w) = n - 1
  BY ZenonT(40), <1>a, WindowIsSequence
<1>3. \A i \in 1 .. n : s[i] = g[a + i - 1]
  BY DEF Window
<1>4. \A i \in 1 .. n - 1 : w[i] = h[a + 1 + i - 1]
  BY DEF Window
<1> HIDE DEF s, w
<1>5. s # <<>> /\ Head(s) = g[a]
  BY <1>1, <1>3
<1>6. /\ r \in Seq(S) /\ Len(r) = n - 1
      /\ \A i \in 1 .. n - 1 : r[i] = s[i + 1]
  BY <1>1, <1>5, HeadTailProperties
<1> HIDE DEF r
<1>7. \A i \in 1 .. n - 1 : w[i] = r[i]
  <2> SUFFICES ASSUME NEW i \in 1 .. n - 1 PROVE w[i] = r[i]
    OBVIOUS
  <2>1. i + 1 \in 1 .. n /\ a + i \in Nat /\ a < a + i /\ a + i < a + n
    OBVIOUS
  <2>a. h[a + i] = g[a + i]
    BY <2>1 DEF AgreeBut
  <2>2. w[i] = h[a + i]
    <3>1. a + 1 + i - 1 = a + i
      OBVIOUS
    <3> QED
      BY <1>4, <3>1
  <2>3. s[i + 1] = g[a + i]
    <3>1. a + (i + 1) - 1 = a + i
      OBVIOUS
    <3> QED
      BY <1>3, <2>1, <3>1
  <2> QED
    BY <1>6, <2>1, <2>a, <2>2, <2>3
<1>8. w = r
  BY <1>2, <1>6, <1>7, SeqEqual
<1> QED
  BY <1>5, <1>8 DEF w, r, s, Rest

\* A window in which one value changes.
LEMMA WindowChanges ==
  ASSUME NEW g, NEW h, NEW a \in Nat, NEW n \in Nat, NEW j \in Nat, a <= j, j < a + n,
         AgreeBut(g, h, a, n, j), NEW m \in Nat, a + m = j + 1
  PROVE  Window(h, a, n) = Replaced(Window(g, a, n), m, h[j])
<1>1. m \in 1 .. n /\ a + m - 1 = j
  OBVIOUS
<1>2. \A i \in 1 .. n : i # m => h[a + i - 1] = g[a + i - 1]
  BY DEF AgreeBut
<1> QED
  BY <1>1, <1>2 DEF Window, Replaced

-----------------------------------------------------------------------------
(* The refinement of ReservationQueue *)

Entry   == [block : Blocks \union {Null}, ready : BOOLEAN]
Entries == [k \in Nat |-> EntryOf(k)]
Waiting == Window(Entries, Oldest, tail - Oldest)

\* The flush has retired the front entry and has not yet moved past it.
Retired == \E f \in Flushers : pc[f] \in {"stats", "clear", "advance"}

\* Who holds a ticket decides what its entry is.
LEMMA EntryIs ==
  ASSUME RingInv, NEW k \in Nat
  PROVE  /\ \A p \in Producers : Pending(p) /\ ticket[p] = k =>
              EntryOf(k) = [block |-> block[p], ready |-> FALSE]
         /\ (\A p \in Producers : Pending(p) => ticket[p] # k) =>
              EntryOf(k) = [block |-> blockBase[Slot(k)], ready |-> TRUE]
<1>1. ASSUME NEW p \in Producers, Pending(p), ticket[p] = k
      PROVE  EntryOf(k) = [block |-> block[p], ready |-> FALSE]
  <2>1. {q \in Producers : Pending(q) /\ ticket[q] = k} = {p}
    BY <1>1 DEF RingInv, TicketOK
  <2> QED
    BY <2>1 DEF EntryOf
<1>2. ASSUME \A p \in Producers : Pending(p) => ticket[p] # k
      PROVE  EntryOf(k) = [block |-> blockBase[Slot(k)], ready |-> TRUE]
  <2>1. {q \in Producers : Pending(q) /\ ticket[q] = k} = {}
    BY <1>2
  <2> QED
    BY <2>1 DEF EntryOf
<1> QED
  BY <1>1, <1>2

\* The same after a step.
LEMMA EntryIsAfter ==
  (RingInv =>
     \A k \in Nat :
       /\ \A p \in Producers : Pending(p) /\ ticket[p] = k =>
            EntryOf(k) = [block |-> block[p], ready |-> FALSE]
       /\ (\A p \in Producers : Pending(p) => ticket[p] # k) =>
            EntryOf(k) = [block |-> blockBase[Slot(k)], ready |-> TRUE])'
<1>1. RingInv =>
     \A k \in Nat :
       /\ \A p \in Producers : Pending(p) /\ ticket[p] = k =>
            EntryOf(k) = [block |-> block[p], ready |-> FALSE]
       /\ (\A p \in Producers : Pending(p) => ticket[p] # k) =>
            EntryOf(k) = [block |-> blockBase[Slot(k)], ready |-> TRUE]
  BY EntryIs
<1> QED
  BY <1>1, PTL

LEMMA EntriesType == RingInv => Entries \in [Nat -> Entry]
<1> SUFFICES ASSUME RingInv, NEW k \in Nat PROVE EntryOf(k) \in Entry
  BY DEF Entries
<1>1. CASE \E p \in Producers : Pending(p) /\ ticket[p] = k
  <2>1. PICK p \in Producers : Pending(p) /\ ticket[p] = k
    BY <1>1
  <2>2. EntryOf(k) = [block |-> block[p], ready |-> FALSE] /\ block[p] \in Blocks \union {Null}
    BY <2>1, EntryIs DEF RingInv, TypeOK
  <2> QED
    BY <2>2 DEF Entry
<1>2. CASE \A p \in Producers : Pending(p) => ticket[p] # k
  <2>1. blockBase[Slot(k)] \in Blocks \union {Null}
    BY SlotType DEF RingInv, TypeOK
  <2>2. EntryOf(k) = [block |-> blockBase[Slot(k)], ready |-> TRUE]
    BY <1>2, EntryIs
  <2> QED
    BY <2>1, <2>2 DEF Entry
<1> QED
  BY <1>1, <1>2

LEMMA EntriesTypeAfter == RingInv' => Entries' \in [Nat -> Entry]
<1>1. (RingInv => Entries \in [Nat -> Entry])'
  BY EntriesType, PTL
<1> QED
  BY <1>1

\* An entry stays as long as its ticket stays in the same hands.
LEMMA EntryKept ==
  ASSUME RingInv, RingInv', NEW k \in Nat,
         \A p \in Producers :
           (Pending(p)' /\ ticket'[p] = k) <=> (Pending(p) /\ ticket[p] = k),
         \A p \in Producers : Pending(p) /\ ticket[p] = k => block'[p] = block[p],
         (\A p \in Producers : Pending(p) => ticket[p] # k)
           => blockBase'[Slot(k)] = blockBase[Slot(k)]
  PROVE  EntryOf(k)' = EntryOf(k)
<1>1. CASE \E p \in Producers : Pending(p) /\ ticket[p] = k
  <2>1. PICK p \in Producers : Pending(p) /\ ticket[p] = k
    BY <1>1
  <2>2. EntryOf(k) = [block |-> block[p], ready |-> FALSE]
    BY <2>1, EntryIs
  <2>3. Pending(p)' /\ ticket'[p] = k /\ block'[p] = block[p]
    BY <2>1
  <2>4. EntryOf(k)' = [block |-> block'[p], ready |-> FALSE]
    BY <2>3, EntryIsAfter
  <2> QED
    BY <2>2, <2>3, <2>4
<1>2. CASE \A p \in Producers : Pending(p) => ticket[p] # k
  BY <1>2, EntryIs, EntryIsAfter
<1> QED
  BY <1>1, <1>2

\* The oldest ticket, and what a flush that has retired the front knows.
LEMMA OldestIs ==
  ASSUME RingInv
  PROVE  /\ Oldest = (IF Retired THEN head + 1 ELSE head)
         /\ Oldest \in Nat /\ Oldest <= tail /\ tail - Oldest \in Nat
         /\ Retired => \A p \in Producers : Pending(p) => ticket[p] # head
         /\ \A p \in Producers : Pending(p) => Oldest <= ticket[p] /\ ticket[p] < tail
         /\ \A k \in Nat : Oldest <= k /\ k < tail =>
              \/ \E p \in Producers : Pending(p) /\ ticket[p] = k
              \/ InWindow(k) /\ blockBase[Slot(k)] # Null
<1>t. head \in Nat /\ tail \in Nat /\ head <= tail /\ Capacity \in Nat \ {0}
  BY BoundsAssumption DEF RingInv, TypeOK
<1>1. Oldest = IF Retired THEN head + 1 ELSE head
  BY DEF Oldest, Retired
<1>2. Retired => head < tail /\ \A p \in Producers : Pending(p) => ticket[p] # head
  <2> SUFFICES ASSUME NEW f \in Flushers, pc[f] \in {"stats", "clear", "advance"}
               PROVE  head < tail /\ \A p \in Producers : Pending(p) => ticket[p] # head
    BY DEF Retired
  <2>1. head < tail
    BY DEF RingInv, FlushOK
  <2>2. CASE pc[f] = "advance"
    BY <2>1, <2>2 DEF RingInv, FlushOK
  <2>3. CASE pc[f] \in {"stats", "clear"}
    <3>1. blockBase[Front] # Null
      BY <2>3 DEF RingInv, FlushOK, Works
    <3>2. ASSUME NEW p \in Producers, Pending(p), ticket[p] = head PROVE FALSE
      BY <1>t, <3>1, <3>2, PendingSlotEmpty DEF Front
    <3> QED
      BY <2>1, <3>2
  <2> QED
    BY <2>2, <2>3
<1>3. Oldest \in Nat /\ Oldest <= tail /\ tail - Oldest \in Nat
  BY <1>t, <1>1, <1>2
<1>4. \A p \in Producers : Pending(p) => Oldest <= ticket[p] /\ ticket[p] < tail
  BY <1>t, <1>1, <1>2 DEF RingInv, TypeOK, TicketOK
<1>5. ASSUME NEW k \in Nat, Oldest <= k, k < tail
      PROVE  \/ \E p \in Producers : Pending(p) /\ ticket[p] = k
             \/ InWindow(k) /\ blockBase[Slot(k)] # Null
  <2>1. k \in head .. tail - 1
    BY <1>t, <1>1, <1>5
  <2>2. k = head => ~ \E f \in Flushers : pc[f] = "advance"
    BY <1>t, <1>1, <1>5 DEF Retired
  <2> QED
    BY <1>t, <2>1, <2>2 DEF RingInv, TicketsAccounted, InWindow
<1> QED
  BY <1>1, <1>2, <1>3, <1>4, <1>5

\* The step leaves every entry of the ring where it is.
EntriesStay ==
  /\ UNCHANGED <<head, tail, blockBase>>
  /\ Retired' <=> Retired
  /\ \A p \in Producers : Pending(p)' <=> Pending(p)
  /\ \A p \in Producers : Pending(p) => ticket'[p] = ticket[p] /\ block'[p] = block[p]

\* All steps but the five that add, complete or take an entry or pass its slot on.
LEMMA EntriesStaySteps ==
  ASSUME RingInv, Next,
         ~ \E p \in Producers : Claim(p) \/ Publish(p),
         ~ \E f \in Flushers : FlushRetire(f) \/ FlushClear(f) \/ FlushAdvance(f)
  PROVE  EntriesStay
<1> USE ThreadsAssumption, BlocksAssumption, BoundsAssumption
    DEF RingInv, TypeOK, Threads, Flushers, At, Goto, slotVars, localVars
<1>1. ASSUME NEW p \in Producers, NEW b \in Blocks, EndRetiring(p, b) PROVE EntriesStay
  BY <1>1 DEF EndRetiring, EntriesStay, Retired, Pending
<1>2. ASSUME NEW p \in Producers, CheckRoom(p) PROVE EntriesStay
  BY <1>2 DEF CheckRoom, EntriesStay, Retired, Pending
<1>3. ASSUME NEW p \in Producers, Saturate(p) PROVE EntriesStay
  BY <1>3 DEF Saturate, EntriesStay, Retired, Pending
<1>4. ASSUME NEW p \in Producers, Fill(p) PROVE EntriesStay
  BY <1>4 DEF Fill, EntriesStay, Retired, Pending
<1>5. ASSUME NEW p \in Producers, Count(p) PROVE EntriesStay
  BY <1>5 DEF Count, EntriesStay, Retired, Pending
<1>6. ASSUME NEW f \in Flushers, FlushLock(f) PROVE EntriesStay
  BY <1>6 DEF FlushLock, EntriesStay, Retired, Pending
<1>7. ASSUME NEW f \in Flushers, FlushLook(f) PROVE EntriesStay
  BY <1>7 DEF FlushLook, EntriesStay, Retired, Pending
<1>8. ASSUME NEW f \in Flushers, FlushLoad(f) PROVE EntriesStay
  BY <1>8 DEF FlushLoad, EntriesStay, Retired, Pending
<1>9. ASSUME NEW f \in Flushers, FlushAge(f) PROVE EntriesStay
  BY <1>9 DEF FlushAge, EntriesStay, Retired, Pending
<1>10. ASSUME NEW f \in Flushers, FlushStats(f) PROVE EntriesStay
  BY <1>10 DEF FlushStats, EntriesStay, Retired, Pending
<1>11. ASSUME NEW f \in Flushers, FlushUnlock(f) PROVE EntriesStay
  BY <1>11 DEF FlushUnlock, EntriesStay, Retired, Pending
<1>12. ASSUME Tick PROVE EntriesStay
  BY <1>12 DEF Tick, EntriesStay, Retired, Pending
<1>13. ASSUME NEW r \in Regions, DestroyRegion(r) PROVE EntriesStay
  BY <1>13 DEF DestroyRegion, EntriesStay, Retired, Pending
<1>14. ASSUME NEW r \in Regions, RegionShutdown(r) PROVE EntriesStay
  BY <1>14 DEF RegionShutdown, EntriesStay, Retired, Pending
<1> QED
  BY <1>1, <1>2, <1>3, <1>4, <1>5, <1>6, <1>7,
     <1>8, <1>9, <1>10, <1>11, <1>12, <1>13, <1>14
  DEF Next, ProducerStep, FlushStep

\* What the entries are before and after a step.
LEMMA EntriesAre ==
  ASSUME RingInv, RingInv'
  PROVE  /\ Entries \in [Nat -> Entry] /\ Entries' \in [Nat -> Entry]
         /\ \A k \in Nat : Entries[k] = EntryOf(k) /\ Entries'[k] = EntryOf(k)'
  BY EntriesType, EntriesTypeAfter DEF Entries

\* The queue after a step, in terms of the one before it.
LEMMA WaitingAfter ==
  ASSUME RingInv, RingInv', Oldest' = Oldest, tail' = tail,
         \A k \in Nat : Oldest <= k /\ k < tail => EntryOf(k)' = EntryOf(k)
  PROVE  Waiting' = Waiting
<1> DEFINE a == Oldest
           n == tail - Oldest
<1>1. a \in Nat /\ n \in Nat /\ a + n = tail
  BY OldestIs DEF RingInv, TypeOK
<1>2. Agree(Entries, Entries', a, n)
  BY <1>1, EntriesAre DEF Agree
<1>3. Waiting' = Window(Entries', a, n) /\ Waiting = Window(Entries, a, n)
  BY DEF Waiting, Window
<1> HIDE DEF a, n
<1>4. Window(Entries', a, n) = Window(Entries, a, n)
  BY <1>1, <1>2, WindowStays
<1> QED
  BY <1>3, <1>4

\* The steps that leave the entries leave the queue.
LEMMA StayStutters == ASSUME RingInv, RingInv', EntriesStay PROVE Waiting' = Waiting
<1>1. Oldest' = Oldest /\ tail' = tail
  BY DEF EntriesStay, Oldest, Retired
<1>2. ASSUME NEW k \in Nat PROVE EntryOf(k)' = EntryOf(k)
  BY EntryKept DEF EntriesStay
<1> QED
  BY <1>1, <1>2, WaitingAfter

\* enqueue claims a ticket: the block is reserved its place at the end.
LEMMA ClaimReserves ==
  ASSUME RingInv, RingInv', NEW p \in Producers, Claim(p)
  PROVE  /\ block[p] \in Blocks
         /\ Waiting' = Append(Waiting, [block |-> block[p], ready |-> FALSE])
<1>1. /\ pc[p] = "claim" /\ pc' = [pc EXCEPT ![p] = "check"]
      /\ ticket' = [ticket EXCEPT ![p] = tail] /\ tail' = tail + 1
      /\ UNCHANGED <<head, blockBase, block>>
  BY DEF Claim, At, Goto, slotVars
<1>2. /\ tail \in Nat /\ ticket \in [Producers -> Nat] /\ DOMAIN pc = Threads
      /\ block[p] \in Blocks
  BY <1>1 DEF RingInv, TypeOK, TicketOK
<1>3. Pending(p)' /\ ticket'[p] = tail /\ block'[p] = block[p] /\ ~ Pending(p)
  BY <1>1, <1>2 DEF Pending, Threads
<1>4. \A q \in Producers : q # p => (Pending(q)' <=> Pending(q)) /\ ticket'[q] = ticket[q]
  BY <1>1, <1>2 DEF Pending
<1>5. Oldest' = Oldest
  <2>1. \A f \in Flushers : pc'[f] = pc[f]
    BY <1>1, ThreadsAssumption
  <2> QED
    BY <1>1, <2>1 DEF Oldest
<1>7. ASSUME NEW k \in Nat, Oldest <= k, k < tail PROVE EntryOf(k)' = EntryOf(k)
  BY <1>1, <1>2, <1>3, <1>4, <1>7, EntryKept
<1> DEFINE a == Oldest
           n == tail - Oldest
<1>8. a \in Nat /\ n \in Nat /\ a + n = tail
  BY <1>2, OldestIs
<1>9. Agree(Entries, Entries', a, n)
  BY <1>7, <1>8, EntriesAre DEF Agree
<1>10. Waiting = Window(Entries, a, n) /\ Waiting' = Window(Entries', a, n + 1)
  <2>1. tail' - Oldest' = n + 1 /\ Oldest' = a
    BY <1>1, <1>2, <1>5, <1>8
  <2> QED
    BY <2>1 DEF Waiting, Window
<1>11. Entries'[a + n] = [block |-> block[p], ready |-> FALSE]
  <2>1. PICK k \in Nat : k = tail
    BY <1>2
  <2>2. Entries'[k] = EntryOf(k)'
    BY EntriesAre
  <2>3. EntryOf(k)' = [block |-> block'[p], ready |-> FALSE]
    BY <1>3, <2>1, EntryIsAfter
  <2> QED
    BY <1>3, <1>8, <2>1, <2>2, <2>3
<1> HIDE DEF a, n
<1>12. Window(Entries', a, n + 1) = Append(Window(Entries, a, n), Entries'[a + n])
  BY <1>8, <1>9, EntriesAre, WindowGrows
<1> QED
  BY <1>2, <1>10, <1>11, <1>12

\* An entry that is completed keeps its block.
LEMMA EntryCompletes ==
  \A b, x, y : [[block |-> b, ready |-> x] EXCEPT !.ready = y] = [block |-> b, ready |-> y]
  OBVIOUS

\* The release store of m_BlockBase completes the entry of the ticket.
LEMMA PublishCompletes ==
  ASSUME RingInv, RingInv', NEW p \in Producers, Publish(p)
  PROVE  \E i \in DOMAIN Waiting :
           ~ Waiting[i].ready /\ Waiting' = [Waiting EXCEPT ![i].ready = TRUE]
<1>1. /\ pc[p] = "publish" /\ pc' = [pc EXCEPT ![p] = "count"]
      /\ blockBase' = [blockBase EXCEPT ![Slot(ticket[p])] = block[p]]
      /\ UNCHANGED <<head, tail, block, ticket>>
  BY DEF Publish, At, Goto, localVars
<1>2. /\ Pending(p) /\ ticket[p] \in Nat /\ InWindow(ticket[p]) /\ Slot(ticket[p]) \in Index
      /\ tail \in Nat /\ DOMAIN pc = Threads /\ p \in Threads
      /\ blockBase \in [Index -> Blocks \union {Null}]
  BY <1>1, WritersApart DEF RingInv, TypeOK, Writes, Threads
<1>3. \A q \in Producers : Pending(q)' <=> Pending(q) /\ q # p
  BY <1>1, <1>2 DEF Pending
<1>4. \A q \in Producers : Pending(q) /\ ticket[q] = ticket[p] => q = p
  BY <1>2 DEF RingInv, TicketOK
<1>5. Oldest' = Oldest
  <2>1. \A f \in Flushers : pc'[f] = pc[f]
    BY <1>1, ThreadsAssumption
  <2> QED
    BY <1>1, <2>1 DEF Oldest
<1>6. PICK j \in Nat : j = ticket[p]
  BY <1>2
<1>7. Oldest <= j /\ j < tail
  BY <1>2, <1>6, OldestIs
<1>8. EntryOf(j) = [block |-> block[p], ready |-> FALSE]
  BY <1>2, <1>6, EntryIs
<1>9. EntryOf(j)' = [block |-> block[p], ready |-> TRUE]
  <2>1. \A q \in Producers : Pending(q)' => ticket'[q] # j
    BY <1>1, <1>3, <1>4, <1>6
  <2>2. blockBase'[Slot(j)] = block[p]
    BY <1>1, <1>2, <1>6
  <2>3. EntryOf(j)' = [block |-> blockBase'[Slot(j)], ready |-> TRUE]
    BY <2>1, EntryIsAfter
  <2> QED
    BY <2>2, <2>3
<1>10. ASSUME NEW k \in Nat, Oldest <= k, k < tail, k # j PROVE EntryOf(k)' = EntryOf(k)
  <2>1. ASSUME \A q \in Producers : Pending(q) => ticket[q] # k
        PROVE  blockBase'[Slot(k)] = blockBase[Slot(k)]
    <3>1. InWindow(k)
      BY <1>10, <2>1, OldestIs
    <3>2. Slot(k) # Slot(j) /\ Slot(k) \in Index
      BY <1>2, <1>6, <1>10, <3>1, WindowInjective, SlotType
    <3> QED
      BY <1>1, <1>2, <1>6, <3>2
  <2>2. \A q \in Producers :
          (Pending(q)' /\ ticket'[q] = k) <=> (Pending(q) /\ ticket[q] = k)
    BY <1>1, <1>3, <1>6, <1>10
  <2> QED
    BY <1>1, <2>1, <2>2, EntryKept
<1> DEFINE a == Oldest
           n == tail - Oldest
<1>11. a \in Nat /\ n \in Nat /\ a + n = tail /\ a <= j /\ j < a + n
  BY <1>2, <1>7, OldestIs
<1>12. AgreeBut(Entries, Entries', a, n, j)
  BY <1>10, <1>11, EntriesAre DEF AgreeBut
<1>13. Waiting = Window(Entries, a, n) /\ Waiting' = Window(Entries', a, n)
  BY <1>1, <1>5 DEF Waiting, Window
<1>14. /\ Entries[j] = [block |-> block[p], ready |-> FALSE]
       /\ Entries'[j] = [block |-> block[p], ready |-> TRUE]
  BY <1>8, <1>9, EntriesAre
<1> HIDE DEF a, n
<1>m. PICK m \in Nat : a + m = j + 1
  <2>1. j - a + 1 \in Nat /\ a + (j - a + 1) = j + 1
    BY <1>11
  <2> QED
    BY <2>1
<1>15. /\ m \in 1 .. n
       /\ Window(Entries, a, n)[m] = Entries[j]
       /\ Window(Entries', a, n) = [Window(Entries, a, n) EXCEPT ![m] = Entries'[j]]
  <2>1. m \in 1 .. n
    BY <1>m, <1>11
  <2>2. Window(Entries, a, n)[m] = Entries[j]
    <3>1. a + m - 1 = j
      BY <1>m, <1>11
    <3> QED
      BY <2>1, <3>1 DEF Window
  <2>3. Window(Entries', a, n) = Replaced(Window(Entries, a, n), m, Entries'[j])
    BY <1>m, <1>11, <1>12, WindowChanges
  <2> QED
    BY <2>1, <2>2, <2>3 DEF Replaced
<1>16. DOMAIN Waiting = 1 .. n
  BY <1>13 DEF Window
<1>17. PICK i \in DOMAIN Waiting : i = m
  BY <1>15, <1>16
<1>18. /\ Waiting[i] = [block |-> block[p], ready |-> FALSE]
       /\ Waiting' = [Waiting EXCEPT ![i] = [block |-> block[p], ready |-> TRUE]]
  BY <1>13, <1>14, <1>15, <1>17
<1>19. [Waiting[i] EXCEPT !.ready = TRUE] = [block |-> block[p], ready |-> TRUE]
  <2>1. Waiting[i] = [block |-> block[p], ready |-> FALSE]
    BY <1>18
  <2>2. [[block |-> block[p], ready |-> FALSE] EXCEPT !.ready = TRUE]
          = [block |-> block[p], ready |-> TRUE]
    BY EntryCompletes, Zenon
  <2> QED
    BY <2>1, <2>2, Zenon
<1>20. ~ Waiting[i].ready
  BY <1>18
<1>21. Waiting' = [Waiting EXCEPT ![i] = [block |-> block[p], ready |-> TRUE]]
  BY <1>18
<1>22. Waiting' = [Waiting EXCEPT ![i].ready = TRUE]
  BY <1>19, <1>21, Zenon
<1> QED
  BY <1>20, <1>22

\* m_FlushLock: no second thread is inside flushEligible.
LEMMA OneFlush ==
  ASSUME RingInv, NEW f \in Flushers, NEW g \in Flushers,
         pc[f] \in LockedPoints, pc[g] \in LockedPoints
  PROVE  f = g
  BY DEF RingInv, LockOK

\* A flush retires the block of the oldest entry, which is complete.
LEMMA RetireTakes ==
  ASSUME RingInv, RingInv', NEW f \in Flushers, FlushRetire(f)
  PROVE  Waiting # <<>> /\ Head(Waiting).ready /\ Waiting' = Tail(Waiting)
<1>1. /\ pc[f] = "retire" /\ pc' = [pc EXCEPT ![f] = "stats"]
      /\ UNCHANGED <<head, tail, blockBase, block, ticket>>
  BY DEF FlushRetire, At, Goto, slotVars, localVars
<1>2. /\ head \in Nat /\ tail \in Nat /\ head < tail /\ f \in Threads /\ DOMAIN pc = Threads
      /\ Capacity \in Nat \ {0} /\ blockBase[Front] # Null
  BY <1>1, BoundsAssumption DEF RingInv, TypeOK, FlushOK, Works, Threads
<1>3. ~ Retired /\ Retired'
  <2>1. ASSUME Retired PROVE FALSE
    <3>1. PICK g \in Flushers : pc[g] \in {"stats", "clear", "advance"}
      BY <2>1 DEF Retired
    <3>2. f = g
      BY <1>1, <3>1, OneFlush DEF LockedPoints
    <3> QED
      BY <1>1, <3>1, <3>2
  <2>2. pc'[f] = "stats"
    BY <1>1, <1>2
  <2>3. Retired'
    BY <2>2 DEF Retired
  <2> QED
    BY <2>1, <2>3
<1>4. Oldest = head /\ Oldest' = head + 1
  BY <1>1, <1>3 DEF Oldest, Retired
<1>5. \A p \in Producers : Pending(p)' <=> Pending(p)
  BY <1>1, ThreadsAssumption DEF Pending
<1>6. EntryOf(head).ready
  <2>1. ASSUME NEW p \in Producers, Pending(p), ticket[p] = head PROVE FALSE
    BY <1>2, <2>1, PendingSlotEmpty DEF Front
  <2>2. EntryOf(head) = [block |-> blockBase[Slot(head)], ready |-> TRUE]
    BY <1>2, <2>1, EntryIs
  <2> QED
    BY <2>2
<1>7. ASSUME NEW k \in Nat PROVE EntryOf(k)' = EntryOf(k)
  BY <1>1, <1>5, EntryKept
<1> DEFINE n == tail - head
<1>8. n \in Nat /\ n > 0
  BY <1>2
<1>9. Waiting = Window(Entries, head, n) /\ Waiting' = Window(Entries', head + 1, n - 1)
  <2>1. tail' - Oldest' = n - 1
    BY <1>1, <1>2, <1>4
  <2> QED
    BY <1>4, <2>1 DEF Waiting, Window
<1> HIDE DEF n
<1>10. AgreeBut(Entries, Entries', head, n, head)
  BY <1>7, EntriesAre DEF AgreeBut
<1>11. /\ Window(Entries, head, n) # <<>>
       /\ Head(Window(Entries, head, n)) = Entries[head]
       /\ Window(Entries', head + 1, n - 1) = Tail(Window(Entries, head, n))
  <2>1. /\ head \in Nat /\ n \in Nat /\ n > 0
        /\ Entries \in [Nat -> Entry] /\ Entries' \in [Nat -> Entry]
    BY <1>2, <1>8, EntriesAre
  <2>2. Window(Entries, head, n) # <<>>
    BY <1>10, <2>1, WindowShrinks
  <2>3. Head(Window(Entries, head, n)) = Entries[head]
    BY <1>10, <2>1, WindowShrinks
  <2>4. Window(Entries', head + 1, n - 1) = Rest(Window(Entries, head, n))
    BY <1>10, <2>1, WindowShrinks
  <2> QED
    BY <2>2, <2>3, <2>4 DEF Rest
<1>12. Entries[head] = EntryOf(head)
  BY <1>2, EntriesAre
<1> QED
  BY <1>6, <1>9, <1>11, <1>12

\* Clearing the slot of the retired entry touches no other entry.
LEMMA ClearStutters ==
  ASSUME RingInv, RingInv', NEW f \in Flushers, FlushClear(f)
  PROVE  Waiting' = Waiting
<1>1. /\ pc[f] = "clear" /\ pc' = [pc EXCEPT ![f] = "advance"]
      /\ blockBase' = [blockBase EXCEPT ![Front] = Null]
      /\ UNCHANGED <<head, tail, block, ticket>>
  BY DEF FlushClear, At, Goto, localVars
<1>2. /\ head \in Nat /\ tail \in Nat /\ f \in Threads /\ DOMAIN pc = Threads
      /\ Capacity \in Nat \ {0} /\ blockBase \in [Index -> Blocks \union {Null}]
  BY BoundsAssumption DEF RingInv, TypeOK, Threads
<1>3. Retired /\ Retired'
  <2>1. pc'[f] = "advance"
    BY <1>1, <1>2
  <2> QED
    BY <1>1, <2>1 DEF Retired
<1>4. Oldest = head + 1 /\ Oldest' = Oldest
  BY <1>1, <1>3 DEF Oldest, Retired
<1>5. \A p \in Producers : Pending(p)' <=> Pending(p)
  BY <1>1, ThreadsAssumption DEF Pending
<1>6. ASSUME NEW k \in Nat, Oldest <= k, k < tail PROVE EntryOf(k)' = EntryOf(k)
  <2>1. ASSUME \A p \in Producers : Pending(p) => ticket[p] # k
        PROVE  blockBase'[Slot(k)] = blockBase[Slot(k)]
    <3>1. InWindow(k)
      BY <1>6, <2>1, OldestIs
    <3>2. head < k /\ k < head + Capacity
      BY <1>2, <1>4, <1>6, <3>1 DEF InWindow
    <3>3. Slot(k) # Front /\ Slot(k) \in Index
      BY <1>2, <3>2, SlotInjective, SlotType DEF Front
    <3> QED
      BY <1>1, <1>2, <3>3
  <2> QED
    BY <1>1, <1>5, <2>1, EntryKept
<1> QED
  BY <1>1, <1>4, <1>6, WaitingAfter

\* m_Head moves past an entry that is out of the queue already.
LEMMA AdvanceStutters ==
  ASSUME RingInv, RingInv', NEW f \in Flushers, FlushAdvance(f)
  PROVE  Waiting' = Waiting
<1>1. /\ pc[f] = "advance" /\ pc' = [pc EXCEPT ![f] = "look"] /\ head' = head + 1
      /\ UNCHANGED <<tail, blockBase, block, ticket>>
  BY DEF FlushAdvance, At, Goto, slotVars, localVars
<1>2. Retired /\ ~ Retired'
  <2>1. ASSUME NEW g \in Flushers, pc'[g] \in {"stats", "clear", "advance"} PROVE FALSE
    <3>1. g # f
      BY <1>1, <2>1 DEF RingInv, TypeOK, Threads
    <3>2. pc[g] \in {"stats", "clear", "advance"}
      BY <1>1, <2>1, <3>1
    <3> QED
      BY <1>1, <3>1, <3>2, OneFlush DEF LockedPoints
  <2> QED
    BY <1>1, <2>1 DEF Retired
<1>3. Oldest' = Oldest
  BY <1>1, <1>2 DEF Oldest, Retired
<1>4. \A p \in Producers : Pending(p)' <=> Pending(p)
  BY <1>1, ThreadsAssumption DEF Pending
<1>5. ASSUME NEW k \in Nat PROVE EntryOf(k)' = EntryOf(k)
  BY <1>1, <1>4, EntryKept
<1> QED
  BY <1>1, <1>3, <1>5, WaitingAfter

\* Every step of the ring is a step of the queue of reservations or leaves it.
LEMMA QueueStep ==
  RingInv /\ RingInv' /\ [Next]_vars
    => \/ \E b \in Blocks : Waiting' = Append(Waiting, [block |-> b, ready |-> FALSE])
       \/ \E i \in DOMAIN Waiting :
            ~ Waiting[i].ready /\ Waiting' = [Waiting EXCEPT ![i].ready = TRUE]
       \/ Waiting # <<>> /\ Head(Waiting).ready /\ Waiting' = Tail(Waiting)
       \/ Waiting' = Waiting
<1> SUFFICES ASSUME RingInv, RingInv', [Next]_vars
             PROVE  \/ \E b \in Blocks : Waiting' = Append(Waiting, [block |-> b, ready |-> FALSE])
                    \/ \E i \in DOMAIN Waiting :
                         ~ Waiting[i].ready /\ Waiting' = [Waiting EXCEPT ![i].ready = TRUE]
                    \/ Waiting # <<>> /\ Head(Waiting).ready /\ Waiting' = Tail(Waiting)
                    \/ Waiting' = Waiting
  OBVIOUS
<1>1. ASSUME NEW p \in Producers, Claim(p)
      PROVE  \E b \in Blocks : Waiting' = Append(Waiting, [block |-> b, ready |-> FALSE])
  BY <1>1, ClaimReserves
<1>2. ASSUME NEW f \in Flushers, FlushClear(f) \/ FlushAdvance(f) PROVE Waiting' = Waiting
  BY <1>2, ClearStutters, AdvanceStutters
<1>3. ASSUME Next, ~ \E p \in Producers : Claim(p) \/ Publish(p),
             ~ \E f \in Flushers : FlushRetire(f) \/ FlushClear(f) \/ FlushAdvance(f)
      PROVE  Waiting' = Waiting
  BY <1>3, EntriesStaySteps, StayStutters
<1>4. ASSUME UNCHANGED vars PROVE Waiting' = Waiting
  <2>1. EntriesStay
    BY <1>4 DEF vars, slotVars, localVars, EntriesStay, Retired, Pending
  <2> QED
    BY <2>1, StayStutters
<1> QED
  BY <1>1, <1>2, <1>3, <1>4, PublishCompletes, RetireTakes

\* The queue of the refinement, entry by entry, is the window of the tickets.
LEMMA WaitingIs ==
  RingInv => Waiting = [i \in 1 .. tail - Oldest |-> EntryOf(Oldest + i - 1)]
<1> SUFFICES ASSUME RingInv
             PROVE  Waiting = [i \in 1 .. tail - Oldest |-> EntryOf(Oldest + i - 1)]
  OBVIOUS
<1>1. Oldest \in Nat /\ tail - Oldest \in Nat
  BY OldestIs
<1>2. \A i \in 1 .. tail - Oldest : Oldest + i - 1 \in Nat
  BY <1>1
<1>3. \A i \in 1 .. tail - Oldest : Entries[Oldest + i - 1] = EntryOf(Oldest + i - 1)
  BY <1>2 DEF Entries
<1> QED
  BY <1>3 DEF Waiting, Window

\* The same after a step.
LEMMA WaitingIsAfter ==
  RingInv' => Waiting' = [i \in 1 .. tail - Oldest |-> EntryOf(Oldest + i - 1)]'
<1>1. (RingInv => Waiting = [i \in 1 .. tail - Oldest |-> EntryOf(Oldest + i - 1)])'
  BY WaitingIs, PTL
<1> QED
  BY <1>1

\* The ring is empty at the start.
LEMMA InitWaiting == Init => Waiting = <<>>
<1> SUFFICES ASSUME Init PROVE Waiting = <<>>
  OBVIOUS
<1>1. ~ Retired
  BY ThreadsAssumption DEF Init, Retired, Threads, Flushers
<1>2. Oldest = head
  BY <1>1 DEF Oldest, Retired
<1>3. tail - Oldest = 0
  BY <1>2 DEF Init
<1> QED
  BY <1>3 DEF Waiting, Window

\* The ring implements the queue of reservations: blocks are retired in the
\* order of their claims, each once and none before it is published
\* (QuarantineQueue.cpp:81-99, 126-161).
THEOREM RingRefinesQueue == Spec => RefinesReservationQueue
<1>1. Init => Reservations!Init
  BY InitWaiting, InitRing, WaitingIs DEF Reservations!Init
<1>2. RingInv /\ RingInv' /\ [Next]_vars
        => [Reservations!Next]_[i \in 1 .. tail - Oldest |-> EntryOf(Oldest + i - 1)]
  <2> SUFFICES ASSUME RingInv, RingInv', [Next]_vars
               PROVE  [Reservations!Next]_[i \in 1 .. tail - Oldest |-> EntryOf(Oldest + i - 1)]
    OBVIOUS
  <2>1. Waiting = [i \in 1 .. tail - Oldest |-> EntryOf(Oldest + i - 1)]
    BY WaitingIs
  <2>2. Waiting' = [i \in 1 .. tail - Oldest |-> EntryOf(Oldest + i - 1)]'
    BY WaitingIsAfter
  <2> QED
    BY <2>1, <2>2, QueueStep
    DEF Reservations!Next, Reservations!Reserve, Reservations!Complete, Reservations!Retire
<1> QED
  BY <1>1, <1>2, RingInductive, PTL
  DEF Spec, RefinesReservationQueue, Reservations!Spec
=============================================================================
