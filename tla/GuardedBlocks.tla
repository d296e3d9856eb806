---------------------------- MODULE GuardedBlocks ----------------------------
(***************************************************************************)
(* How a block comes to be: the size checks of Region::allocate, the       *)
(* lock-free reservation and the page commits of a bump allocator          *)
(* (KerbecsAllocators.cpp, KerbecsMemory.cpp), and the guards that the     *)
(* layout places around the payload.  Threads allocate at the same time    *)
(* and the program writes into its payloads, and now and then outside.     *)
(*                                                                         *)
(* Offsets are from m_Base, which is page-aligned.  Blocks are never given *)
(* back: deallocate of a bump allocator does nothing.                      *)
(***************************************************************************)
EXTENDS BlockLayout, FiniteSets

CONSTANTS
  Threads,
  Requests,       \* what is asked for: [layout, count, size, align]
  ZoneSize,       \* m_Size
  PageSize,       \* PAGE_SIZE
  Distances,      \* how far from a payload the program may write
  StrayBound      \* bound: bytes written outside the payloads

ASSUME ZoneAssumption ==
  /\ {ZoneSize, PageSize} \subseteq Nat \ {0}
  /\ StrayBound \in Nat /\ Distances \subseteq Nat \ {0}

\* alignof(T) divides sizeof(T) and the page size; both fit into a size_t.
ASSUME RequestsAssumption ==
  /\ Requests # {}
  /\ \A q \in Requests :
       /\ q \in [layout : Layouts, count : Sizes \ {0}, size : Sizes \ {0}, align : Sizes \ {0}]
       /\ SizeLimit % q.align = 0

VARIABLES
  bump,           \* m_Bump
  page,           \* page[p]: state of the page p of the zone
  memory,         \* memory[x]: the byte at the offset x
  blocks,         \* blocks that are placed: [request, at, size]
  stray,          \* bytes that were written outside of every payload
  pc,             \* control point of each thread
  request,        \* request[t]: what t allocates
  seen,           \* seen[t]: current, the m_Bump t has read
  at,             \* at[t]: the offset of the block t has reserved
  cursor          \* cursor[t]: page, the page t commits next

localVars == <<pc, request, seen, at, cursor>>
vars == <<bump, page, memory, blocks, stray, localVars>>

Offset == 0 .. ZoneSize - 1
Pages  == 0 .. (ZoneSize - 1) \div PageSize

-----------------------------------------------------------------------------
(* Region::allocate *)

UserSize(q) == q.count * q.size
SizeOf(q)   == BlockSize(q.layout, UserSize(q), q.align)
OffsetsOf(q) == Offsets(q.layout, UserSize(q), q.align)

CountFits(q) == q.count <= (SizeLimit - 1) \div q.size

\* Mutant: the second check is missing.
AcceptedUnchecked(q) == CountFits(q)

\* The two checks that report a SizeOverflow.
Accepted(q) == CountFits(q) /\ SizeOf(q) >= UserSize(q)

\* aligned + v_Bytes must not wrap: _bumpReserve does not see it (line 62).
ASSUME ReservationAssumption ==
  \A q \in Requests : Accepted(q) => SizeOf(q) + ZoneSize + q.align < SizeLimit

NoRequest == CHOOSE q \in Requests : TRUE

Init ==
  /\ bump = 0
  /\ page = [p \in Pages |-> "reserved"]
  /\ memory = [x \in Offset |-> Unwritten]
  /\ blocks = {}
  /\ stray = {}
  /\ pc      = [t \in Threads |-> "idle"]
  /\ request = [t \in Threads |-> NoRequest]
  /\ seen    = [t \in Threads |-> 0]
  /\ at      = [t \in Threads |-> 0]
  /\ cursor  = [t \in Threads |-> 0]

Goto(t, label) == pc' = [pc EXCEPT ![t] = label]

\* The call of t returns: its local variables are gone.
Return(t) ==
  /\ Goto(t, "idle")
  /\ request' = [request EXCEPT ![t] = NoRequest]
  /\ seen' = [seen EXCEPT ![t] = 0]
  /\ at' = [at EXCEPT ![t] = 0]
  /\ cursor' = [cursor EXCEPT ![t] = 0]

\* A request that is refused changes nothing here.
Allocate(t, q) ==
  /\ pc[t] = "idle"
  /\ Accepted(q)
  /\ request' = [request EXCEPT ![t] = q]
  /\ seen' = [seen EXCEPT ![t] = bump]
  /\ Goto(t, "reserve")
  /\ UNCHANGED <<bump, page, memory, blocks, stray, at, cursor>>

-----------------------------------------------------------------------------
(* _bumpReserve and the commits of BumpAllocatorBase::allocate *)

Aligned(t) == AlignUp(seen[t], request[t].align)
NextBump(t) == Add(Aligned(t), SizeOf(request[t]))

FirstPage(t) == at[t] \div PageSize
LastPage(t)  == (at[t] + SizeOf(request[t]) - 1) \div PageSize

ReserveFails(t) ==
  /\ pc[t] = "reserve"
  /\ NextBump(t) > ZoneSize
  /\ Return(t)
  /\ UNCHANGED <<bump, page, memory, blocks, stray>>

\* Mutant: the value read is not compared.
ReserveStore(t) ==
  /\ pc[t] = "reserve"
  /\ NextBump(t) <= ZoneSize
  /\ bump' = NextBump(t)
  /\ at' = [at EXCEPT ![t] = Aligned(t)]
  /\ cursor' = [cursor EXCEPT ![t] = Aligned(t) \div PageSize]
  /\ Goto(t, "commit")
  /\ UNCHANGED <<page, memory, blocks, stray, request, seen>>

\* The compare-exchange succeeds ...
Reserve(t) ==
  /\ pc[t] = "reserve"
  /\ NextBump(t) <= ZoneSize
  /\ bump = seen[t]
  /\ bump' = NextBump(t)
  /\ at' = [at EXCEPT ![t] = Aligned(t)]
  /\ cursor' = [cursor EXCEPT ![t] = Aligned(t) \div PageSize]
  /\ Goto(t, "commit")
  /\ UNCHANGED <<page, memory, blocks, stray, request, seen>>

\* ... or reads m_Bump again; a weak one that fails for nothing reads the same.
ReserveAgain(t) ==
  /\ pc[t] = "reserve"
  /\ NextBump(t) <= ZoneSize
  /\ bump # seen[t]
  /\ seen' = [seen EXCEPT ![t] = bump]
  /\ UNCHANGED <<bump, page, memory, blocks, stray, pc, request, at, cursor>>

NextPage(t) == cursor' = [cursor EXCEPT ![t] = @ + 1]

\* queryPage asks whether the page is resident, which a committed one is only
\* once it has been touched.
CommitQuery(t) ==
  /\ pc[t] = "commit"
  /\ cursor[t] <= LastPage(t)
  /\ IF page[cursor[t]] = "resident"
     THEN NextPage(t) /\ UNCHANGED pc
     ELSE Goto(t, "protect") /\ UNCHANGED cursor
  /\ UNCHANGED <<bump, page, memory, blocks, stray, request, seen, at>>

\* Mutant: the block's first page is committed only.
CommitEndsEarly(t) ==
  /\ pc[t] = "commit"
  /\ cursor[t] > FirstPage(t)
  /\ Goto(t, "place")
  /\ UNCHANGED <<bump, page, memory, blocks, stray, request, seen, at, cursor>>

CommitEnds(t) ==
  /\ pc[t] = "commit"
  /\ cursor[t] > LastPage(t)
  /\ Goto(t, "place")
  /\ UNCHANGED <<bump, page, memory, blocks, stray, request, seen, at, cursor>>

\* commit: the page is made accessible, also when another thread has done it.
Commit(t) ==
  /\ pc[t] = "protect"
  /\ page' = [page EXCEPT ![cursor[t]] = IF @ = "reserved" THEN "committed" ELSE @]
  /\ NextPage(t)
  /\ Goto(t, "commit")
  /\ UNCHANGED <<bump, memory, blocks, stray, request, seen, at>>

-----------------------------------------------------------------------------
(* place, and what the program writes *)

\* The zone after the stamps of a block at the offset a.
Stamped(a, stamps) ==
  [x \in Offset |->
     LET last == {k \in DOMAIN stamps : x - a \in DOMAIN stamps[k]}
     IN  IF last = {} THEN memory[x]
         ELSE stamps[CHOOSE k \in last : \A j \in last : j <= k][x - a]]

Place(t) ==
  /\ pc[t] = "place"
  /\ LET q == request[t] IN
       /\ memory' = Stamped(at[t], Stamps(q.layout, OffsetsOf(q), SizeOf(q)))
       /\ blocks' = blocks \union {[request |-> q, at |-> at[t], size |-> SizeOf(q)]}
  /\ page' = [p \in Pages |-> IF p \in FirstPage(t) .. LastPage(t) THEN "resident" ELSE page[p]]
  /\ Goto(t, "fill")
  /\ UNCHANGED <<bump, stray, request, seen, at, cursor>>

Range(b)   == Between(b.at, b.at + b.size)
Payload(b) == LET first == b.at + OffsetsOf(b.request).user
              IN  Between(first, first + UserSize(b.request))

\* t fills the payload it was given ...
Fill(t) ==
  /\ pc[t] = "fill"
  /\ \E b \in blocks :
       /\ b.at = at[t]
       /\ memory' = [x \in Offset |-> IF x \in Payload(b) THEN ByProgram ELSE memory[x]]
  /\ Return(t)
  /\ UNCHANGED <<bump, page, blocks, stray>>

\* ... and the program writes to a byte of a block outside its payload.
Stray(b) ==
  /\ Cardinality(stray) < StrayBound
  /\ \E x \in Range(b) \ Payload(b), y \in Payload(b) :
       /\ {x - y, y - x} \cap Distances # {}
       /\ memory' = [memory EXCEPT ![x] = ByProgram]
       /\ stray' = stray \union {x}
  /\ UNCHANGED <<bump, page, blocks, localVars>>

ThreadStep(t) ==
  \/ \E q \in Requests : Allocate(t, q)
  \/ ReserveFails(t) \/ Reserve(t) \/ ReserveAgain(t)
  \/ CommitQuery(t) \/ CommitEnds(t) \/ Commit(t)
  \/ Place(t) \/ Fill(t)

Next ==
  \/ \E t \in Threads : ThreadStep(t)
  \/ \E b \in blocks : Stray(b)

Spec == Init /\ [][Next]_vars

-----------------------------------------------------------------------------
(* Properties *)

\* Every variable has its type; in particular no offset leaves the zone
\* (KerbecsAllocators.cpp:64).
TypeOK ==
  /\ bump \in 0 .. ZoneSize
  /\ page \in [Pages -> {"reserved", "committed", "resident"}]
  /\ DOMAIN memory = Offset
  /\ blocks \subseteq [request : Requests, at : Nat, size : Nat]
  /\ stray \subseteq Offset
  /\ pc \in [Threads -> {"idle", "reserve", "commit", "protect", "place", "fill"}]
  /\ request \in [Threads -> Requests]
  /\ seen \in [Threads -> 0 .. ZoneSize]
  /\ at \in [Threads -> Nat]
  /\ cursor \in [Threads -> Nat]

Holding(t) == pc[t] \in {"commit", "protect", "place"}

\* The blocks from a, of the size m, and from b, of the size n, have no byte in common.
Apart(a, m, b, n) == a + m <= b \/ b + n <= a

\* However threads race on m_Bump, the ranges they reserve lie in the zone and
\* do not overlap each other or a block that was placed (KerbecsAllocators.cpp:66).
RangesDisjoint ==
  /\ \A t \in Threads :
       Holding(t) =>
         /\ at[t] + SizeOf(request[t]) <= bump /\ bump <= ZoneSize
         /\ \A u \in Threads \ {t} :
              Holding(u) => Apart(at[t], SizeOf(request[t]), at[u], SizeOf(request[u]))
         /\ \A b \in blocks : Apart(at[t], SizeOf(request[t]), b.at, b.size)
  /\ \A b \in blocks :
       /\ b.at + b.size <= bump /\ bump <= ZoneSize
       /\ \A c \in blocks \ {b} : Apart(b.at, b.size, c.at, c.size)

\* A block is only touched when all its pages are accessible, although a query
\* and the commit that follows race with those of other threads.
PagesCommitted ==
  /\ \A t \in Threads :
       pc[t] = "place" => \A p \in FirstPage(t) .. LastPage(t) : page[p] # "reserved"
  /\ \A b \in blocks : \A x \in Range(b) : page[x \div PageSize] # "reserved"

\* Every accepted request gets a payload of its full size, aligned, with full
\* guards on both sides and nothing of it outside the block: no size has wrapped
\* around in the computation (Region.h:100-104).
SectionsFit ==
  \A b \in blocks :
    LET q == b.request
        o == OffsetsOf(q)
        end == o.user + UserSize(q)
    IN  /\ (b.at + o.user) % q.align = 0
        /\ CASE q.layout = "normal" ->
                  /\ RedzoneSize <= o.user
                  /\ end = o.redzone2 /\ end + RedzoneSize <= o.meta
                  /\ o.meta + NormalMeta.size = b.size
             [] q.layout = "enhanced" ->
                  /\ RedzoneSize <= o.meta /\ o.meta + EnhancedMeta.size = o.canary
                  /\ o.canary + CanarySize <= o.user
                  /\ end = o.canary2 /\ end + CanarySize <= o.meta2
                  /\ o.meta2 + EnhancedMeta.size = o.redzone2
                  /\ o.redzone2 + RedzoneSize = b.size
             [] q.layout = "static" ->
                  /\ RedzoneSize = o.canary /\ o.canary + CanarySize <= o.user
                  /\ end = o.canary2 /\ end + CanarySize = o.redzone2
                  /\ o.redzone2 + RedzoneSize = b.size

MetaOffsets(q) ==
  LET o == OffsetsOf(q) IN
  CASE q.layout = "normal"   -> {o.meta}
    [] q.layout = "enhanced" -> {o.meta, o.meta2}
    [] q.layout = "static"   -> {}
MetaOf(q) == IF q.layout = "normal" THEN NormalMeta ELSE EnhancedMeta

MetaBytes(b) ==
  UNION {Between(b.at + m, b.at + m + MetaOf(b.request).size) : m \in MetaOffsets(b.request)}

Intact(b) ==
  LET bytes == [i \in Between(0, b.size) |-> memory[b.at + i]]
  IN  VerifyGuards(bytes, b.request.layout, OffsetsOf(b.request), b.size)

\* verifyGuards reports a block exactly when the program has written to one of
\* its guard bytes, be it padding: never because of its payload, its metadata or
\* its neighbours.
GuardsReport ==
  \A b \in blocks : Intact(b) <=> stray \cap (Range(b) \ (Payload(b) \union MetaBytes(b))) = {}

\* Metadata objects are where their types may be (MemoryLayouts.h:40, :108).
MetadataAligned ==
  \A b \in blocks : \A m \in MetaOffsets(b.request) :
    (b.at + m) % MetaOf(b.request).align = 0
=============================================================================
