-------------------------- MODULE GuardedBlocksProofs --------------------------
(***************************************************************************)
(* What the bump allocators and the layouts guarantee for every zone, page *)
(* size, alignment, size of the guards and set of requests.                *)
(***************************************************************************)
EXTENDS GuardedBlocks, TLAPS

-----------------------------------------------------------------------------
(* Arithmetic of sizes *)

LEMMA SizesType ==
  /\ SizeLimit \in Nat \ {0} /\ RedzoneSize \in Nat \ {0}
  /\ CanarySize \in Nat \ {0} /\ WordSize \in Nat \ {0}
  /\ NormalMeta.size \in Nat \ {0} /\ NormalMeta.align \in Nat \ {0}
  /\ EnhancedMeta.size \in Nat \ {0} /\ EnhancedMeta.align \in Nat \ {0}
<1>1. /\ NormalMeta \in [size : Nat \ {0}, align : Nat \ {0}]
      /\ EnhancedMeta \in [size : Nat \ {0}, align : Nat \ {0}]
  BY SizesAssumption
<1>2. QED
  BY <1>1, SizesAssumption

LEMMA RemainderRange ==
  ASSUME NEW x \in Nat, NEW a \in Nat \ {0}
  PROVE  /\ x % a \in 0 .. a - 1 /\ x % a <= x
         /\ x = a * (x \div a) + (x % a) /\ x \div a \in Nat
<1>1. x % a \in 0 .. a - 1
  OBVIOUS
<1>2. x % a <= x
  OBVIOUS
<1>3. x = a * (x \div a) + (x % a)
  OBVIOUS
<1>4. x \div a \in Nat
  OBVIOUS
<1>5. QED
  BY <1>1, <1>2, <1>3, <1>4

LEMMA RemainderOfMultiple ==
  ASSUME NEW a \in Nat \ {0}, NEW k \in Nat
  PROVE  (a * k) % a = 0
<1> DEFINE x == a * k
           d == x \div a
           r == x % a
<1>1. x \in Nat
  OBVIOUS
<1>2. r \in 0 .. a - 1 /\ x = a * d + r /\ d \in Nat
  BY <1>1, RemainderRange
<1>3. r = a * (k - d)
  BY <1>2
<1> HIDE DEF r, d, x
<1>4. CASE k = d
  BY <1>2, <1>3, <1>4 DEF r, x
<1>5. CASE k - d >= 1
  <2>1. a * (k - d) >= a
    BY <1>2, <1>5
  <2>2. QED
    BY <1>2, <1>3, <2>1
<1>6. CASE k - d <= -1
  <2>1. a * (k - d) <= -a
    BY <1>2, <1>6
  <2>2. QED
    BY <1>2, <1>3, <2>1
<1>7. QED
  BY <1>2, <1>4, <1>5, <1>6

LEMMA DividedIsMultiple ==
  ASSUME NEW x \in Nat, NEW a \in Nat \ {0}, x % a = 0
  PROVE  \E k \in Nat : x = a * k
<1>1. x = a * (x \div a) /\ x \div a \in Nat
  BY RemainderRange
<1>2. QED
  BY <1>1

LEMMA SumOfMultiples ==
  ASSUME NEW x \in Nat, NEW y \in Nat, NEW a \in Nat \ {0}, x % a = 0, y % a = 0
  PROVE  (x + y) % a = 0
<1>1. PICK k \in Nat : x = a * k
  BY DividedIsMultiple
<1>2. PICK j \in Nat : y = a * j
  BY DividedIsMultiple
<1>3. x + y = a * (k + j)
  BY <1>1, <1>2
<1>4. (a * (k + j)) % a = 0
  BY RemainderOfMultiple
<1>5. QED
  BY <1>3, <1>4

LEMMA DivisionMonotone ==
  ASSUME NEW x \in Nat, NEW y \in Nat, NEW a \in Nat \ {0}, x <= y
  PROVE  x \div a \in Nat /\ y \div a \in Nat /\ x \div a <= y \div a
<1> DEFINE d == x \div a
           e == y \div a
<1>1. /\ d \in Nat /\ e \in Nat /\ x % a \in 0 .. a - 1 /\ y % a \in 0 .. a - 1
      /\ x = a * d + (x % a) /\ y = a * e + (y % a)
  BY RemainderRange
<1> HIDE DEF d, e
<1>2. ASSUME d >= e + 1 PROVE FALSE
  <2>1. a * d >= a * (e + 1)
    BY <1>1, <1>2
  <2>2. a * (e + 1) = a * e + a
    BY <1>1
  <2>3. QED
    <3> DEFINE ad == a * d
               ae == a * e
    <3>1. ad \in Nat /\ ae \in Nat
      BY <1>1
    <3>2. /\ x = ad + (x % a) /\ y = ae + (y % a) /\ ad >= ae + a
          /\ x % a \in Nat /\ y % a \in 0 .. a - 1
      BY <1>1, <2>1, <2>2
    <3> HIDE DEF ad, ae
    <3>3. QED
      BY <3>1, <3>2
<1>3. d <= e
  BY <1>1, <1>2
<1>4. QED
  BY <1>1, <1>3 DEF d, e

LEMMA AddType ==
  ASSUME NEW x \in Nat, NEW y \in Nat
  PROVE  Add(x, y) \in Nat
  BY SizesType DEF Add

\* alignUp, with and without a wrap.
LEMMA AlignUpBounds ==
  ASSUME NEW v \in Nat, NEW a \in Nat \ {0}
  PROVE  /\ AlignUp(v, a) \in Nat
         /\ v + a - 1 < SizeLimit => v <= AlignUp(v, a) /\ AlignUp(v, a) <= v + a - 1
         /\ v + a - 1 >= SizeLimit => AlignUp(v, a) <= v + a - 1 - SizeLimit
<1> DEFINE last == Add(v, a - 1)
           r == last % a
<1>1. last \in Nat
  BY AddType
<1>2. r \in 0 .. a - 1 /\ r <= last
  BY <1>1, RemainderRange
<1>3. AlignUp(v, a) = last - r
  BY DEF AlignUp
<1>4. last = IF v + (a - 1) < SizeLimit THEN v + (a - 1) ELSE v + (a - 1) - SizeLimit
  BY DEF Add
<1> HIDE DEF r, last
<1>5. QED
  BY <1>1, <1>2, <1>3, <1>4, SizesType

LEMMA AlignUpAligns ==
  ASSUME NEW v \in Nat, NEW a \in Nat \ {0}
  PROVE  AlignUp(v, a) % a = 0
<1> DEFINE last == Add(v, a - 1)
<1>1. last \in Nat
  BY AddType
<1>2. last = a * (last \div a) + (last % a) /\ last \div a \in Nat /\ last % a \in 0 .. a - 1
  BY <1>1, RemainderRange
<1>3. AlignUp(v, a) = last - (last % a)
  BY DEF AlignUp
<1> HIDE DEF last
<1>4. AlignUp(v, a) = a * (last \div a)
  <2> DEFINE m == a * (last \div a)
  <2>1. m \in Nat
    BY <1>2
  <2>2. last = m + (last % a)
    BY <1>2
  <2> HIDE DEF m
  <2>3. AlignUp(v, a) = m
    BY <1>2, <1>3, <2>1, <2>2
  <2>4. QED
    BY <2>3 DEF m
<1>5. QED
  BY <1>2, <1>4, RemainderOfMultiple
-----------------------------------------------------------------------------
(* The layouts: a block whose size is not below its payload's has not wrapped *)

LEMMA AddBounds ==
  ASSUME NEW x \in Nat, NEW y \in Nat
  PROVE  /\ Add(x, y) \in Nat
         /\ x + y < SizeLimit => Add(x, y) = x + y
         /\ x + y >= SizeLimit => Add(x, y) = x + y - SizeLimit
  BY SizesType DEF Add

LEMMA NormalFits ==
  ASSUME NEW p \in Nat, NEW a \in Nat \ {0}, 2 * a <= SizeLimit,
         NormalBlockSize(p, a) >= p
  PROVE  LET o == NormalOffsets(p, a) IN
         /\ o.user \in Nat /\ o.user % a = 0
         /\ RedzoneSize <= o.user
         /\ o.user + p = o.redzone2 /\ o.user + p + RedzoneSize <= o.meta
         /\ o.meta + NormalMeta.size = NormalBlockSize(p, a)
         /\ NormalBlockSize(p, a) \in Nat
<1> DEFINE ms == NormalMeta.size
           ma == NormalMeta.align
           user == AlignUp(RedzoneSize, a)
           trailing == Add(user, p)
           above == Add(trailing, RedzoneSize)
           meta == AlignUp(above, ma)
           size == Add(meta, ms)
           o == NormalOffsets(p, a)
<1>1. /\ SizeLimit \in Nat \ {0} /\ RedzoneSize \in Nat \ {0}
      /\ ms \in Nat \ {0} /\ ma \in Nat \ {0}
      /\ 4 * (RedzoneSize + ms + ma) < SizeLimit
  BY SizesType, OverheadAssumption
<1>2. /\ user \in Nat
      /\ RedzoneSize + a - 1 < SizeLimit => RedzoneSize <= user /\ user <= RedzoneSize + a - 1
  BY <1>1, AlignUpBounds
<1>3. /\ trailing \in Nat
      /\ user + p < SizeLimit => trailing = user + p
      /\ user + p >= SizeLimit => trailing = user + p - SizeLimit
  BY <1>2, AddBounds
<1>4. /\ above \in Nat
      /\ trailing + RedzoneSize < SizeLimit => above = trailing + RedzoneSize
      /\ trailing + RedzoneSize >= SizeLimit => above = trailing + RedzoneSize - SizeLimit
  BY <1>1, <1>3, AddBounds
<1>5. /\ meta \in Nat
      /\ above + ma - 1 < SizeLimit => above <= meta /\ meta <= above + ma - 1
      /\ above + ma - 1 >= SizeLimit => meta <= above + ma - 1 - SizeLimit
  BY <1>1, <1>4, AlignUpBounds
<1>6. /\ size \in Nat
      /\ meta + ms < SizeLimit => size = meta + ms
      /\ meta + ms >= SizeLimit => size = meta + ms - SizeLimit
  BY <1>1, <1>5, AddBounds
<1>7. user % a = 0
  BY <1>1, AlignUpAligns
<1>8. o.user = user /\ o.redzone2 = trailing /\ o.meta = meta /\ NormalBlockSize(p, a) = size
  BY DEF NormalOffsets, NormalBlockSize
<1> HIDE DEF ms, ma, user, trailing, above, meta, size, o
<1>9. size >= p
  BY <1>8
<1>10. /\ RedzoneSize <= user /\ trailing = user + p
       /\ user + p + RedzoneSize <= meta /\ size = meta + ms
  BY <1>1, <1>2, <1>3, <1>4, <1>5, <1>6, <1>9
<1>11. QED
  BY <1>2, <1>6, <1>7, <1>8, <1>10 DEF o, ms

LEMMA EnhancedFits ==
  ASSUME NEW p \in Nat, NEW a \in Nat \ {0}, 2 * a <= SizeLimit,
         EnhancedBlockSize(p, a) >= p
  PROVE  LET o == EnhancedOffsets(p, a) IN
         /\ o.user \in Nat /\ o.user % a = 0
         /\ RedzoneSize <= o.meta /\ o.meta + EnhancedMeta.size = o.canary
         /\ o.canary + CanarySize <= o.user
         /\ o.user + p = o.canary2 /\ o.user + p + CanarySize <= o.meta2
         /\ o.meta2 + EnhancedMeta.size = o.redzone2
         /\ o.redzone2 + RedzoneSize = EnhancedBlockSize(p, a)
         /\ EnhancedBlockSize(p, a) \in Nat
<1> DEFINE es == EnhancedMeta.size
           ea == EnhancedMeta.align
           meta == AlignUp(RedzoneSize, ea)
           canary == Add(meta, es)
           below == Add(canary, CanarySize)
           user == AlignUp(below, a)
           canary2 == Add(user, p)
           above == Add(canary2, CanarySize)
           meta2 == AlignUp(above, ea)
           redzone2 == Add(meta2, es)
           size == Add(redzone2, RedzoneSize)
           o == EnhancedOffsets(p, a)
<1>1. /\ SizeLimit \in Nat \ {0} /\ RedzoneSize \in Nat \ {0} /\ CanarySize \in Nat \ {0}
      /\ es \in Nat \ {0} /\ ea \in Nat \ {0}
      /\ 4 * (RedzoneSize + CanarySize + es + ea) < SizeLimit
  BY SizesType, OverheadAssumption
<1>2. /\ meta \in Nat
      /\ RedzoneSize + ea - 1 < SizeLimit => RedzoneSize <= meta /\ meta <= RedzoneSize + ea - 1
  BY <1>1, AlignUpBounds
<1>3. canary \in Nat /\ (meta + es < SizeLimit => canary = meta + es)
  BY <1>1, <1>2, AddBounds
<1>4. below \in Nat /\ (canary + CanarySize < SizeLimit => below = canary + CanarySize)
  BY <1>1, <1>3, AddBounds
<1>5. /\ user \in Nat
      /\ below + a - 1 < SizeLimit => below <= user /\ user <= below + a - 1
  BY <1>4, AlignUpBounds
<1>6. /\ canary2 \in Nat
      /\ user + p < SizeLimit => canary2 = user + p
      /\ user + p >= SizeLimit => canary2 = user + p - SizeLimit
  BY <1>5, AddBounds
<1>7. /\ above \in Nat
      /\ canary2 + CanarySize < SizeLimit => above = canary2 + CanarySize
      /\ canary2 + CanarySize >= SizeLimit => above = canary2 + CanarySize - SizeLimit
  BY <1>1, <1>6, AddBounds
<1>8. /\ meta2 \in Nat
      /\ above + ea - 1 < SizeLimit => above <= meta2 /\ meta2 <= above + ea - 1
      /\ above + ea - 1 >= SizeLimit => meta2 <= above + ea - 1 - SizeLimit
  BY <1>1, <1>7, AlignUpBounds
<1>9. /\ redzone2 \in Nat
      /\ meta2 + es < SizeLimit => redzone2 = meta2 + es
      /\ meta2 + es >= SizeLimit => redzone2 = meta2 + es - SizeLimit
  BY <1>1, <1>8, AddBounds
<1>10. /\ size \in Nat
       /\ redzone2 + RedzoneSize < SizeLimit => size = redzone2 + RedzoneSize
       /\ redzone2 + RedzoneSize >= SizeLimit => size = redzone2 + RedzoneSize - SizeLimit
  BY <1>1, <1>9, AddBounds
<1>11. user % a = 0
  BY <1>4, AlignUpAligns
<1>12. /\ o.meta = meta /\ o.canary = canary /\ o.user = user /\ o.canary2 = canary2
       /\ o.meta2 = meta2 /\ o.redzone2 = redzone2
       /\ EnhancedBlockSize(p, a) = size
  BY DEF EnhancedOffsets, EnhancedBlockSize
<1> HIDE DEF es, ea, meta, canary, below, user, canary2, above, meta2, redzone2, size, o
<1>13. size >= p
  BY <1>12
<1>14. /\ RedzoneSize <= meta /\ canary = meta + es /\ canary + CanarySize <= user
       /\ user <= RedzoneSize + ea - 1 + es + CanarySize + a - 1
  BY <1>1, <1>2, <1>3, <1>4, <1>5
<1>15. /\ canary2 = user + p /\ user + p + CanarySize <= meta2
       /\ redzone2 = meta2 + es /\ size = redzone2 + RedzoneSize
  BY <1>1, <1>5, <1>6, <1>7, <1>8, <1>9, <1>10, <1>13, <1>14
<1>16. QED
  BY <1>5, <1>10, <1>11, <1>12, <1>14, <1>15 DEF o, es

LEMMA StaticFits ==
  ASSUME NEW p \in Nat, NEW a \in Nat \ {0}, 2 * a <= SizeLimit,
         StaticBlockSize(p, a) >= p
  PROVE  LET o == StaticOffsets(p, a) IN
         /\ o.user \in Nat /\ o.user % a = 0
         /\ RedzoneSize = o.canary /\ o.canary + CanarySize <= o.user
         /\ o.user + p = o.canary2 /\ o.user + p + CanarySize = o.redzone2
         /\ o.redzone2 + RedzoneSize = StaticBlockSize(p, a)
         /\ StaticBlockSize(p, a) \in Nat
<1> DEFINE below == Add(RedzoneSize, CanarySize)
           user == AlignUp(below, a)
           canary2 == Add(user, p)
           redzone2 == Add(canary2, CanarySize)
           size == Add(redzone2, RedzoneSize)
           o == StaticOffsets(p, a)
<1>1. /\ SizeLimit \in Nat \ {0} /\ RedzoneSize \in Nat \ {0} /\ CanarySize \in Nat \ {0}
      /\ 4 * (RedzoneSize + CanarySize) < SizeLimit
  BY SizesType, OverheadAssumption
<1>2. /\ below \in Nat
      /\ RedzoneSize + CanarySize < SizeLimit => below = RedzoneSize + CanarySize
  BY <1>1, AddBounds
<1>3. /\ user \in Nat
      /\ below + a - 1 < SizeLimit => below <= user /\ user <= below + a - 1
  BY <1>2, AlignUpBounds
<1>4. /\ canary2 \in Nat
      /\ user + p < SizeLimit => canary2 = user + p
      /\ user + p >= SizeLimit => canary2 = user + p - SizeLimit
  BY <1>3, AddBounds
<1>5. /\ redzone2 \in Nat
      /\ canary2 + CanarySize < SizeLimit => redzone2 = canary2 + CanarySize
      /\ canary2 + CanarySize >= SizeLimit => redzone2 = canary2 + CanarySize - SizeLimit
  BY <1>1, <1>4, AddBounds
<1>6. /\ size \in Nat
      /\ redzone2 + RedzoneSize < SizeLimit => size = redzone2 + RedzoneSize
      /\ redzone2 + RedzoneSize >= SizeLimit => size = redzone2 + RedzoneSize - SizeLimit
  BY <1>1, <1>5, AddBounds
<1>7. user % a = 0
  BY <1>2, AlignUpAligns
<1>8. /\ o.canary = RedzoneSize /\ o.user = user /\ o.canary2 = canary2
      /\ o.redzone2 = redzone2 /\ StaticBlockSize(p, a) = size
  BY DEF StaticOffsets, StaticBlockSize
<1> HIDE DEF below, user, canary2, redzone2, size, o
<1>9. size >= p
  BY <1>8
<1>10. /\ RedzoneSize + CanarySize <= user
       /\ canary2 = user + p /\ redzone2 = canary2 + CanarySize
       /\ size = redzone2 + RedzoneSize
  BY <1>1, <1>2, <1>3, <1>4, <1>5, <1>6, <1>9
<1>11. QED
  BY <1>3, <1>4, <1>5, <1>6, <1>7, <1>8, <1>10 DEF o
-----------------------------------------------------------------------------
(* Requests *)

LEMMA RequestType ==
  ASSUME NEW q \in Requests
  PROVE  /\ q.layout \in Layouts /\ q.align \in Nat \ {0} /\ 2 * q.align <= SizeLimit
         /\ UserSize(q) \in Nat \ {0}
<1>1. q \in [layout : Layouts, count : Sizes \ {0}, size : Sizes \ {0}, align : Sizes \ {0}]
  BY RequestsAssumption
<1>2. /\ q.layout \in Layouts
      /\ q.count \in Nat \ {0} /\ q.size \in Nat \ {0}
      /\ q.align \in Nat \ {0} /\ q.align < SizeLimit
  BY <1>1, SizesType DEF Sizes
<1>3. UserSize(q) \in Nat \ {0}
  BY <1>2 DEF UserSize
<1>4. PICK k \in Nat : SizeLimit = q.align * k
  BY <1>2, SizesType, RequestsAssumption, DividedIsMultiple
<1>5. k >= 2
  <2>1. k # 0 /\ k # 1
    BY <1>2, <1>4, SizesType
  <2>2. QED
    BY <2>1
<1>6. q.align * k >= q.align * 2
  BY <1>2, <1>5
<1>7. QED
  BY <1>2, <1>3, <1>4, <1>6, SizesType

\* The sections of the block of q.
Fits(q) ==
  LET o == OffsetsOf(q)
      end == o.user + UserSize(q)
  IN  CASE q.layout = "normal" ->
             /\ RedzoneSize <= o.user
             /\ end = o.redzone2 /\ end + RedzoneSize <= o.meta
             /\ o.meta + NormalMeta.size = SizeOf(q)
        [] q.layout = "enhanced" ->
             /\ RedzoneSize <= o.meta /\ o.meta + EnhancedMeta.size = o.canary
             /\ o.canary + CanarySize <= o.user
             /\ end = o.canary2 /\ end + CanarySize <= o.meta2
             /\ o.meta2 + EnhancedMeta.size = o.redzone2
             /\ o.redzone2 + RedzoneSize = SizeOf(q)
        [] q.layout = "static" ->
             /\ RedzoneSize = o.canary /\ o.canary + CanarySize <= o.user
             /\ end = o.canary2 /\ end + CanarySize = o.redzone2
             /\ o.redzone2 + RedzoneSize = SizeOf(q)

\* The two checks of Region::allocate let no request pass whose block has wrapped
\* around anywhere in the computation of its size or of its sections, and a
\* block that passes is large enough for all of them (Region.h:100-104).
THEOREM AcceptedFits ==
  ASSUME NEW q \in Requests, Accepted(q)
  PROVE  /\ Fits(q)
         /\ SizeOf(q) \in Nat \ {0}
         /\ OffsetsOf(q).user \in Nat /\ OffsetsOf(q).user % q.align = 0
<1> DEFINE p == UserSize(q)
           a == q.align
           o == OffsetsOf(q)
<1>1. /\ q.layout \in Layouts /\ a \in Nat \ {0} /\ 2 * a <= SizeLimit
      /\ p \in Nat \ {0} /\ SizeOf(q) >= p
  BY RequestType DEF Accepted
<1>2. CASE q.layout = "normal"
  <2>1. SizeOf(q) = NormalBlockSize(p, a) /\ o = NormalOffsets(p, a)
    BY <1>2 DEF SizeOf, OffsetsOf, BlockSize, Offsets
  <2>2. /\ o.user \in Nat /\ o.user % a = 0
        /\ RedzoneSize <= o.user
        /\ o.user + p = o.redzone2 /\ o.user + p + RedzoneSize <= o.meta
        /\ o.meta + NormalMeta.size = SizeOf(q)
        /\ SizeOf(q) \in Nat
    BY <1>1, <2>1, NormalFits
  <2> HIDE DEF o, p, a
  <2>3. SizeOf(q) # 0
    BY <1>1, <2>2
  <2>4. Fits(q)
    BY <1>2, <2>2 DEF Fits, o, p
  <2>5. QED
    BY <2>2, <2>3, <2>4 DEF o, a
<1>3. CASE q.layout = "enhanced"
  <2>1. SizeOf(q) = EnhancedBlockSize(p, a) /\ o = EnhancedOffsets(p, a)
    BY <1>3 DEF SizeOf, OffsetsOf, BlockSize, Offsets
  <2>2. /\ o.user \in Nat /\ o.user % a = 0
        /\ RedzoneSize <= o.meta /\ o.meta + EnhancedMeta.size = o.canary
        /\ o.canary + CanarySize <= o.user
        /\ o.user + p = o.canary2 /\ o.user + p + CanarySize <= o.meta2
        /\ o.meta2 + EnhancedMeta.size = o.redzone2
        /\ o.redzone2 + RedzoneSize = SizeOf(q)
        /\ SizeOf(q) \in Nat
    BY <1>1, <2>1, EnhancedFits
  <2> HIDE DEF o, p, a
  <2>3. SizeOf(q) # 0
    BY <1>1, <2>2
  <2>4. Fits(q)
    BY <1>3, <2>2 DEF Fits, o, p
  <2>5. QED
    BY <2>2, <2>3, <2>4 DEF o, a
<1>4. CASE q.layout = "static"
  <2>1. SizeOf(q) = StaticBlockSize(p, a) /\ o = StaticOffsets(p, a)
    BY <1>4 DEF SizeOf, OffsetsOf, BlockSize, Offsets
  <2>2. /\ o.user \in Nat /\ o.user % a = 0
        /\ RedzoneSize = o.canary /\ o.canary + CanarySize <= o.user
        /\ o.user + p = o.canary2 /\ o.user + p + CanarySize = o.redzone2
        /\ o.redzone2 + RedzoneSize = SizeOf(q)
        /\ SizeOf(q) \in Nat
    BY <1>1, <2>1, StaticFits
  <2> HIDE DEF o, p, a
  <2>3. SizeOf(q) # 0
    BY <1>1, <2>2
  <2>4. Fits(q)
    BY <1>4, <2>2 DEF Fits, o, p
  <2>5. QED
    BY <2>2, <2>3, <2>4 DEF o, a
<1>5. QED
  BY <1>1, <1>2, <1>3, <1>4 DEF Layouts
-----------------------------------------------------------------------------
(* The invariant *)

\* What a thread knows on its way: its request was accepted, its block is
\* aligned, and the pages before its cursor are accessible.
ThreadsInv ==
  \A t \in Threads :
    /\ pc[t] # "idle" => Accepted(request[t])
    /\ Holding(t) => at[t] % request[t].align = 0
    /\ pc[t] \in {"commit", "protect"} =>
         \A p \in FirstPage(t) .. cursor[t] - 1 : page[p] # "reserved"
    /\ pc[t] = "protect" => FirstPage(t) <= cursor[t] /\ cursor[t] <= LastPage(t)
    /\ pc[t] = "commit" => FirstPage(t) <= cursor[t] /\ cursor[t] <= LastPage(t) + 1

BlocksInv ==
  \A b \in blocks :
    /\ Accepted(b.request)
    /\ b.size = SizeOf(b.request)
    /\ b.at % b.request.align = 0

IInv == TypeOK /\ ThreadsInv /\ BlocksInv /\ RangesDisjoint /\ PagesCommitted

LEMMA ZoneType ==
  /\ ZoneSize \in Nat \ {0} /\ PageSize \in Nat \ {0} /\ StrayBound \in Nat
  BY ZoneAssumption

\* Reserving does not wrap, and the block starts at or after the m_Bump read.
LEMMA ReservationExact ==
  ASSUME NEW q \in Requests, Accepted(q), NEW v \in 0 .. ZoneSize
  PROVE  LET start == AlignUp(v, q.align) IN
         /\ start \in Nat /\ v <= start /\ start % q.align = 0
         /\ Add(start, SizeOf(q)) = start + SizeOf(q)
         /\ SizeOf(q) \in Nat \ {0}
<1> DEFINE start == AlignUp(v, q.align)
           size == SizeOf(q)
           a == q.align
<1>1. /\ a \in Nat \ {0} /\ size \in Nat \ {0} /\ v \in Nat /\ v <= ZoneSize
      /\ size + ZoneSize + a < SizeLimit
  BY RequestType, AcceptedFits, ReservationAssumption, ZoneType
<1>2. /\ start \in Nat /\ start % a = 0
      /\ v + a - 1 < SizeLimit => v <= start /\ start <= v + a - 1
  BY <1>1, AlignUpBounds, AlignUpAligns
<1>3. start + size < SizeLimit => Add(start, size) = start + size
  BY <1>1, <1>2, AddBounds
<1> HIDE DEF start, size, a
<1>4. v <= start /\ start + size < SizeLimit
  BY <1>1, <1>2, SizesType, ZoneType
<1>5. QED
  BY <1>1, <1>2, <1>3, <1>4 DEF start, size, a

\* The pages of a range inside the zone.
LEMMA PagesOfRange ==
  ASSUME NEW x \in Nat, NEW n \in Nat \ {0}, x + n <= ZoneSize
  PROVE  LET first == x \div PageSize
             last  == (x + n - 1) \div PageSize
         IN  /\ first \in Nat /\ last \in Nat /\ first <= last
             /\ first .. last \subseteq Pages
             /\ \A y \in Between(x, x + n) : y \div PageSize \in first .. last
<1> DEFINE first == x \div PageSize
           last  == (x + n - 1) \div PageSize
           end   == (ZoneSize - 1) \div PageSize
<1>1. /\ x + n - 1 \in Nat /\ ZoneSize - 1 \in Nat /\ PageSize \in Nat \ {0}
      /\ x <= x + n - 1 /\ x + n - 1 <= ZoneSize - 1
  BY ZoneType
<1>2. first \in Nat /\ last \in Nat /\ first <= last
  BY <1>1, DivisionMonotone
<1>3. end \in Nat /\ last <= end
  BY <1>1, DivisionMonotone
<1>4. first .. last \subseteq Pages
  <2> HIDE DEF first, last, end
  <2>1. Pages = 0 .. end
    BY DEF Pages, end
  <2>2. QED
    BY <1>2, <1>3, <2>1
<1>5. ASSUME NEW y \in Between(x, x + n)
      PROVE  y \div PageSize \in first .. last
  <2>1. y \in Nat /\ x <= y /\ y <= x + n - 1
    BY <1>1 DEF Between
  <2>2. /\ y \div PageSize \in Nat
        /\ first <= y \div PageSize /\ y \div PageSize <= last
    BY <1>1, <2>1, DivisionMonotone
  <2> HIDE DEF first, last
  <2>3. QED
    BY <1>2, <2>2
<1>6. QED
  BY <1>2, <1>4, <1>5

\* The range and the pages of a thread that holds a block.
LEMMA HoldingRange ==
  ASSUME TypeOK, ThreadsInv, RangesDisjoint, NEW t \in Threads, Holding(t)
  PROVE  /\ at[t] \in Nat /\ SizeOf(request[t]) \in Nat \ {0}
         /\ at[t] + SizeOf(request[t]) <= bump /\ bump <= ZoneSize
         /\ FirstPage(t) \in Nat /\ LastPage(t) \in Nat /\ FirstPage(t) <= LastPage(t)
         /\ FirstPage(t) .. LastPage(t) \subseteq Pages
<1>1. request[t] \in Requests /\ at[t] \in Nat /\ Accepted(request[t])
  BY DEF TypeOK, ThreadsInv, Holding
<1>2. at[t] + SizeOf(request[t]) <= bump /\ bump <= ZoneSize
  BY DEF RangesDisjoint
<1>3. SizeOf(request[t]) \in Nat \ {0}
  BY <1>1, AcceptedFits
<1>4. bump \in Nat
  BY ZoneType DEF TypeOK
<1>5. at[t] + SizeOf(request[t]) <= ZoneSize
  BY <1>1, <1>2, <1>3, <1>4, ZoneType
<1>6. QED
  BY <1>1, <1>2, <1>3, <1>5, PagesOfRange DEF FirstPage, LastPage
-----------------------------------------------------------------------------
LEMMA NoRequestType == NoRequest \in Requests
  BY RequestsAssumption DEF NoRequest

LEMMA InitInv == Init => IInv
<1> SUFFICES ASSUME Init PROVE IInv
  OBVIOUS
<1>1. TypeOK
  BY ZoneType, NoRequestType DEF Init, TypeOK
<1>2. ThreadsInv
  BY DEF Init, ThreadsInv, Holding
<1>3. BlocksInv /\ RangesDisjoint /\ PagesCommitted
  BY DEF Init, BlocksInv, RangesDisjoint, PagesCommitted, Holding
<1>4. QED
  BY <1>1, <1>2, <1>3 DEF IInv

\* What a step of a thread to reserve its block does, without a remainder.
LEMMA ReserveExact ==
  ASSUME IInv, NEW t \in Threads, pc[t] = "reserve"
  PROVE  /\ Aligned(t) \in Nat /\ seen[t] <= Aligned(t)
         /\ Aligned(t) % request[t].align = 0
         /\ NextBump(t) = Aligned(t) + SizeOf(request[t])
         /\ SizeOf(request[t]) \in Nat \ {0}
<1>1. request[t] \in Requests /\ Accepted(request[t]) /\ seen[t] \in 0 .. ZoneSize
  BY DEF IInv, TypeOK, ThreadsInv
<1>2. QED
  BY <1>1, ReservationExact DEF Aligned, NextBump

LEMMA TypeStep ==
  ASSUME IInv, [Next]_vars
  PROVE  TypeOK'
<1> USE DEF TypeOK
<1>t. TypeOK /\ ThreadsInv /\ RangesDisjoint
  BY DEF IInv
<1>n. NoRequest \in Requests /\ 0 \in 0 .. ZoneSize
  BY NoRequestType, ZoneType
<1>1. ASSUME NEW t \in Threads, NEW q \in Requests, Allocate(t, q) PROVE TypeOK'
  BY <1>1, <1>t DEF Allocate, Goto
<1>2. ASSUME NEW t \in Threads, ReserveFails(t) PROVE TypeOK'
  BY <1>2, <1>t, <1>n DEF ReserveFails, Return, Goto
<1>3. ASSUME NEW t \in Threads, Reserve(t) PROVE TypeOK'
  <2>1. /\ Aligned(t) \in Nat /\ NextBump(t) \in 0 .. ZoneSize
        /\ Aligned(t) \div PageSize \in Nat
    <3>1. /\ Aligned(t) \in Nat /\ SizeOf(request[t]) \in Nat
          /\ NextBump(t) = Aligned(t) + SizeOf(request[t])
      BY <1>3, ReserveExact DEF Reserve
    <3>2. NextBump(t) <= ZoneSize
      BY <1>3 DEF Reserve
    <3>3. Aligned(t) \div PageSize \in Nat
      BY <3>1, ZoneType, RemainderRange
    <3>4. QED
      BY <3>1, <3>2, <3>3, ZoneType
  <2>2. QED
    BY <1>3, <1>t, <2>1 DEF Reserve, Goto
<1>4. ASSUME NEW t \in Threads, ReserveAgain(t) PROVE TypeOK'
  BY <1>4, <1>t DEF ReserveAgain
<1>5. ASSUME NEW t \in Threads, CommitQuery(t) PROVE TypeOK'
  BY <1>5, <1>t DEF CommitQuery, NextPage, Goto
<1>6. ASSUME NEW t \in Threads, CommitEnds(t) PROVE TypeOK'
  BY <1>6, <1>t DEF CommitEnds, Goto
<1>7. ASSUME NEW t \in Threads, Commit(t) PROVE TypeOK'
  <2>1. page' \in [Pages -> {"reserved", "committed", "resident"}]
    BY <1>7, <1>t DEF Commit
  <2>2. cursor' \in [Threads -> Nat]
    BY <1>7, <1>t DEF Commit, NextPage
  <2>3. pc' = [pc EXCEPT ![t] = "commit"]
    BY <1>7 DEF Commit, Goto
  <2>4. QED
    BY <1>7, <1>t, <2>1, <2>2, <2>3 DEF Commit
<1>8. ASSUME NEW t \in Threads, Place(t) PROVE TypeOK'
  <2>1. at[t] \in Nat /\ SizeOf(request[t]) \in Nat /\ request[t] \in Requests
    BY <1>8, <1>t, HoldingRange DEF Place, Holding
  <2>2. blocks' \subseteq [request : Requests, at : Nat, size : Nat]
    BY <1>8, <1>t, <2>1 DEF Place
  <2>3. DOMAIN memory' = Offset
    BY <1>8 DEF Place, Stamped
  <2>4. page' \in [Pages -> {"reserved", "committed", "resident"}]
    BY <1>8, <1>t DEF Place
  <2>5. QED
    BY <1>8, <1>t, <2>2, <2>3, <2>4 DEF Place, Goto
<1>9. ASSUME NEW t \in Threads, Fill(t) PROVE TypeOK'
  BY <1>9, <1>t, <1>n DEF Fill, Return, Goto
<1>10. ASSUME NEW b \in blocks, Stray(b) PROVE TypeOK'
  <2>1. Range(b) \subseteq Offset
    <3>1. b.at \in Nat /\ b.size \in Nat /\ b.at + b.size <= bump /\ bump <= ZoneSize
      BY <1>t DEF RangesDisjoint
    <3>2. bump \in Nat
      BY <1>t, ZoneType
    <3>3. QED
      BY <3>1, <3>2, ZoneType DEF Range, Between, Offset
  <2>2. stray' \subseteq Offset /\ DOMAIN memory' = Offset
    BY <1>10, <1>t, <2>1 DEF Stray
  <2>3. QED
    BY <1>10, <1>t, <2>2 DEF Stray, localVars
<1>11. CASE UNCHANGED vars
  BY <1>11, <1>t DEF vars, localVars
<1>12. QED
  BY <1>1, <1>2, <1>3, <1>4, <1>5, <1>6, <1>7, <1>8, <1>9, <1>10, <1>11
     DEF Next, ThreadStep
LEMMA RangesStep ==
  ASSUME IInv, [Next]_vars
  PROVE  RangesDisjoint'
<1>t. TypeOK /\ ThreadsInv /\ BlocksInv /\ RangesDisjoint
  BY DEF IInv
<1>p. pc \in [Threads -> {"idle", "reserve", "commit", "protect", "place", "fill"}]
  BY <1>t DEF TypeOK
\* Most steps reserve and place nothing.
<1>s. ASSUME bump' = bump, blocks' = blocks,
             \A u \in Threads :
               Holding(u)' => Holding(u) /\ at'[u] = at[u] /\ request'[u] = request[u]
      PROVE  RangesDisjoint'
  BY <1>s, <1>t DEF RangesDisjoint
<1>1. ASSUME NEW t \in Threads, NEW q \in Requests, Allocate(t, q) PROVE RangesDisjoint'
  <2>1. \A u \in Threads :
          Holding(u)' => Holding(u) /\ at'[u] = at[u] /\ request'[u] = request[u]
    BY <1>1, <1>t, <1>p DEF Allocate, Goto, Holding, TypeOK
  <2>2. QED
    BY <1>1, <1>s, <2>1 DEF Allocate
<1>2. ASSUME NEW t \in Threads, ReserveFails(t) \/ Fill(t) PROVE RangesDisjoint'
  <2>1. \A u \in Threads :
          Holding(u)' => Holding(u) /\ at'[u] = at[u] /\ request'[u] = request[u]
    BY <1>2, <1>t, <1>p DEF ReserveFails, Fill, Return, Goto, Holding, TypeOK
  <2>2. QED
    BY <1>2, <1>s, <2>1 DEF ReserveFails, Fill
<1>3. ASSUME NEW t \in Threads, Reserve(t) PROVE RangesDisjoint'
  <2> DEFINE a == Aligned(t)
             n == SizeOf(request[t])
  <2>1. /\ a \in Nat /\ bump <= a /\ bump' = a + n /\ n \in Nat \ {0}
        /\ a + n <= ZoneSize
    <3>1. /\ Aligned(t) \in Nat /\ seen[t] <= Aligned(t) /\ seen[t] = bump
          /\ NextBump(t) = Aligned(t) + SizeOf(request[t])
          /\ SizeOf(request[t]) \in Nat \ {0}
      BY <1>3, ReserveExact DEF Reserve
    <3>2. QED
      BY <1>3, <3>1 DEF Reserve
  <2>2. /\ blocks' = blocks /\ request' = request
        /\ at' = [at EXCEPT ![t] = a] /\ pc' = [pc EXCEPT ![t] = "commit"]
    BY <1>3 DEF Reserve, Goto
  <2>3. /\ at'[t] = a
        /\ \A u \in Threads \ {t} : at'[u] = at[u] /\ (Holding(u)' <=> Holding(u))
    BY <1>t, <1>p, <2>2 DEF TypeOK, Holding
  <2>4. bump \in Nat /\ at \in [Threads -> Nat]
    BY <1>t, ZoneType DEF TypeOK
  <2>5. \A u \in Threads : Holding(u) =>
          /\ SizeOf(request[u]) \in Nat /\ at[u] \in Nat
          /\ at[u] + SizeOf(request[u]) <= bump
    BY <1>t, HoldingRange
  <2>6. \A b \in blocks : b.at \in Nat /\ b.size \in Nat /\ b.at + b.size <= bump
    BY <1>t DEF RangesDisjoint, TypeOK
  <2> HIDE DEF a, n
  <2>7. ASSUME NEW u \in Threads, Holding(u)'
        PROVE  /\ at'[u] + SizeOf(request'[u]) <= bump' /\ bump' <= ZoneSize
               /\ \A w \in Threads \ {u} :
                    Holding(w)' => Apart(at'[u], SizeOf(request'[u]), at'[w], SizeOf(request'[w]))
               /\ \A b \in blocks' : Apart(at'[u], SizeOf(request'[u]), b.at, b.size)
    <3>1. CASE u = t
      <4>1. at'[u] = a /\ SizeOf(request'[u]) = n
        BY <2>2, <2>3, <3>1 DEF n
      <4>2. \A w \in Threads \ {u} :
              Holding(w)' => at'[w] + SizeOf(request'[w]) <= a
        BY <2>1, <2>2, <2>3, <2>4, <2>5, <3>1
      <4>3. \A b \in blocks' : b.at + b.size <= a
        BY <2>1, <2>2, <2>4, <2>6
      <4>4. QED
        BY <2>1, <4>1, <4>2, <4>3 DEF Apart
    <3>2. CASE u # t
      <4>1. Holding(u) /\ at'[u] = at[u] /\ request'[u] = request[u]
        BY <2>2, <2>3, <2>7, <3>2
      <4>2. at[u] + SizeOf(request[u]) <= a
        BY <2>1, <2>4, <2>5, <4>1
      <4>3. ASSUME NEW w \in Threads \ {u}, Holding(w)'
            PROVE  Apart(at'[u], SizeOf(request'[u]), at'[w], SizeOf(request'[w]))
        <5>1. CASE w = t
          BY <2>3, <4>1, <4>2, <5>1 DEF Apart
        <5>2. CASE w # t
          <6>1. Holding(w) /\ at'[w] = at[w] /\ request'[w] = request[w]
            BY <2>2, <2>3, <4>3, <5>2
          <6>2. QED
            BY <1>t, <4>1, <6>1 DEF RangesDisjoint
        <5>3. QED
          BY <5>1, <5>2
      <4>4. at[u] + SizeOf(request[u]) <= bump'
        BY <2>1, <2>4, <2>5, <4>1
      <4>5. bump' <= ZoneSize
        BY <2>1
      <4>6. QED
        BY <1>t, <2>2, <4>1, <4>3, <4>4, <4>5 DEF RangesDisjoint
    <3>3. QED
      BY <3>1, <3>2
  <2>8. ASSUME NEW b \in blocks'
        PROVE  /\ b.at + b.size <= bump' /\ bump' <= ZoneSize
               /\ \A c \in blocks' \ {b} : Apart(b.at, b.size, c.at, c.size)
    <3>1. b.at + b.size <= bump' /\ bump' <= ZoneSize
      BY <2>1, <2>2, <2>4, <2>6
    <3>2. QED
      BY <1>t, <2>2, <3>1 DEF RangesDisjoint
  <2>9. QED
    BY <2>7, <2>8 DEF RangesDisjoint
<1>4. ASSUME NEW t \in Threads, ReserveAgain(t) \/ CommitQuery(t) \/ CommitEnds(t) \/ Commit(t)
      PROVE  RangesDisjoint'
  <2>1. \A u \in Threads :
          Holding(u)' => Holding(u) /\ at'[u] = at[u] /\ request'[u] = request[u]
    BY <1>4, <1>p DEF ReserveAgain, CommitQuery, CommitEnds, Commit, Goto, Holding
  <2>2. QED
    BY <1>4, <1>s, <2>1 DEF ReserveAgain, CommitQuery, CommitEnds, Commit
<1>5. ASSUME NEW t \in Threads, Place(t) PROVE RangesDisjoint'
  <2> DEFINE n == [request |-> request[t], at |-> at[t], size |-> SizeOf(request[t])]
  <2>1. /\ Holding(t) /\ bump' = bump /\ blocks' = blocks \union {n}
        /\ at' = at /\ request' = request /\ pc' = [pc EXCEPT ![t] = "fill"]
    BY <1>5 DEF Place, Goto, Holding
  <2>2. \A u \in Threads : Holding(u)' => Holding(u) /\ u # t
    BY <1>p, <2>1 DEF Holding
  <2>3. n.at = at[t] /\ n.size = SizeOf(request[t])
    OBVIOUS
  <2> HIDE DEF n
  <2>4. n.at + n.size <= bump /\ bump <= ZoneSize
    BY <1>t, <2>1, <2>3 DEF RangesDisjoint
  <2>5. ASSUME NEW u \in Threads, Holding(u)'
        PROVE  /\ at[u] + SizeOf(request[u]) <= bump
               /\ \A w \in Threads \ {u} :
                    Holding(w)' => Apart(at[u], SizeOf(request[u]), at[w], SizeOf(request[w]))
               /\ \A b \in blocks' : Apart(at[u], SizeOf(request[u]), b.at, b.size)
    <3>1. Holding(u) /\ u # t
      BY <2>2, <2>5
    <3>2. Apart(at[u], SizeOf(request[u]), n.at, n.size)
      BY <1>t, <2>1, <2>3, <3>1 DEF RangesDisjoint
    <3>3. QED
      BY <1>t, <2>1, <2>2, <3>1, <3>2 DEF RangesDisjoint
  <2>6. \A c \in blocks : Apart(n.at, n.size, c.at, c.size) /\ Apart(c.at, c.size, n.at, n.size)
    BY <1>t, <2>1, <2>3 DEF RangesDisjoint, Apart
  <2>7. ASSUME NEW b \in blocks'
        PROVE  /\ b.at + b.size <= bump
               /\ \A c \in blocks' \ {b} : Apart(b.at, b.size, c.at, c.size)
    BY <1>t, <2>1, <2>4, <2>6 DEF RangesDisjoint
  <2>8. QED
    BY <2>1, <2>4, <2>5, <2>7 DEF RangesDisjoint
<1>6. ASSUME NEW b \in blocks, Stray(b) PROVE RangesDisjoint'
  BY <1>6, <1>s DEF Stray, localVars, Holding
<1>7. CASE UNCHANGED vars
  BY <1>7, <1>s DEF vars, localVars, Holding
<1>8. QED
  BY <1>1, <1>2, <1>3, <1>4, <1>5, <1>6, <1>7 DEF Next, ThreadStep
\* A page that is accessible stays so.
LEMMA PagesStay ==
  ASSUME IInv, [Next]_vars
  PROVE  \A p \in Pages : page[p] # "reserved" => page'[p] # "reserved"
<1>t. page \in [Pages -> {"reserved", "committed", "resident"}]
  BY DEF IInv, TypeOK
<1>1. ASSUME NEW t \in Threads, Commit(t) \/ Place(t)
      PROVE  \A p \in Pages : page[p] # "reserved" => page'[p] # "reserved"
  BY <1>1, <1>t DEF Commit, Place
<1>2. ASSUME NEW t \in Threads,
             \/ \E q \in Requests : Allocate(t, q)
             \/ ReserveFails(t) \/ Reserve(t) \/ ReserveAgain(t)
             \/ CommitQuery(t) \/ CommitEnds(t) \/ Fill(t)
      PROVE  page' = page
  BY <1>2 DEF Allocate, ReserveFails, Reserve, ReserveAgain, CommitQuery, CommitEnds, Fill
<1>3. ASSUME NEW b \in blocks, Stray(b) PROVE page' = page
  BY <1>3 DEF Stray
<1>4. CASE UNCHANGED vars
  BY <1>4 DEF vars
<1>5. QED
  BY <1>1, <1>2, <1>3, <1>4 DEF Next, ThreadStep

ThreadInv(t) ==
  /\ pc[t] # "idle" => Accepted(request[t])
  /\ Holding(t) => at[t] % request[t].align = 0
  /\ pc[t] \in {"commit", "protect"} =>
       \A p \in FirstPage(t) .. cursor[t] - 1 : page[p] # "reserved"
  /\ pc[t] = "protect" => FirstPage(t) <= cursor[t] /\ cursor[t] <= LastPage(t)
  /\ pc[t] = "commit" => FirstPage(t) <= cursor[t] /\ cursor[t] <= LastPage(t) + 1

LEMMA ThreadsInvEach == ThreadsInv <=> \A t \in Threads : ThreadInv(t)
  BY DEF ThreadsInv, ThreadInv

LEMMA ThreadsInvAfter == ThreadsInv' <=> \A t \in Threads : ThreadInv(t)'
  BY DEF ThreadsInv, ThreadInv

\* The pages below the cursor are pages of the zone.
LEMMA CommittedInZone ==
  ASSUME IInv, NEW t \in Threads, pc[t] \in {"commit", "protect"}
  PROVE  FirstPage(t) .. cursor[t] - 1 \subseteq Pages
<1>1. /\ FirstPage(t) \in Nat /\ LastPage(t) \in Nat
      /\ FirstPage(t) .. LastPage(t) \subseteq Pages
  BY HoldingRange DEF IInv, Holding
<1>2. cursor[t] \in Nat /\ cursor[t] <= LastPage(t) + 1
  BY <1>1 DEF IInv, TypeOK, ThreadsInv
<1>3. QED
  BY <1>1, <1>2

\* A step of another thread, or of the program, leaves what a thread knows true.
LEMMA OthersKeep ==
  ASSUME IInv, [Next]_vars, NEW u \in Threads,
         pc'[u] = pc[u], request'[u] = request[u], at'[u] = at[u], cursor'[u] = cursor[u]
  PROVE  ThreadInv(u)'
<1>1. ThreadInv(u)
  BY ThreadsInvEach DEF IInv
<1>2. FirstPage(u)' = FirstPage(u) /\ LastPage(u)' = LastPage(u) /\ Holding(u)' = Holding(u)
  BY DEF FirstPage, LastPage, Holding
<1>3. ASSUME pc[u] \in {"commit", "protect"}
      PROVE  \A p \in FirstPage(u) .. cursor[u] - 1 : page'[p] # "reserved"
  <2>1. FirstPage(u) .. cursor[u] - 1 \subseteq Pages
    BY <1>3, CommittedInZone
  <2>2. \A p \in FirstPage(u) .. cursor[u] - 1 : page[p] # "reserved"
    BY <1>1, <1>3 DEF ThreadInv
  <2>3. QED
    BY <2>1, <2>2, PagesStay
<1>4. QED
  BY <1>1, <1>2, <1>3 DEF ThreadInv

LEMMA ThreadsStep ==
  ASSUME IInv, [Next]_vars
  PROVE  ThreadsInv'
<1>p. /\ pc \in [Threads -> {"idle", "reserve", "commit", "protect", "place", "fill"}]
      /\ request \in [Threads -> Requests] /\ at \in [Threads -> Nat]
      /\ cursor \in [Threads -> Nat]
      /\ page \in [Pages -> {"reserved", "committed", "resident"}]
  BY DEF IInv, TypeOK
<1>t. \A t \in Threads : ThreadInv(t)
  BY ThreadsInvEach DEF IInv
<1>1. ASSUME NEW t \in Threads, NEW q \in Requests, Allocate(t, q) PROVE ThreadsInv'
  <2>1. ThreadInv(t)'
    BY <1>1, <1>p DEF Allocate, Goto, ThreadInv, Holding
  <2>2. ASSUME NEW u \in Threads \ {t} PROVE ThreadInv(u)'
    BY <1>1, <1>p, OthersKeep DEF Allocate, Goto
  <2>3. QED
    BY <2>1, <2>2, ThreadsInvAfter
<1>2. ASSUME NEW t \in Threads, ReserveFails(t) \/ Fill(t) PROVE ThreadsInv'
  <2>1. ThreadInv(t)'
    BY <1>2, <1>p DEF ReserveFails, Fill, Return, Goto, ThreadInv, Holding
  <2>2. ASSUME NEW u \in Threads \ {t} PROVE ThreadInv(u)'
    BY <1>2, <1>p, OthersKeep DEF ReserveFails, Fill, Return, Goto
  <2>3. QED
    BY <2>1, <2>2, ThreadsInvAfter
<1>3. ASSUME NEW t \in Threads, Reserve(t) PROVE ThreadsInv'
  <2>1. /\ pc'[t] = "commit" /\ request'[t] = request[t] /\ at'[t] = Aligned(t)
        /\ cursor'[t] = Aligned(t) \div PageSize
    BY <1>3, <1>p DEF Reserve, Goto
  <2>2. Accepted(request[t])
    BY <1>3, <1>t DEF Reserve, ThreadInv
  <2>3. Aligned(t) \in Nat /\ Aligned(t) % request[t].align = 0 /\ SizeOf(request[t]) \in Nat \ {0}
    BY <1>3, ReserveExact DEF Reserve
  <2>4. FirstPage(t)' = Aligned(t) \div PageSize
    BY <2>1 DEF FirstPage
  <2>5. LastPage(t)' = (Aligned(t) + SizeOf(request[t]) - 1) \div PageSize
    BY <2>1 DEF LastPage
  <2>6. FirstPage(t)' \in Nat /\ LastPage(t)' \in Nat /\ FirstPage(t)' <= LastPage(t)'
    <3>1. /\ Aligned(t) + SizeOf(request[t]) - 1 \in Nat
          /\ Aligned(t) <= Aligned(t) + SizeOf(request[t]) - 1
      BY <2>3
    <3>2. QED
      BY <2>3, <2>4, <2>5, <3>1, ZoneType, DivisionMonotone
  <2>7. FirstPage(t)' .. cursor'[t] - 1 = {}
    BY <2>1, <2>4, <2>6
  <2>8. ThreadInv(t)'
    BY <2>1, <2>2, <2>3, <2>4, <2>6, <2>7 DEF ThreadInv
  <2>9. ASSUME NEW u \in Threads \ {t} PROVE ThreadInv(u)'
    BY <1>3, <1>p, OthersKeep DEF Reserve, Goto
  <2>10. QED
    BY <2>8, <2>9, ThreadsInvAfter
<1>4. ASSUME NEW t \in Threads, ReserveAgain(t) PROVE ThreadsInv'
  <2>1. ASSUME NEW u \in Threads PROVE ThreadInv(u)'
    BY <1>4, <1>p, OthersKeep DEF ReserveAgain
  <2>2. QED
    BY <2>1, ThreadsInvAfter
<1>5. ASSUME NEW t \in Threads, CommitQuery(t) PROVE ThreadsInv'
  <2>1. /\ pc[t] = "commit" /\ cursor[t] <= LastPage(t) /\ page' = page
        /\ request' = request /\ at' = at
        /\ \/ /\ page[cursor[t]] = "resident" /\ cursor'[t] = cursor[t] + 1
              /\ pc'[t] = "commit"
           \/ cursor'[t] = cursor[t] /\ pc'[t] = "protect"
    BY <1>5, <1>p DEF CommitQuery, NextPage, Goto
  <2>2. FirstPage(t)' = FirstPage(t) /\ LastPage(t)' = LastPage(t)
    BY <2>1 DEF FirstPage, LastPage
  <2>3. /\ Accepted(request[t]) /\ at[t] % request[t].align = 0
        /\ \A p \in FirstPage(t) .. cursor[t] - 1 : page[p] # "reserved"
        /\ FirstPage(t) <= cursor[t] /\ cursor[t] \in Nat
    BY <1>p, <1>t, <2>1 DEF ThreadInv, Holding
  <2>4. FirstPage(t) \in Nat /\ LastPage(t) \in Nat
    BY <2>1, HoldingRange DEF IInv, Holding
  <2>5. \A p \in FirstPage(t) .. cursor'[t] - 1 : page[p] # "reserved"
    BY <2>1, <2>3, <2>4
  <2>6. ThreadInv(t)'
    BY <2>1, <2>2, <2>3, <2>4, <2>5 DEF ThreadInv
  <2>7. ASSUME NEW u \in Threads \ {t} PROVE ThreadInv(u)'
    BY <1>5, <1>p, OthersKeep DEF CommitQuery, NextPage, Goto
  <2>8. QED
    BY <2>6, <2>7, ThreadsInvAfter
<1>6. ASSUME NEW t \in Threads, CommitEnds(t) PROVE ThreadsInv'
  <2>1. ThreadInv(t)'
    <3>1. pc[t] = "commit" /\ pc'[t] = "place" /\ request' = request /\ at' = at
      BY <1>6, <1>p DEF CommitEnds, Goto
    <3>2. Accepted(request[t]) /\ at[t] % request[t].align = 0
      BY <1>t, <3>1 DEF ThreadInv, Holding
    <3>3. QED
      BY <3>1, <3>2 DEF ThreadInv
  <2>2. ASSUME NEW u \in Threads \ {t} PROVE ThreadInv(u)'
    BY <1>6, <1>p, OthersKeep DEF CommitEnds, Goto
  <2>3. QED
    BY <2>1, <2>2, ThreadsInvAfter
<1>7. ASSUME NEW t \in Threads, Commit(t) PROVE ThreadsInv'
  <2>1. /\ pc[t] = "protect" /\ pc'[t] = "commit" /\ cursor'[t] = cursor[t] + 1
        /\ request' = request /\ at' = at
        /\ page' = [page EXCEPT ![cursor[t]] = IF @ = "reserved" THEN "committed" ELSE @]
    BY <1>7, <1>p DEF Commit, NextPage, Goto
  <2>2. FirstPage(t)' = FirstPage(t) /\ LastPage(t)' = LastPage(t)
    BY <2>1 DEF FirstPage, LastPage
  <2>3. /\ Accepted(request[t]) /\ at[t] % request[t].align = 0
        /\ \A p \in FirstPage(t) .. cursor[t] - 1 : page[p] # "reserved"
        /\ FirstPage(t) <= cursor[t] /\ cursor[t] <= LastPage(t) /\ cursor[t] \in Nat
    BY <1>p, <1>t, <2>1 DEF ThreadInv, Holding
  <2>4. /\ FirstPage(t) \in Nat /\ LastPage(t) \in Nat
        /\ FirstPage(t) .. LastPage(t) \subseteq Pages
    BY <2>1, HoldingRange DEF IInv, Holding
  <2>5. page'[cursor[t]] # "reserved"
    BY <1>p, <2>1, <2>3, <2>4
  <2>6. \A p \in FirstPage(t) .. cursor[t] - 1 : page'[p] # "reserved"
    BY <2>1, <2>3, CommittedInZone, PagesStay
  <2>7. \A p \in FirstPage(t) .. cursor'[t] - 1 : page'[p] # "reserved"
    BY <2>1, <2>3, <2>4, <2>5, <2>6
  <2>8. ThreadInv(t)'
    BY <2>1, <2>2, <2>3, <2>4, <2>7 DEF ThreadInv
  <2>9. ASSUME NEW u \in Threads \ {t} PROVE ThreadInv(u)'
    BY <1>7, <1>p, OthersKeep DEF Commit, NextPage, Goto
  <2>10. QED
    BY <2>8, <2>9, ThreadsInvAfter
<1>8. ASSUME NEW t \in Threads, Place(t) PROVE ThreadsInv'
  <2>1. ThreadInv(t)'
    <3>1. pc[t] = "place" /\ pc'[t] = "fill" /\ request' = request
      BY <1>8, <1>p DEF Place, Goto
    <3>2. QED
      BY <1>t, <3>1 DEF ThreadInv, Holding
  <2>2. ASSUME NEW u \in Threads \ {t} PROVE ThreadInv(u)'
    BY <1>8, <1>p, OthersKeep DEF Place, Goto
  <2>3. QED
    BY <2>1, <2>2, ThreadsInvAfter
<1>9. ASSUME (\E b \in blocks : Stray(b)) \/ UNCHANGED vars PROVE ThreadsInv'
  <2>1. ASSUME NEW u \in Threads PROVE ThreadInv(u)'
    BY <1>9, OthersKeep DEF Stray, localVars, vars
  <2>2. QED
    BY <2>1, ThreadsInvAfter
<1>10. QED
  BY <1>1, <1>2, <1>3, <1>4, <1>5, <1>6, <1>7, <1>8, <1>9 DEF Next, ThreadStep
LEMMA BlocksStep ==
  ASSUME IInv, [Next]_vars
  PROVE  BlocksInv'
<1>t. TypeOK /\ ThreadsInv /\ BlocksInv
  BY DEF IInv
<1>1. ASSUME NEW t \in Threads, Place(t) PROVE BlocksInv'
  <2> DEFINE n == [request |-> request[t], at |-> at[t], size |-> SizeOf(request[t])]
  <2>1. blocks' = blocks \union {n} /\ pc[t] = "place"
    BY <1>1 DEF Place
  <2>2. Accepted(request[t]) /\ at[t] % request[t].align = 0
    BY <1>t, <2>1 DEF ThreadsInv, Holding
  <2>3. Accepted(n.request) /\ n.size = SizeOf(n.request) /\ n.at % n.request.align = 0
    BY <2>2
  <2> HIDE DEF n
  <2>4. QED
    BY <1>t, <2>1, <2>3 DEF BlocksInv
<1>2. ASSUME NEW t \in Threads,
             \/ \E q \in Requests : Allocate(t, q)
             \/ ReserveFails(t) \/ Reserve(t) \/ ReserveAgain(t)
             \/ CommitQuery(t) \/ CommitEnds(t) \/ Commit(t) \/ Fill(t)
      PROVE  blocks' = blocks
  BY <1>2 DEF Allocate, ReserveFails, Reserve, ReserveAgain, CommitQuery, CommitEnds,
              Commit, Fill
<1>3. ASSUME NEW b \in blocks, Stray(b) PROVE blocks' = blocks
  BY <1>3 DEF Stray
<1>4. ASSUME UNCHANGED vars PROVE blocks' = blocks
  BY <1>4 DEF vars
<1>5. ASSUME blocks' = blocks PROVE BlocksInv'
  <2>1. ASSUME NEW b \in blocks'
        PROVE  Accepted(b.request) /\ b.size = SizeOf(b.request) /\ b.at % b.request.align = 0
    BY <1>5, <1>t DEF BlocksInv
  <2>2. QED
    BY <2>1 DEF BlocksInv
<1>6. CASE \E t \in Threads : ThreadStep(t)
  <2>1. PICK t \in Threads : ThreadStep(t)
    BY <1>6
  <2>2. Place(t) \/ blocks' = blocks
    BY <1>2, <2>1 DEF ThreadStep
  <2>3. QED
    BY <1>1, <1>5, <2>2
<1>7. QED
  BY <1>3, <1>4, <1>5, <1>6 DEF Next

\* The range of a block that is placed lies in the pages of the zone.
LEMMA BlockInZone ==
  ASSUME IInv, NEW b \in blocks
  PROVE  \A x \in Range(b) : x \div PageSize \in Pages
<1>1. /\ b.at \in Nat /\ b.size \in Nat /\ b.request \in Requests
      /\ Accepted(b.request) /\ b.size = SizeOf(b.request)
      /\ b.at + b.size <= bump /\ bump \in 0 .. ZoneSize
  BY DEF IInv, TypeOK, BlocksInv, RangesDisjoint
<1>2. b.size \in Nat \ {0} /\ b.at + b.size <= ZoneSize
  BY <1>1, AcceptedFits, ZoneType
<1>3. QED
  BY <1>1, <1>2, PagesOfRange DEF Range

LEMMA PagesStep ==
  ASSUME IInv, [Next]_vars
  PROVE  PagesCommitted'
<1>t. TypeOK /\ ThreadsInv /\ RangesDisjoint /\ PagesCommitted
  BY DEF IInv
<1>p. /\ pc \in [Threads -> {"idle", "reserve", "commit", "protect", "place", "fill"}]
      /\ request \in [Threads -> Requests] /\ at \in [Threads -> Nat]
      /\ cursor \in [Threads -> Nat]
  BY <1>t DEF TypeOK
<1> DEFINE Ready(t) == pc[t] = "place" => \A p \in FirstPage(t) .. LastPage(t) : page[p] # "reserved"
           Usable(b) == \A x \in Range(b) : page[x \div PageSize] # "reserved"
\* Whoever was there before is still right.
<1>1. ASSUME NEW u \in Threads, pc'[u] = "place" => pc[u] = "place",
             request'[u] = request[u], at'[u] = at[u]
      PROVE  Ready(u)'
  <2>1. FirstPage(u)' = FirstPage(u) /\ LastPage(u)' = LastPage(u)
    BY <1>1 DEF FirstPage, LastPage
  <2>2. ASSUME pc[u] = "place"
        PROVE  /\ FirstPage(u) .. LastPage(u) \subseteq Pages
               /\ \A p \in FirstPage(u) .. LastPage(u) : page[p] # "reserved"
    BY <1>t, <2>2, HoldingRange DEF PagesCommitted, Holding
  <2>3. QED
    BY <1>1, <2>1, <2>2, PagesStay
<1>2. ASSUME NEW b \in blocks PROVE Usable(b)'
  <2>1. \A x \in Range(b) : x \div PageSize \in Pages /\ page[x \div PageSize] # "reserved"
    BY <1>t, BlockInZone DEF PagesCommitted
  <2>2. QED
    BY <2>1, PagesStay DEF Range
<1>3. ASSUME blocks' = blocks, \A u \in Threads : Ready(u)' PROVE PagesCommitted'
  <2>1. \A b \in blocks' : Usable(b)'
    BY <1>2, <1>3
  <2>2. QED
    BY <1>3, <2>1 DEF PagesCommitted
<1>4. ASSUME NEW t \in Threads, CommitEnds(t) PROVE PagesCommitted'
  <2>1. /\ pc[t] = "commit" /\ cursor[t] > LastPage(t) /\ page' = page /\ blocks' = blocks
        /\ request' = request /\ at' = at
    BY <1>4 DEF CommitEnds
  <2>2. \A p \in FirstPage(t) .. cursor[t] - 1 : page[p] # "reserved"
    BY <1>t, <2>1 DEF ThreadsInv
  <2>3. FirstPage(t) \in Nat /\ LastPage(t) \in Nat /\ cursor[t] \in Nat
    BY <1>t, <1>p, <2>1, HoldingRange DEF Holding
  <2>4. \A p \in FirstPage(t) .. LastPage(t) : page[p] # "reserved"
    BY <2>1, <2>2, <2>3
  <2>5. Ready(t)'
    BY <2>1, <2>4 DEF FirstPage, LastPage
  <2>6. ASSUME NEW u \in Threads \ {t} PROVE Ready(u)'
    <3>1. pc'[u] = pc[u]
      BY <1>4, <1>p DEF CommitEnds, Goto
    <3> HIDE DEF Ready
    <3>2. QED
      BY <1>1, <2>1, <3>1
  <2> HIDE DEF Ready
  <2>7. QED
    BY <1>3, <2>1, <2>5, <2>6
<1>5. ASSUME NEW t \in Threads, Place(t) PROVE PagesCommitted'
  <2> DEFINE n == [request |-> request[t], at |-> at[t], size |-> SizeOf(request[t])]
  <2>1. /\ blocks' = blocks \union {n} /\ pc[t] = "place" /\ request' = request /\ at' = at
        /\ page' = [p \in Pages |-> IF p \in FirstPage(t) .. LastPage(t) THEN "resident" ELSE page[p]]
        /\ pc' = [pc EXCEPT ![t] = "fill"]
    BY <1>5 DEF Place, Goto
  <2>2. /\ at[t] \in Nat /\ SizeOf(request[t]) \in Nat \ {0}
        /\ at[t] + SizeOf(request[t]) <= bump /\ bump \in 0 .. ZoneSize
        /\ FirstPage(t) .. LastPage(t) \subseteq Pages
    BY <1>t, <2>1, HoldingRange DEF Holding, TypeOK
  <2>3. at[t] + SizeOf(request[t]) <= ZoneSize
    BY <2>2, ZoneType
  <2>4. \A x \in Between(at[t], at[t] + SizeOf(request[t])) :
          x \div PageSize \in FirstPage(t) .. LastPage(t)
    BY <2>2, <2>3, PagesOfRange DEF FirstPage, LastPage
  <2>5. Range(n) = Between(at[t], at[t] + SizeOf(request[t]))
    BY DEF Range
  <2> HIDE DEF n
  <2>6. \A x \in Range(n) : page'[x \div PageSize] # "reserved"
    BY <2>1, <2>2, <2>4, <2>5
  <2>7. ASSUME NEW u \in Threads PROVE Ready(u)'
    <3>1. pc'[u] = "place" => pc[u] = "place"
      BY <1>p, <2>1
    <3> HIDE DEF Ready
    <3>2. QED
      BY <1>1, <2>1, <3>1
  <2>8. \A b \in blocks' : \A x \in Range(b) : page'[x \div PageSize] # "reserved"
    BY <1>2, <2>1, <2>6 DEF Range
  <2>9. QED
    BY <2>7, <2>8 DEF PagesCommitted, Range
<1>6. ASSUME NEW t \in Threads,
             \/ \E q \in Requests : Allocate(t, q)
             \/ ReserveFails(t) \/ Reserve(t) \/ ReserveAgain(t)
             \/ CommitQuery(t) \/ Commit(t) \/ Fill(t)
      PROVE  PagesCommitted'
  <2>1. ASSUME NEW u \in Threads
        PROVE  /\ pc'[u] = "place" => pc[u] = "place"
               /\ pc'[u] = "place" => request'[u] = request[u] /\ at'[u] = at[u]
    BY <1>6, <1>p DEF Allocate, ReserveFails, Reserve, ReserveAgain, CommitQuery, Commit,
                      Fill, Return, Goto
  <2>2. ASSUME NEW u \in Threads PROVE Ready(u)'
    <3>1. CASE pc'[u] = "place"
      <4> HIDE DEF Ready
      <4>1. QED
        BY <1>1, <2>1, <3>1
    <3>2. CASE pc'[u] # "place"
      BY <3>2
    <3>3. QED
      BY <3>1, <3>2
  <2>3. blocks' = blocks
    BY <1>6 DEF Allocate, ReserveFails, Reserve, ReserveAgain, CommitQuery, Commit, Fill
  <2> HIDE DEF Ready
  <2>4. QED
    BY <1>3, <2>2, <2>3
<1>7. ASSUME (\E b \in blocks : Stray(b)) \/ UNCHANGED vars PROVE PagesCommitted'
  <2>1. blocks' = blocks /\ pc' = pc /\ request' = request /\ at' = at
    BY <1>7 DEF Stray, vars, localVars
  <2> HIDE DEF Ready
  <2>2. QED
    BY <1>1, <1>3, <2>1
<1>8. QED
  BY <1>4, <1>5, <1>6, <1>7 DEF Next, ThreadStep

LEMMA InvStep == IInv /\ [Next]_vars => IInv'
<1> SUFFICES ASSUME IInv, [Next]_vars PROVE IInv'
  OBVIOUS
<1>1. QED
  BY TypeStep, ThreadsStep, BlocksStep, RangesStep, PagesStep DEF IInv

\* IInv is inductive.
THEOREM GuardedInductive == Spec => []IInv
  BY InitInv, InvStep, PTL DEF Spec

\* Every variable has its type: no reservation takes m_Bump past the end of the
\* zone (KerbecsAllocators.cpp:62-64).
THEOREM GuardedTypeCorrect == Spec => []TypeOK
<1>1. IInv => TypeOK
  BY DEF IInv
<1>2. QED
  BY <1>1, GuardedInductive, PTL

\* No two blocks have a byte in common, and none leaves the zone, however many
\* threads race on m_Bump (KerbecsAllocators.cpp:53-74).
THEOREM RangesAreDisjoint == Spec => []RangesDisjoint
<1>1. IInv => RangesDisjoint
  BY DEF IInv
<1>2. QED
  BY <1>1, GuardedInductive, PTL

\* Every page of a block is accessible before place() writes into it
\* (KerbecsAllocators.cpp:42-46).
THEOREM PagesAreCommitted == Spec => []PagesCommitted
<1>1. IInv => PagesCommitted
  BY DEF IInv
<1>2. QED
  BY <1>1, GuardedInductive, PTL

\* Every block has room for its payload, aligned, between full guards, whatever
\* sizes the program asks for (Region.h:100-104, MemoryLayouts.h).
THEOREM SectionsAlwaysFit == Spec => []SectionsFit
<1>1. ASSUME IInv, NEW b \in blocks
      PROVE  /\ (b.at + OffsetsOf(b.request).user) % b.request.align = 0
             /\ Fits(b.request) /\ b.size = SizeOf(b.request)
  <2>1. /\ b.request \in Requests /\ Accepted(b.request) /\ b.at \in Nat
        /\ b.at % b.request.align = 0 /\ b.size = SizeOf(b.request)
    BY <1>1 DEF IInv, TypeOK, BlocksInv
  <2>2. /\ Fits(b.request)
        /\ OffsetsOf(b.request).user \in Nat
        /\ OffsetsOf(b.request).user % b.request.align = 0
    BY <2>1, AcceptedFits
  <2>3. b.request.align \in Nat \ {0}
    BY <2>1, RequestType
  <2>4. QED
    BY <2>1, <2>2, <2>3, SumOfMultiples
<1>2. IInv => SectionsFit
  BY <1>1 DEF SectionsFit, Fits
<1>3. QED
  BY <1>2, GuardedInductive, PTL

-----------------------------------------------------------------------------
(* The guards in memory *)

\* The offsets of the guard bytes in the block of q ...
GuardOffsets(q) ==
  LET o == OffsetsOf(q)
  IN  CASE q.layout = "normal" -> Between(0, o.user) \union Between(o.redzone2, o.meta)
        [] q.layout = "enhanced" ->
             UNION {Between(0, o.meta), Between(o.canary, o.user),
                    Between(o.canary2, o.meta2), Between(o.redzone2, SizeOf(q))}
        [] q.layout = "static" -> Between(0, o.user) \union Between(o.canary2, SizeOf(q))

\* ... and what place() writes there.
GuardByte(q, i) ==
  LET o == OffsetsOf(q)
  IN  IF q.layout = "normal" THEN Redzone
      ELSE IF i \in Between(o.canary, o.user) THEN Canary(i - o.canary)
      ELSE IF i \in Between(o.canary2, IF q.layout = "static" THEN o.redzone2 ELSE o.meta2)
      THEN Canary(i - o.canary2) ELSE Redzone

\* A guard byte of a block is what place() wrote until the program writes to it,
\* and it only writes to blocks.
GuardsOK ==
  \A b \in blocks : \A i \in GuardOffsets(b.request) :
    memory[b.at + i] = IF b.at + i \in stray THEN ByProgram ELSE GuardByte(b.request, i)
StrayOK == \A x \in stray : \E b \in blocks : x \in Range(b)
MemoryInv == GuardsOK /\ StrayOK

\* The sections of the three layouts, in the order of their offsets.
NormalPlan(q, o) ==
  /\ o.redzone = 0 /\ o.user \in Nat /\ o.redzone2 \in Nat /\ o.meta \in Nat
  /\ SizeOf(q) \in Nat
  /\ o.redzone2 = o.user + UserSize(q) /\ o.redzone2 <= o.meta
  /\ o.meta + NormalMeta.size = SizeOf(q)

EnhancedPlan(q, o) ==
  /\ o.redzone = 0 /\ o.meta \in Nat /\ o.canary \in Nat /\ o.user \in Nat
  /\ o.canary2 \in Nat /\ o.meta2 \in Nat /\ o.redzone2 \in Nat /\ SizeOf(q) \in Nat
  /\ o.meta + EnhancedMeta.size = o.canary /\ o.canary <= o.user
  /\ o.canary2 = o.user + UserSize(q) /\ o.canary2 <= o.meta2
  /\ o.meta2 + EnhancedMeta.size = o.redzone2 /\ o.redzone2 <= SizeOf(q)

StaticPlan(q, o) ==
  /\ o.redzone = 0 /\ o.canary \in Nat /\ o.user \in Nat
  /\ o.canary2 \in Nat /\ o.redzone2 \in Nat /\ SizeOf(q) \in Nat
  /\ o.canary <= o.user /\ o.canary2 = o.user + UserSize(q)
  /\ o.canary2 <= o.redzone2 /\ o.redzone2 <= SizeOf(q)

\* The sections of an accepted request follow each other as in its plan.
LEMMA PlanOf ==
  ASSUME NEW q \in Requests, Accepted(q)
  PROVE  /\ q.layout \in Layouts /\ UserSize(q) \in Nat
         /\ q.layout = "normal"   => NormalPlan(q, OffsetsOf(q))
         /\ q.layout = "enhanced" => EnhancedPlan(q, OffsetsOf(q))
         /\ q.layout = "static"   => StaticPlan(q, OffsetsOf(q))
<1> DEFINE p == UserSize(q)
           a == q.align
           o == OffsetsOf(q)
<1>1. /\ q.layout \in Layouts /\ a \in Nat \ {0} /\ p \in Nat
      /\ Fits(q) /\ SizeOf(q) \in Nat /\ o.user \in Nat
  BY RequestType, AcceptedFits
<1>2. CASE q.layout = "normal"
  <2>1. o = NormalOffsets(p, a)
    BY <1>2 DEF OffsetsOf, Offsets
  <2>2. /\ o.redzone = 0 /\ o.redzone2 = Add(o.user, p)
        /\ o.meta = AlignUp(Add(o.redzone2, RedzoneSize), NormalMeta.align)
    BY <2>1 DEF NormalOffsets
  <2> HIDE DEF o, p, a
  <2>3. o.redzone2 \in Nat
    BY <1>1, <2>2, AddType
  <2>a. Add(o.redzone2, RedzoneSize) \in Nat
    BY <2>3, AddType, SizesType
  <2>4. o.meta \in Nat
    BY <2>2, <2>a, AlignUpBounds, SizesType
  <2>5. /\ o.user + p = o.redzone2 /\ o.redzone2 + RedzoneSize <= o.meta
        /\ o.meta + NormalMeta.size = SizeOf(q)
    BY <1>1, <1>2 DEF Fits, o, p
  <2>6. NormalPlan(q, o)
    BY <1>1, <2>2, <2>3, <2>4, <2>5, SizesType DEF NormalPlan, p
  <2> QED
    BY <1>1, <1>2, <2>6 DEF o, p
<1>3. CASE q.layout = "enhanced"
  <2>1. o = EnhancedOffsets(p, a)
    BY <1>3 DEF OffsetsOf, Offsets
  <2>2. /\ o.redzone = 0 /\ o.meta = AlignUp(RedzoneSize, EnhancedMeta.align)
        /\ o.canary = Add(o.meta, EnhancedMeta.size)
        /\ o.canary2 = Add(o.user, p)
        /\ o.meta2 = AlignUp(Add(o.canary2, CanarySize), EnhancedMeta.align)
        /\ o.redzone2 = Add(o.meta2, EnhancedMeta.size)
    BY <2>1 DEF EnhancedOffsets
  <2> HIDE DEF o, p, a
  <2>3. o.meta \in Nat /\ o.canary2 \in Nat
    BY <1>1, <2>2, AddType, AlignUpBounds, SizesType
  <2>a. o.canary \in Nat /\ Add(o.canary2, CanarySize) \in Nat
    BY <2>2, <2>3, AddType, SizesType
  <2>4. o.canary \in Nat /\ o.meta2 \in Nat
    BY <2>2, <2>a, AlignUpBounds, SizesType
  <2>5. o.redzone2 \in Nat
    BY <2>2, <2>4, AddType, SizesType
  <2>6. /\ o.meta + EnhancedMeta.size = o.canary
        /\ o.canary + CanarySize <= o.user
        /\ o.user + p = o.canary2 /\ o.canary2 + CanarySize <= o.meta2
        /\ o.meta2 + EnhancedMeta.size = o.redzone2
        /\ o.redzone2 + RedzoneSize = SizeOf(q)
    BY <1>1, <1>3 DEF Fits, o, p
  <2>7. EnhancedPlan(q, o)
    BY <1>1, <2>2, <2>3, <2>4, <2>5, <2>6, SizesType DEF EnhancedPlan, p
  <2> QED
    BY <1>1, <1>3, <2>7 DEF o, p
<1>4. CASE q.layout = "static"
  <2>1. o = StaticOffsets(p, a)
    BY <1>4 DEF OffsetsOf, Offsets
  <2>2. /\ o.redzone = 0 /\ o.canary = RedzoneSize
        /\ o.canary2 = Add(o.user, p) /\ o.redzone2 = Add(o.canary2, CanarySize)
    BY <2>1 DEF StaticOffsets
  <2> HIDE DEF o, p, a
  <2>3. o.canary \in Nat /\ o.canary2 \in Nat
    BY <1>1, <2>2, AddType, SizesType
  <2>4. o.redzone2 \in Nat
    BY <2>2, <2>3, AddType, SizesType
  <2>5. /\ o.canary + CanarySize <= o.user
        /\ o.user + p = o.canary2 /\ o.canary2 + CanarySize = o.redzone2
        /\ o.redzone2 + RedzoneSize = SizeOf(q)
    BY <1>1, <1>4 DEF Fits, o, p
  <2>6. StaticPlan(q, o)
    BY <1>1, <2>2, <2>3, <2>4, <2>5, SizesType DEF StaticPlan, p
  <2> QED
    BY <1>1, <1>4, <2>6 DEF o, p
<1>5. QED
  BY <1>1, <1>2, <1>3, <1>4 DEF Layouts

\* Between, as a condition; the lemmas below need no more of it.
LEMMA BetweenIs ==
  ASSUME NEW a \in Nat, NEW b \in Nat, NEW i
  PROVE  i \in Between(a, b) <=> i \in Nat /\ a <= i /\ i < b
  BY DEF Between

\* A section that starts at an offset of a block.
LEMMA BetweenShift ==
  ASSUME NEW a \in Nat, NEW from \in Nat, NEW size \in Nat, NEW i \in Nat
  PROVE  a + i \in Between(a + from, a + from + size) <=> from <= i /\ i < from + size
  BY DEF Between

\* The guard bytes of a block are those of its bytes that are neither of the
\* payload nor of the metadata.
LEMMA GuardsAre ==
  ASSUME NEW q \in Requests, Accepted(q), NEW i \in Nat,
         NEW b, b.request = q, b.at \in Nat, b.size = SizeOf(q)
  PROVE  /\ i \in GuardOffsets(q) <=>
              b.at + i \in Range(b) \ (Payload(b) \union MetaBytes(b))
         /\ GuardOffsets(q) \subseteq Between(0, SizeOf(q))
<1> DEFINE o == OffsetsOf(q)
<1>1. /\ q.layout \in Layouts /\ UserSize(q) \in Nat
      /\ NormalMeta.size \in Nat /\ EnhancedMeta.size \in Nat
  BY PlanOf, SizesType
<1>2. CASE q.layout = "normal"
  <2>1. NormalPlan(q, o)
    BY <1>2, PlanOf
  <2>2. MetaBytes(b) = Between(b.at + o.meta, b.at + o.meta + NormalMeta.size)
    BY <1>2 DEF MetaBytes, MetaOffsets, MetaOf
  <2>3. Payload(b) = Between(b.at + o.user, b.at + o.user + UserSize(q))
    BY DEF Payload
  <2>4. GuardOffsets(q) = Between(0, o.user) \union Between(o.redzone2, o.meta)
    BY <1>2 DEF GuardOffsets
  <2>o. o.user \in Nat /\ o.meta \in Nat
    BY <2>1 DEF NormalPlan
  <2> HIDE DEF o
  <2>5. Range(b) = Between(b.at, b.at + SizeOf(q))
    BY DEF Range
  <2>6. GuardOffsets(q) \subseteq Between(0, SizeOf(q))
    BY <1>1, <2>1, <2>4 DEF Between, NormalPlan
  <2>7. i \in GuardOffsets(q) <=>
          b.at + i \in Range(b) /\ b.at + i \notin Payload(b) /\ b.at + i \notin MetaBytes(b)
    <3>1. b.at + i \in Range(b) <=> i < SizeOf(q)
      BY <2>1, <2>5 DEF Between, NormalPlan
    <3>2. b.at + i \in Payload(b) <=> o.user <= i /\ i < o.user + UserSize(q)
      <4>1. b.at + i \in Between(b.at + o.user, b.at + o.user + UserSize(q))
              <=> o.user <= i /\ i < o.user + UserSize(q)
        BY <1>1, <2>o, BetweenShift
      <4> QED
        BY <4>1, <2>3
    <3>3. b.at + i \in MetaBytes(b) <=>
          o.meta <= i /\ i < o.meta + NormalMeta.size
      <4>1. b.at + i \in Between(b.at + o.meta, b.at + o.meta + NormalMeta.size)
              <=> o.meta <= i /\ i < o.meta + NormalMeta.size
        BY <1>1, <2>o, BetweenShift
      <4> QED
        BY <4>1, <2>2
    <3>4. QED
      BY <1>1, <2>1, <2>4, <3>1, <3>2, <3>3 DEF Between, NormalPlan
  <2>8. QED
    BY <2>6, <2>7
<1>3. CASE q.layout = "enhanced"
  <2>1. EnhancedPlan(q, o)
    BY <1>3, PlanOf
  <2>2. MetaBytes(b) = Between(b.at + o.meta, b.at + o.meta + EnhancedMeta.size)
                         \union Between(b.at + o.meta2, b.at + o.meta2 + EnhancedMeta.size)
    BY <1>3 DEF MetaBytes, MetaOffsets, MetaOf
  <2>3. Payload(b) = Between(b.at + o.user, b.at + o.user + UserSize(q))
    BY DEF Payload
  <2>4. GuardOffsets(q) = Between(0, o.meta) \union Between(o.canary, o.user)
                 \union Between(o.canary2, o.meta2) \union Between(o.redzone2, SizeOf(q))
    BY <1>3 DEF GuardOffsets
  <2>o. o.user \in Nat /\ o.meta \in Nat /\ o.meta2 \in Nat
    BY <2>1 DEF EnhancedPlan
  <2> HIDE DEF o
  <2>5. Range(b) = Between(b.at, b.at + SizeOf(q))
    BY DEF Range
  <2>6. GuardOffsets(q) \subseteq Between(0, SizeOf(q))
    BY <1>1, <2>1, <2>4 DEF Between, EnhancedPlan
  <2>7. i \in GuardOffsets(q) <=>
          b.at + i \in Range(b) /\ b.at + i \notin Payload(b) /\ b.at + i \notin MetaBytes(b)
    <3>1. b.at + i \in Range(b) <=> i < SizeOf(q)
      BY <2>1, <2>5 DEF Between, EnhancedPlan
    <3>2. b.at + i \in Payload(b) <=> o.user <= i /\ i < o.user + UserSize(q)
      <4>1. b.at + i \in Between(b.at + o.user, b.at + o.user + UserSize(q))
              <=> o.user <= i /\ i < o.user + UserSize(q)
        BY <1>1, <2>o, BetweenShift
      <4> QED
        BY <4>1, <2>3
    <3>3. b.at + i \in MetaBytes(b) <=>
          \/ o.meta <= i /\ i < o.meta + EnhancedMeta.size
          \/ o.meta2 <= i /\ i < o.meta2 + EnhancedMeta.size
      BY <1>1, <2>2, <2>o, BetweenShift
    <3>4. QED
      BY <1>1, <2>1, <2>4, <3>1, <3>2, <3>3 DEF Between, EnhancedPlan
  <2>8. QED
    BY <2>6, <2>7
<1>4. CASE q.layout = "static"
  <2>1. StaticPlan(q, o)
    BY <1>4, PlanOf
  <2>2. MetaBytes(b) = {}
    BY <1>4 DEF MetaBytes, MetaOffsets
  <2>3. Payload(b) = Between(b.at + o.user, b.at + o.user + UserSize(q))
    BY DEF Payload
  <2>4. GuardOffsets(q) = Between(0, o.user) \union Between(o.canary2, SizeOf(q))
    BY <1>4 DEF GuardOffsets
  <2>o. o.user \in Nat
    BY <2>1 DEF StaticPlan
  <2> HIDE DEF o
  <2>5. Range(b) = Between(b.at, b.at + SizeOf(q))
    BY DEF Range
  <2>6. GuardOffsets(q) \subseteq Between(0, SizeOf(q))
    BY <1>1, <2>1, <2>4 DEF Between, StaticPlan
  <2>7. i \in GuardOffsets(q) <=>
          b.at + i \in Range(b) /\ b.at + i \notin Payload(b) /\ b.at + i \notin MetaBytes(b)
    <3>1. b.at + i \in Range(b) <=> i < SizeOf(q)
      BY <2>1, <2>5 DEF Between, StaticPlan
    <3>2. b.at + i \in Payload(b) <=> o.user <= i /\ i < o.user + UserSize(q)
      <4>1. b.at + i \in Between(b.at + o.user, b.at + o.user + UserSize(q))
              <=> o.user <= i /\ i < o.user + UserSize(q)
        BY <1>1, <2>o, BetweenShift
      <4> QED
        BY <4>1, <2>3
    <3>3. b.at + i \in MetaBytes(b) <=>
          FALSE
      BY <2>2
    <3>4. QED
      BY <1>1, <2>1, <2>4, <3>1, <3>2, <3>3 DEF Between, StaticPlan
  <2>8. QED
    BY <2>6, <2>7
<1>5. QED
  BY <1>1, <1>2, <1>3, <1>4 DEF Layouts

\* verifyGuards looks at the guard bytes, and only at them.
LEMMA VerifyIs ==
  ASSUME NEW q \in Requests, Accepted(q), NEW bytes
  PROVE  VerifyGuards(bytes, q.layout, OffsetsOf(q), SizeOf(q))
           <=> \A i \in GuardOffsets(q) : bytes[i] = GuardByte(q, i)
<1> DEFINE o == OffsetsOf(q)
<1>1. q.layout \in Layouts /\ UserSize(q) \in Nat
  BY PlanOf
<1>2. CASE q.layout = "normal"
  <2>1. NormalPlan(q, o)
    BY <1>2, PlanOf
  <2>2. \A i : GuardByte(q, i) = Redzone
    BY <1>2 DEF GuardByte
  <2>3. GuardOffsets(q) = Between(0, o.user) \union Between(o.redzone2, o.meta)
    BY <1>2 DEF GuardOffsets
  <2>4. VerifyGuards(bytes, q.layout, o, SizeOf(q)) <=>
          /\ \A i \in Between(0, o.user) : bytes[i] = Redzone
          /\ \A i \in Between(o.redzone2, o.meta) : bytes[i] = Redzone
    BY <1>2, <2>1 DEF VerifyGuards, NormalGuards, VerifyRedzone, NormalPlan
  <2> HIDE DEF o
  <2>5. QED
    BY <2>2, <2>3, <2>4 DEF o
<1>3. CASE q.layout = "enhanced"
  <2>1. EnhancedPlan(q, o)
    BY <1>3, PlanOf
  <2>2. GuardOffsets(q) = Between(0, o.meta) \union Between(o.canary, o.user)
                 \union Between(o.canary2, o.meta2) \union Between(o.redzone2, SizeOf(q))
    BY <1>3 DEF GuardOffsets
  <2>3. VerifyGuards(bytes, q.layout, o, SizeOf(q)) <=>
          /\ \A i \in Between(0, o.meta) : bytes[i] = Redzone
          /\ \A i \in Between(o.canary, o.user) : bytes[i] = Canary(i - o.canary)
          /\ \A i \in Between(o.canary2, o.meta2) : bytes[i] = Canary(i - o.canary2)
          /\ \A i \in Between(o.redzone2, SizeOf(q)) : bytes[i] = Redzone
    BY <1>3, <2>1 DEF VerifyGuards, EnhancedGuards, VerifyRedzone, VerifyCanaries, EnhancedPlan
  <2>4. \A i : GuardByte(q, i) = IF i \in Between(o.canary, o.user) THEN Canary(i - o.canary)
                                 ELSE IF i \in Between(o.canary2, o.meta2)
                                 THEN Canary(i - o.canary2) ELSE Redzone
    BY <1>3 DEF GuardByte
  <2> HIDE DEF o
  <2>5. /\ \A i \in Between(0, o.meta) \union Between(o.redzone2, SizeOf(q)) :
             i \notin Between(o.canary, o.user) /\ i \notin Between(o.canary2, o.meta2)
        /\ \A i \in Between(o.canary2, o.meta2) : i \notin Between(o.canary, o.user)
    BY <1>1, <2>1, SizesType DEF Between, EnhancedPlan
  <2>6. /\ \A i \in Between(0, o.meta) \union Between(o.redzone2, SizeOf(q)) :
             GuardByte(q, i) = Redzone
        /\ \A i \in Between(o.canary2, o.meta2) : GuardByte(q, i) = Canary(i - o.canary2)
        /\ \A i \in Between(o.canary, o.user) : GuardByte(q, i) = Canary(i - o.canary)
    BY <2>4, <2>5
  <2>7. QED
    BY <2>2, <2>3, <2>6 DEF o
<1>4. CASE q.layout = "static"
  <2>1. StaticPlan(q, o)
    BY <1>4, PlanOf
  <2>2. GuardOffsets(q) = Between(0, o.canary) \union Between(o.canary, o.user)
             \union Between(o.canary2, o.redzone2) \union Between(o.redzone2, SizeOf(q))
    <3>1. GuardOffsets(q) = Between(0, o.user) \union Between(o.canary2, SizeOf(q))
      BY <1>4 DEF GuardOffsets
    <3> HIDE DEF o
    <3>2. QED
      BY <1>1, <2>1, <3>1 DEF Between, StaticPlan
  <2>3. VerifyGuards(bytes, q.layout, o, SizeOf(q)) <=>
          /\ \A i \in Between(0, o.canary) : bytes[i] = Redzone
          /\ \A i \in Between(o.canary, o.user) : bytes[i] = Canary(i - o.canary)
          /\ \A i \in Between(o.canary2, o.redzone2) : bytes[i] = Canary(i - o.canary2)
          /\ \A i \in Between(o.redzone2, SizeOf(q)) : bytes[i] = Redzone
    BY <1>4, <2>1 DEF VerifyGuards, StaticGuards, VerifyRedzone, VerifyCanaries, StaticPlan
  <2>4. \A i : GuardByte(q, i) = IF i \in Between(o.canary, o.user) THEN Canary(i - o.canary)
                                 ELSE IF i \in Between(o.canary2, o.redzone2)
                                 THEN Canary(i - o.canary2) ELSE Redzone
    BY <1>4 DEF GuardByte
  <2> HIDE DEF o
  <2>5. /\ \A i \in Between(0, o.canary) \union Between(o.redzone2, SizeOf(q)) :
             i \notin Between(o.canary, o.user) /\ i \notin Between(o.canary2, o.redzone2)
        /\ \A i \in Between(o.canary2, o.redzone2) : i \notin Between(o.canary, o.user)
    BY <1>1, <2>1 DEF Between, StaticPlan
  <2>6. /\ \A i \in Between(0, o.canary) \union Between(o.redzone2, SizeOf(q)) :
             GuardByte(q, i) = Redzone
        /\ \A i \in Between(o.canary2, o.redzone2) : GuardByte(q, i) = Canary(i - o.canary2)
        /\ \A i \in Between(o.canary, o.user) : GuardByte(q, i) = Canary(i - o.canary)
    BY <2>4, <2>5
  <2>7. QED
    BY <2>2, <2>3, <2>6 DEF o
<1>5. QED
  BY <1>1, <1>2, <1>3, <1>4 DEF Layouts

\* place() stamps inside the block, and every guard byte exactly once.
LEMMA StampsAre ==
  ASSUME NEW q \in Requests, Accepted(q)
  PROVE  LET s == Stamps(q.layout, OffsetsOf(q), SizeOf(q)) IN
         /\ \A k \in DOMAIN s : k \in Nat /\ DOMAIN s[k] \subseteq Between(0, SizeOf(q))
         /\ \A i \in GuardOffsets(q) :
              \E k \in DOMAIN s : /\ i \in DOMAIN s[k] /\ s[k][i] = GuardByte(q, i)
                                  /\ \A j \in DOMAIN s \ {k} : i \notin DOMAIN s[j]
<1> DEFINE o == OffsetsOf(q)
           s == Stamps(q.layout, o, SizeOf(q))
<1>1. /\ q.layout \in Layouts /\ UserSize(q) \in Nat
      /\ NormalMeta.size \in Nat \ {0} /\ EnhancedMeta.size \in Nat \ {0}
  BY PlanOf, SizesType
<1>2. CASE q.layout = "normal"
  <2>1. NormalPlan(q, o)
    BY <1>2, PlanOf
  <2>2. /\ DOMAIN s = 1 .. 3
        /\ s[1] = [i \in Between(0, o.user) |-> Redzone]
        /\ s[2] = [i \in Between(o.redzone2, o.meta) |-> Redzone]
        /\ s[3] = [i \in Between(o.meta, o.meta + NormalMeta.size) |-> Metadata]
    BY <1>2 DEF Stamps, StampRedzone, StampCanary, StampMeta
  <2>3. \A i : GuardByte(q, i) = Redzone
    BY <1>2 DEF GuardByte
  <2>4. GuardOffsets(q) = Between(0, o.user) \union Between(o.redzone2, o.meta)
    BY <1>2 DEF GuardOffsets
  <2> HIDE DEF o, s
  <2>d. /\ DOMAIN s[1] = Between(0, o.user)
        /\ DOMAIN s[2] = Between(o.redzone2, o.meta)
        /\ DOMAIN s[3] = Between(o.meta, o.meta + NormalMeta.size)
    BY <2>2
  <2>o. /\ o.user \in Nat /\ o.redzone2 \in Nat /\ o.meta \in Nat /\ SizeOf(q) \in Nat
        /\ o.user <= o.redzone2 /\ o.redzone2 <= o.meta
        /\ o.meta + NormalMeta.size = SizeOf(q) /\ o.meta <= SizeOf(q)
    BY <1>1, <2>1 DEF NormalPlan
  <2>5. ASSUME NEW k \in 1 .. 3 PROVE k \in Nat /\ DOMAIN s[k] \subseteq Between(0, SizeOf(q))
    <3>1. DOMAIN s[1] \subseteq Between(0, SizeOf(q))
      BY <2>d, <2>o, BetweenIs
    <3>2. DOMAIN s[2] \subseteq Between(0, SizeOf(q))
      BY <2>d, <2>o, BetweenIs
    <3>3. DOMAIN s[3] \subseteq Between(0, SizeOf(q))
      BY <2>d, <2>o, BetweenIs
    <3> QED
      BY <3>1, <3>2, <3>3
  <2>6. ASSUME NEW i \in GuardOffsets(q)
        PROVE  \E k \in DOMAIN s : /\ i \in DOMAIN s[k] /\ s[k][i] = GuardByte(q, i)
                                   /\ \A j \in DOMAIN s \ {k} : i \notin DOMAIN s[j]
    <3>1. CASE i \in Between(0, o.user)
      <4>0. i \in Nat /\ 0 <= i /\ i < o.user
        BY <2>o, <3>1, BetweenIs
      <4>1. i \notin DOMAIN s[2] /\ i \notin DOMAIN s[3]
        <5>1. i \notin DOMAIN s[2]
          BY <2>d, <2>o, <4>0, BetweenIs
        <5>2. i \notin DOMAIN s[3]
          BY <2>d, <2>o, <4>0, BetweenIs
        <5> QED
          BY <5>1, <5>2
      <4>2. GuardByte(q, i) = Redzone
        BY <2>3, <2>o, <3>1, <4>0, BetweenIs
      <4>3. i \in DOMAIN s[1] /\ s[1][i] = Redzone
        BY <2>2, <3>1
      <4> QED
        BY <2>2, <4>1, <4>2, <4>3
    <3>2. CASE i \in Between(o.redzone2, o.meta)
      <4>0. i \in Nat /\ o.redzone2 <= i /\ i < o.meta
        BY <2>o, <3>2, BetweenIs
      <4>1. i \notin DOMAIN s[1] /\ i \notin DOMAIN s[3]
        <5>1. i \notin DOMAIN s[1]
          BY <2>d, <2>o, <4>0, BetweenIs
        <5>2. i \notin DOMAIN s[3]
          BY <2>d, <2>o, <4>0, BetweenIs
        <5> QED
          BY <5>1, <5>2
      <4>2. GuardByte(q, i) = Redzone
        BY <2>3, <2>o, <3>2, <4>0, BetweenIs
      <4>3. i \in DOMAIN s[2] /\ s[2][i] = Redzone
        BY <2>2, <3>2
      <4> QED
        BY <2>2, <4>1, <4>2, <4>3
    <3> QED
      BY <1>1, <2>1, <2>4, <3>1, <3>2 DEF Between, NormalPlan
  <2> QED
    BY <2>2, <2>5, <2>6 DEF s, o
<1>3. CASE q.layout = "enhanced"
  <2>1. EnhancedPlan(q, o)
    BY <1>3, PlanOf
  <2>2. /\ DOMAIN s = 1 .. 6
        /\ s[1] = [i \in Between(0, o.meta) |-> Redzone]
        /\ s[2] = [i \in Between(o.meta, o.meta + EnhancedMeta.size) |-> Metadata]
        /\ s[3] = [i \in Between(o.canary, o.user) |-> Canary(i - o.canary)]
        /\ s[4] = [i \in Between(o.canary2, o.meta2) |-> Canary(i - o.canary2)]
        /\ s[5] = [i \in Between(o.meta2, o.meta2 + EnhancedMeta.size) |-> Metadata]
        /\ s[6] = [i \in Between(o.redzone2, SizeOf(q)) |-> Redzone]
    BY <1>3 DEF Stamps, StampRedzone, StampCanary, StampMeta
  <2>3. \A i : GuardByte(q, i) = IF i \in Between(o.canary, o.user) THEN Canary(i - o.canary)
                                 ELSE IF i \in Between(o.canary2, o.meta2)
                                 THEN Canary(i - o.canary2) ELSE Redzone
    BY <1>3 DEF GuardByte
  <2>4. GuardOffsets(q) = Between(0, o.meta) \union Between(o.canary, o.user)
                 \union Between(o.canary2, o.meta2) \union Between(o.redzone2, SizeOf(q))
    BY <1>3 DEF GuardOffsets
  <2> HIDE DEF o, s
  <2>d. /\ DOMAIN s[1] = Between(0, o.meta)
        /\ DOMAIN s[2] = Between(o.meta, o.canary)
        /\ DOMAIN s[3] = Between(o.canary, o.user)
        /\ DOMAIN s[4] = Between(o.canary2, o.meta2)
        /\ DOMAIN s[5] = Between(o.meta2, o.redzone2)
        /\ DOMAIN s[6] = Between(o.redzone2, SizeOf(q))
    BY <2>1, <2>2 DEF EnhancedPlan
  <2>o. /\ o.meta \in Nat /\ o.canary \in Nat /\ o.user \in Nat /\ o.canary2 \in Nat
        /\ o.meta2 \in Nat /\ o.redzone2 \in Nat /\ SizeOf(q) \in Nat
        /\ o.meta <= o.canary /\ o.canary <= o.user /\ o.user <= o.canary2
        /\ o.canary2 <= o.meta2 /\ o.meta2 <= o.redzone2 /\ o.redzone2 <= SizeOf(q)
        /\ o.meta <= o.meta2 /\ o.meta <= SizeOf(q) /\ o.canary <= SizeOf(q)
    BY <1>1, <2>1 DEF EnhancedPlan
  <2>5. ASSUME NEW k \in 1 .. 6 PROVE k \in Nat /\ DOMAIN s[k] \subseteq Between(0, SizeOf(q))
    <3>1. DOMAIN s[1] \subseteq Between(0, SizeOf(q))
      BY <2>d, <2>o, BetweenIs
    <3>2. DOMAIN s[2] \subseteq Between(0, SizeOf(q))
      BY <2>d, <2>o, BetweenIs
    <3>3. DOMAIN s[3] \subseteq Between(0, SizeOf(q))
      BY <2>d, <2>o, BetweenIs
    <3>4. DOMAIN s[4] \subseteq Between(0, SizeOf(q))
      BY <2>d, <2>o, BetweenIs
    <3>5. DOMAIN s[5] \subseteq Between(0, SizeOf(q))
      BY <2>d, <2>o, BetweenIs
    <3>6. DOMAIN s[6] \subseteq Between(0, SizeOf(q))
      BY <2>d, <2>o, BetweenIs
    <3> QED
      BY <3>1, <3>2, <3>3, <3>4, <3>5, <3>6
  <2>6. ASSUME NEW i \in GuardOffsets(q)
        PROVE  \E k \in DOMAIN s : /\ i \in DOMAIN s[k] /\ s[k][i] = GuardByte(q, i)
                                   /\ \A j \in DOMAIN s \ {k} : i \notin DOMAIN s[j]
    <3>1. CASE i \in Between(0, o.meta)
      <4>0. i \in Nat /\ 0 <= i /\ i < o.meta
        BY <2>o, <3>1, BetweenIs
      <4>1. i \notin DOMAIN s[2] /\ i \notin DOMAIN s[3] /\ i \notin DOMAIN s[4] /\ i \notin DOMAIN s[5] /\ i \notin DOMAIN s[6]
        <5>1. i \notin DOMAIN s[2]
          BY <2>d, <2>o, <4>0, BetweenIs
        <5>2. i \notin DOMAIN s[3]
          BY <2>d, <2>o, <4>0, BetweenIs
        <5>3. i \notin DOMAIN s[4]
          BY <2>d, <2>o, <4>0, BetweenIs
        <5>4. i \notin DOMAIN s[5]
          BY <2>d, <2>o, <4>0, BetweenIs
        <5>5. i \notin DOMAIN s[6]
          BY <2>d, <2>o, <4>0, BetweenIs
        <5> QED
          BY <5>1, <5>2, <5>3, <5>4, <5>5
      <4>2. GuardByte(q, i) = Redzone
        BY SMTT(30), <2>3, <2>o, <3>1, <4>0, BetweenIs
      <4>3. i \in DOMAIN s[1] /\ s[1][i] = Redzone
        BY <2>2, <3>1
      <4> QED
        BY <2>2, <4>1, <4>2, <4>3
    <3>3. CASE i \in Between(o.canary, o.user)
      <4>0. i \in Nat /\ o.canary <= i /\ i < o.user
        BY <2>o, <3>3, BetweenIs
      <4>1. i \notin DOMAIN s[1] /\ i \notin DOMAIN s[2] /\ i \notin DOMAIN s[4] /\ i \notin DOMAIN s[5] /\ i \notin DOMAIN s[6]
        <5>1. i \notin DOMAIN s[1]
          BY <2>d, <2>o, <4>0, BetweenIs
        <5>2. i \notin DOMAIN s[2]
          BY <2>d, <2>o, <4>0, BetweenIs
        <5>3. i \notin DOMAIN s[4]
          BY <2>d, <2>o, <4>0, BetweenIs
        <5>4. i \notin DOMAIN s[5]
          BY <2>d, <2>o, <4>0, BetweenIs
        <5>5. i \notin DOMAIN s[6]
          BY <2>d, <2>o, <4>0, BetweenIs
        <5> QED
          BY <5>1, <5>2, <5>3, <5>4, <5>5
      <4>2. GuardByte(q, i) = Canary(i - o.canary)
        BY <2>3, <2>o, <3>3, <4>0, BetweenIs
      <4>3. i \in DOMAIN s[3] /\ s[3][i] = Canary(i - o.canary)
        BY <2>2, <3>3
      <4> QED
        BY <2>2, <4>1, <4>2, <4>3
    <3>4. CASE i \in Between(o.canary2, o.meta2)
      <4>0. i \in Nat /\ o.canary2 <= i /\ i < o.meta2
        BY <2>o, <3>4, BetweenIs
      <4>1. i \notin DOMAIN s[1] /\ i \notin DOMAIN s[2] /\ i \notin DOMAIN s[3] /\ i \notin DOMAIN s[5] /\ i \notin DOMAIN s[6]
        <5>1. i \notin DOMAIN s[1]
          BY <2>d, <2>o, <4>0, BetweenIs
        <5>2. i \notin DOMAIN s[2]
          BY <2>d, <2>o, <4>0, BetweenIs
        <5>3. i \notin DOMAIN s[3]
          BY <2>d, <2>o, <4>0, BetweenIs
        <5>4. i \notin DOMAIN s[5]
          BY <2>d, <2>o, <4>0, BetweenIs
        <5>5. i \notin DOMAIN s[6]
          BY <2>d, <2>o, <4>0, BetweenIs
        <5> QED
          BY <5>1, <5>2, <5>3, <5>4, <5>5
      <4>2. GuardByte(q, i) = Canary(i - o.canary2)
        BY <2>3, <2>o, <3>4, <4>0, BetweenIs
      <4>3. i \in DOMAIN s[4] /\ s[4][i] = Canary(i - o.canary2)
        BY <2>2, <3>4
      <4> QED
        BY <2>2, <4>1, <4>2, <4>3
    <3>6. CASE i \in Between(o.redzone2, SizeOf(q))
      <4>0. i \in Nat /\ o.redzone2 <= i /\ i < SizeOf(q)
        BY <2>o, <3>6, BetweenIs
      <4>1. i \notin DOMAIN s[1] /\ i \notin DOMAIN s[2] /\ i \notin DOMAIN s[3] /\ i \notin DOMAIN s[4] /\ i \notin DOMAIN s[5]
        <5>1. i \notin DOMAIN s[1]
          BY <2>d, <2>o, <4>0, BetweenIs
        <5>2. i \notin DOMAIN s[2]
          BY <2>d, <2>o, <4>0, BetweenIs
        <5>3. i \notin DOMAIN s[3]
          BY <2>d, <2>o, <4>0, BetweenIs
        <5>4. i \notin DOMAIN s[4]
          BY <2>d, <2>o, <4>0, BetweenIs
        <5>5. i \notin DOMAIN s[5]
          BY <2>d, <2>o, <4>0, BetweenIs
        <5> QED
          BY <5>1, <5>2, <5>3, <5>4, <5>5
      <4>2. GuardByte(q, i) = Redzone
        BY <2>3, <2>o, <3>6, <4>0, BetweenIs
      <4>3. i \in DOMAIN s[6] /\ s[6][i] = Redzone
        BY <2>2, <3>6
      <4> QED
        BY <2>2, <4>1, <4>2, <4>3
    <3> QED
      BY <1>1, <2>1, <2>4, <3>1, <3>3, <3>4, <3>6 DEF Between, EnhancedPlan
  <2> QED
    BY <2>2, <2>5, <2>6 DEF s, o
<1>4. CASE q.layout = "static"
  <2>1. StaticPlan(q, o)
    BY <1>4, PlanOf
  <2>2. /\ DOMAIN s = 1 .. 4
        /\ s[1] = [i \in Between(0, o.canary) |-> Redzone]
        /\ s[2] = [i \in Between(o.canary, o.user) |-> Canary(i - o.canary)]
        /\ s[3] = [i \in Between(o.canary2, o.redzone2) |-> Canary(i - o.canary2)]
        /\ s[4] = [i \in Between(o.redzone2, SizeOf(q)) |-> Redzone]
    BY <1>4 DEF Stamps, StampRedzone, StampCanary, StampMeta
  <2>3. \A i : GuardByte(q, i) = IF i \in Between(o.canary, o.user) THEN Canary(i - o.canary)
                                 ELSE IF i \in Between(o.canary2, o.redzone2)
                                 THEN Canary(i - o.canary2) ELSE Redzone
    BY <1>4 DEF GuardByte
  <2>4. GuardOffsets(q) = Between(0, o.user) \union Between(o.canary2, SizeOf(q))
    BY <1>4 DEF GuardOffsets
  <2> HIDE DEF o, s
  <2>d. /\ DOMAIN s[1] = Between(0, o.canary)
        /\ DOMAIN s[2] = Between(o.canary, o.user)
        /\ DOMAIN s[3] = Between(o.canary2, o.redzone2)
        /\ DOMAIN s[4] = Between(o.redzone2, SizeOf(q))
    BY <2>2
  <2>o. /\ o.canary \in Nat /\ o.user \in Nat /\ o.canary2 \in Nat /\ o.redzone2 \in Nat
        /\ SizeOf(q) \in Nat /\ o.canary <= o.user /\ o.user <= o.canary2
        /\ o.canary2 <= o.redzone2 /\ o.redzone2 <= SizeOf(q)
    BY <1>1, <2>1 DEF StaticPlan
  <2>5. ASSUME NEW k \in 1 .. 4 PROVE k \in Nat /\ DOMAIN s[k] \subseteq Between(0, SizeOf(q))
    <3>1. DOMAIN s[1] \subseteq Between(0, SizeOf(q))
      BY <2>d, <2>o, BetweenIs
    <3>2. DOMAIN s[2] \subseteq Between(0, SizeOf(q))
      BY <2>d, <2>o, BetweenIs
    <3>3. DOMAIN s[3] \subseteq Between(0, SizeOf(q))
      BY <2>d, <2>o, BetweenIs
    <3>4. DOMAIN s[4] \subseteq Between(0, SizeOf(q))
      BY <2>d, <2>o, BetweenIs
    <3> QED
      BY <3>1, <3>2, <3>3, <3>4
  <2>6. ASSUME NEW i \in GuardOffsets(q)
        PROVE  \E k \in DOMAIN s : /\ i \in DOMAIN s[k] /\ s[k][i] = GuardByte(q, i)
                                   /\ \A j \in DOMAIN s \ {k} : i \notin DOMAIN s[j]
    <3>1. CASE i \in Between(0, o.canary)
      <4>0. i \in Nat /\ 0 <= i /\ i < o.canary
        BY <2>o, <3>1, BetweenIs
      <4>1. i \notin DOMAIN s[2] /\ i \notin DOMAIN s[3] /\ i \notin DOMAIN s[4]
        <5>1. i \notin DOMAIN s[2]
          BY <2>d, <2>o, <4>0, BetweenIs
        <5>2. i \notin DOMAIN s[3]
          BY <2>d, <2>o, <4>0, BetweenIs
        <5>3. i \notin DOMAIN s[4]
          BY <2>d, <2>o, <4>0, BetweenIs
        <5> QED
          BY <5>1, <5>2, <5>3
      <4>2. GuardByte(q, i) = Redzone
        BY <2>3, <2>o, <3>1, <4>0, BetweenIs
      <4>3. i \in DOMAIN s[1] /\ s[1][i] = Redzone
        BY <2>2, <3>1
      <4> QED
        BY <2>2, <4>1, <4>2, <4>3
    <3>2. CASE i \in Between(o.canary, o.user)
      <4>0. i \in Nat /\ o.canary <= i /\ i < o.user
        BY <2>o, <3>2, BetweenIs
      <4>1. i \notin DOMAIN s[1] /\ i \notin DOMAIN s[3] /\ i \notin DOMAIN s[4]
        <5>1. i \notin DOMAIN s[1]
          BY <2>d, <2>o, <4>0, BetweenIs
        <5>2. i \notin DOMAIN s[3]
          BY <2>d, <2>o, <4>0, BetweenIs
        <5>3. i \notin DOMAIN s[4]
          BY <2>d, <2>o, <4>0, BetweenIs
        <5> QED
          BY <5>1, <5>2, <5>3
      <4>2. GuardByte(q, i) = Canary(i - o.canary)
        BY <2>3, <2>o, <3>2, <4>0, BetweenIs
      <4>3. i \in DOMAIN s[2] /\ s[2][i] = Canary(i - o.canary)
        BY <2>2, <3>2
      <4> QED
        BY <2>2, <4>1, <4>2, <4>3
    <3>3. CASE i \in Between(o.canary2, o.redzone2)
      <4>0. i \in Nat /\ o.canary2 <= i /\ i < o.redzone2
        BY <2>o, <3>3, BetweenIs
      <4>1. i \notin DOMAIN s[1] /\ i \notin DOMAIN s[2] /\ i \notin DOMAIN s[4]
        <5>1. i \notin DOMAIN s[1]
          BY <2>d, <2>o, <4>0, BetweenIs
        <5>2. i \notin DOMAIN s[2]
          BY <2>d, <2>o, <4>0, BetweenIs
        <5>3. i \notin DOMAIN s[4]
          BY <2>d, <2>o, <4>0, BetweenIs
        <5> QED
          BY <5>1, <5>2, <5>3
      <4>2. GuardByte(q, i) = Canary(i - o.canary2)
        BY <2>3, <2>o, <3>3, <4>0, BetweenIs
      <4>3. i \in DOMAIN s[3] /\ s[3][i] = Canary(i - o.canary2)
        BY <2>2, <3>3
      <4> QED
        BY <2>2, <4>1, <4>2, <4>3
    <3>4. CASE i \in Between(o.redzone2, SizeOf(q))
      <4>0. i \in Nat /\ o.redzone2 <= i /\ i < SizeOf(q)
        BY <2>o, <3>4, BetweenIs
      <4>1. i \notin DOMAIN s[1] /\ i \notin DOMAIN s[2] /\ i \notin DOMAIN s[3]
        <5>1. i \notin DOMAIN s[1]
          BY <2>d, <2>o, <4>0, BetweenIs
        <5>2. i \notin DOMAIN s[2]
          BY <2>d, <2>o, <4>0, BetweenIs
        <5>3. i \notin DOMAIN s[3]
          BY <2>d, <2>o, <4>0, BetweenIs
        <5> QED
          BY <5>1, <5>2, <5>3
      <4>2. GuardByte(q, i) = Redzone
        BY <2>3, <2>o, <3>4, <4>0, BetweenIs
      <4>3. i \in DOMAIN s[4] /\ s[4][i] = Redzone
        BY <2>2, <3>4
      <4> QED
        BY <2>2, <4>1, <4>2, <4>3
    <3> QED
      BY <1>1, <2>1, <2>4, <3>1, <3>2, <3>3, <3>4 DEF Between, StaticPlan
  <2> QED
    BY <2>2, <2>5, <2>6 DEF s, o
<1>5. QED
  BY <1>1, <1>2, <1>3, <1>4 DEF Layouts

\* A byte that no stamp covers stays; one that a single stamp covers gets its value.
LEMMA StampedOne ==
  ASSUME NEW a, NEW stamps, NEW x \in Offset
  PROVE  /\ (\A k \in DOMAIN stamps : x - a \notin DOMAIN stamps[k])
              => Stamped(a, stamps)[x] = memory[x]
         /\ \A k \in DOMAIN stamps :
              /\ k \in Nat /\ x - a \in DOMAIN stamps[k]
              /\ \A j \in DOMAIN stamps \ {k} : x - a \notin DOMAIN stamps[j]
              => Stamped(a, stamps)[x] = stamps[k][x - a]
<1> DEFINE last == {k \in DOMAIN stamps : x - a \in DOMAIN stamps[k]}
<1>1. Stamped(a, stamps)[x]
        = IF last = {} THEN memory[x]
          ELSE stamps[CHOOSE k \in last : \A j \in last : j <= k][x - a]
  BY DEF Stamped
<1>2. ASSUME \A k \in DOMAIN stamps : x - a \notin DOMAIN stamps[k]
      PROVE  Stamped(a, stamps)[x] = memory[x]
  <2>1. last = {}
    BY <1>2
  <2> QED
    BY <1>1, <2>1
<1>3. ASSUME NEW k \in DOMAIN stamps, k \in Nat, x - a \in DOMAIN stamps[k],
             \A j \in DOMAIN stamps \ {k} : x - a \notin DOMAIN stamps[j]
      PROVE  Stamped(a, stamps)[x] = stamps[k][x - a]
  <2>1. last = {k}
    BY <1>3
  <2> HIDE DEF last
  <2>2. (CHOOSE m \in last : \A j \in last : j <= m) = k
    BY <1>3, <2>1
  <2> QED
    BY <1>1, <2>1, <2>2
<1> QED
  BY <1>2, <1>3

\* After place() the guards of the new block are as verifyGuards expects them, and
\* no byte outside of it has changed.
LEMMA PlaceStamps ==
  ASSUME NEW q \in Requests, Accepted(q), NEW a \in Nat, NEW x \in Offset
  PROVE  LET m == Stamped(a, Stamps(q.layout, OffsetsOf(q), SizeOf(q))) IN
         /\ x \notin Between(a, a + SizeOf(q)) => m[x] = memory[x]
         /\ \A i \in GuardOffsets(q) : x = a + i => m[x] = GuardByte(q, i)
<1> DEFINE s == Stamps(q.layout, OffsetsOf(q), SizeOf(q))
<1>1. /\ \A k \in DOMAIN s : k \in Nat /\ DOMAIN s[k] \subseteq Between(0, SizeOf(q))
      /\ \A i \in GuardOffsets(q) :
           \E k \in DOMAIN s : /\ i \in DOMAIN s[k] /\ s[k][i] = GuardByte(q, i)
                               /\ \A j \in DOMAIN s \ {k} : i \notin DOMAIN s[j]
  BY StampsAre
<1>2. x \in Nat /\ SizeOf(q) \in Nat
  BY ZoneType, AcceptedFits DEF Offset
<1> HIDE DEF s
<1>3. ASSUME x \notin Between(a, a + SizeOf(q)) PROVE Stamped(a, s)[x] = memory[x]
  <2>1. x - a \notin Between(0, SizeOf(q))
    BY <1>2, <1>3 DEF Between
  <2> QED
    BY <1>1, <2>1, StampedOne
<1>4. ASSUME NEW i \in GuardOffsets(q), x = a + i
      PROVE  Stamped(a, s)[x] = GuardByte(q, i)
  <2>1. i \in Between(0, SizeOf(q))
    BY <1>1
  <2>2. i = x - a
    BY <1>2, <1>4, <2>1 DEF Between
  <2>3. PICK k \in DOMAIN s : /\ i \in DOMAIN s[k] /\ s[k][i] = GuardByte(q, i)
                              /\ \A j \in DOMAIN s \ {k} : i \notin DOMAIN s[j]
    BY <1>1
  <2> QED
    BY <1>1, <2>2, <2>3, StampedOne
<1> QED
  BY <1>3, <1>4 DEF s

\* A block that is placed, and its bytes.
LEMMA BlockFacts ==
  ASSUME IInv, NEW b \in blocks
  PROVE  /\ b.at \in Nat /\ b.request \in Requests /\ Accepted(b.request)
         /\ b.size = SizeOf(b.request) /\ b.size \in Nat
         /\ Range(b) \subseteq Offset /\ Payload(b) \subseteq Range(b)
         /\ GuardOffsets(b.request) \subseteq Nat
         /\ \A i \in GuardOffsets(b.request) :
              b.at + i \in Range(b) /\ b.at + i \notin Payload(b)
<1> DEFINE q == b.request
           o == OffsetsOf(q)
<1>1. /\ b.at \in Nat /\ q \in Requests /\ Accepted(q) /\ b.size = SizeOf(q)
      /\ b.at + b.size <= bump /\ bump \in 0 .. ZoneSize
  BY DEF IInv, TypeOK, BlocksInv, RangesDisjoint
<1>2. b.size \in Nat /\ ZoneSize \in Nat /\ b.at + b.size <= ZoneSize
  BY <1>1, AcceptedFits, ZoneType
<1>3. Range(b) \subseteq Offset
  BY <1>1, <1>2 DEF Range, Between, Offset
<1>4. o.user \in Nat /\ UserSize(q) \in Nat /\ o.user + UserSize(q) <= SizeOf(q)
  <2>1. /\ q.layout \in Layouts /\ UserSize(q) \in Nat
        /\ NormalMeta.size \in Nat /\ EnhancedMeta.size \in Nat
    BY <1>1, PlanOf, SizesType
  <2>2. CASE q.layout = "normal"
    <3>1. NormalPlan(q, o)
      BY <1>1, <2>2, PlanOf
    <3> HIDE DEF q, o
    <3>2. QED
      BY <2>1, <3>1 DEF NormalPlan
  <2>3. CASE q.layout = "enhanced"
    <3>1. EnhancedPlan(q, o)
      BY <1>1, <2>3, PlanOf
    <3> HIDE DEF q, o
    <3>2. QED
      BY <2>1, <3>1 DEF EnhancedPlan
  <2>4. CASE q.layout = "static"
    <3>1. StaticPlan(q, o)
      BY <1>1, <2>4, PlanOf
    <3> HIDE DEF q, o
    <3>2. QED
      BY <2>1, <3>1 DEF StaticPlan
  <2> QED
    BY <2>1, <2>2, <2>3, <2>4 DEF Layouts
<1>5. Payload(b) \subseteq Range(b)
  BY <1>1, <1>2, <1>4 DEF Payload, Range, Between
<1>6. GuardOffsets(q) \subseteq Nat
  BY <1>1, <1>2, GuardsAre DEF Between
<1>7. \A i \in GuardOffsets(q) : b.at + i \in Range(b) /\ b.at + i \notin Payload(b)
  BY <1>1, <1>6, GuardsAre
<1> QED
  BY <1>1, <1>2, <1>3, <1>5, <1>6, <1>7

\* No byte belongs to two blocks.
LEMMA OneBlock ==
  ASSUME IInv, NEW b \in blocks, NEW c \in blocks, NEW x, x \in Range(b), x \in Range(c)
  PROVE  b = c
<1>1. /\ b.at \in Nat /\ b.size \in Nat /\ c.at \in Nat /\ c.size \in Nat
  BY BlockFacts
<1>2. b # c => Apart(b.at, b.size, c.at, c.size)
  BY DEF IInv, RangesDisjoint
<1> QED
  BY <1>1, <1>2 DEF Apart, Range, Between

\* There is no block at the start.
LEMMA InitMemory == Init => MemoryInv
  BY DEF Init, MemoryInv, GuardsOK, StrayOK

\* The steps that write to no byte.
LEMMA MemoryStays ==
  ASSUME MemoryInv, UNCHANGED <<memory, blocks, stray>>
  PROVE  MemoryInv'
  BY DEF MemoryInv, GuardsOK, StrayOK, Range

\* place() writes the guards of its own block, in which the program has not been.
LEMMA MemoryPlace ==
  ASSUME IInv, MemoryInv, NEW t \in Threads, Place(t)
  PROVE  MemoryInv'
<1> DEFINE q == request[t]
           a == at[t]
           n == [request |-> q, at |-> a, size |-> SizeOf(q)]
           new == Between(a, a + SizeOf(q))
<1>1. /\ pc[t] = "place" /\ Holding(t) /\ blocks' = blocks \union {n} /\ stray' = stray
      /\ memory' = Stamped(a, Stamps(q.layout, OffsetsOf(q), SizeOf(q)))
  BY DEF Place, Holding
<1>2. q \in Requests /\ Accepted(q) /\ a \in Nat /\ SizeOf(q) \in Nat
  BY <1>1, HoldingRange DEF IInv, ThreadsInv, TypeOK
<1>3. a + SizeOf(q) <= ZoneSize /\ ZoneSize \in Nat
  <2>1. a + SizeOf(q) <= bump /\ bump \in 0 .. ZoneSize /\ ZoneSize \in Nat
    BY <1>1, ZoneType DEF IInv, TypeOK, RangesDisjoint
  <2> HIDE DEF q, a
  <2> QED
    BY <1>2, <2>1
<1>4. ASSUME NEW b \in blocks, NEW x \in Range(b) PROVE x \notin new
  <2>1. Apart(a, SizeOf(q), b.at, b.size)
    BY <1>1 DEF IInv, RangesDisjoint
  <2>2. b.at \in Nat /\ b.size \in Nat
    BY BlockFacts
  <2> HIDE DEF q, a
  <2>3. QED
    BY <1>2, <1>4, <2>1, <2>2 DEF Apart, Range, Between
<1>5. \A x \in stray : x \notin new
  BY <1>4 DEF MemoryInv, StrayOK
<1>6. Range(n) = new /\ n.request = q /\ n.at = a /\ n.size = SizeOf(q)
  BY DEF Range
<1>7. \A x \in new : x \in Offset
  <2> HIDE DEF q, a
  <2> QED
    BY <1>2, <1>3 DEF Between, Offset
<1>8. \A i \in GuardOffsets(q) : i \in Nat /\ a + i \in new
  <2>1. GuardOffsets(q) \subseteq Between(0, SizeOf(q))
    BY <1>2, <1>6, GuardsAre
  <2> HIDE DEF q, a
  <2> QED
    BY <1>2, <2>1 DEF Between
<1> HIDE DEF q, a, n, new
<1>9. ASSUME NEW x \in Offset
      PROVE  /\ x \notin new => memory'[x] = memory[x]
             /\ \A i \in GuardOffsets(q) : x = a + i => memory'[x] = GuardByte(q, i)
  BY <1>1, <1>2, PlaceStamps DEF new
<1>10. ASSUME NEW b \in blocks', NEW i \in GuardOffsets(b.request)
       PROVE  memory'[b.at + i]
                = IF b.at + i \in stray' THEN ByProgram ELSE GuardByte(b.request, i)
  <2>1. CASE b \in blocks
    <3>1. b.at + i \in Range(b) /\ b.at + i \in Offset
      BY <1>10, <2>1, BlockFacts
    <3>2. memory'[b.at + i] = memory[b.at + i]
      BY <1>4, <1>9, <2>1, <3>1
    <3> QED
      BY <1>1, <1>10, <2>1, <3>2 DEF MemoryInv, GuardsOK
  <2>2. CASE b = n
    <3>1. i \in GuardOffsets(q) /\ b.request = q /\ b.at = a
      BY <1>6, <1>10, <2>2
    <3>2. a + i \in new /\ a + i \in Offset
      BY <1>7, <1>8, <3>1
    <3>3. memory'[a + i] = GuardByte(q, i) /\ a + i \notin stray'
      BY <1>1, <1>5, <1>9, <3>1, <3>2
    <3> QED
      BY <3>1, <3>3
  <2> QED
    BY <1>1, <2>1, <2>2
<1>11. \A x \in stray' : \E b \in blocks' : x \in Range(b)
  BY <1>1 DEF MemoryInv, StrayOK
<1> QED
  BY <1>10, <1>11 DEF MemoryInv, GuardsOK, StrayOK, Range

\* A payload holds no guard byte, not of its own block nor of another one.
LEMMA MemoryFill ==
  ASSUME IInv, MemoryInv, NEW t \in Threads, Fill(t)
  PROVE  MemoryInv'
<1>1. PICK c \in blocks :
        memory' = [x \in Offset |-> IF x \in Payload(c) THEN ByProgram ELSE memory[x]]
  BY DEF Fill
<1>2. blocks' = blocks /\ stray' = stray
  BY DEF Fill
<1>3. ASSUME NEW b \in blocks, NEW i \in GuardOffsets(b.request)
      PROVE  memory'[b.at + i] = memory[b.at + i]
  <2>1. b.at + i \in Range(b) /\ b.at + i \in Offset /\ b.at + i \notin Payload(b)
    BY <1>3, BlockFacts
  <2>2. b.at + i \notin Payload(c)
    <3>1. Payload(c) \subseteq Range(c)
      BY BlockFacts
    <3> QED
      BY <2>1, <3>1, OneBlock
  <2> QED
    BY <1>1, <2>1, <2>2
<1> QED
  BY <1>2, <1>3 DEF MemoryInv, GuardsOK, StrayOK, Range

\* A stray write is remembered with the byte it hits.
LEMMA MemoryStray ==
  ASSUME IInv, MemoryInv, NEW c \in blocks, Stray(c)
  PROVE  MemoryInv'
<1>1. PICK x \in Range(c) :
        memory' = [memory EXCEPT ![x] = ByProgram] /\ stray' = stray \union {x}
  BY DEF Stray
<1>2. blocks' = blocks /\ DOMAIN memory = Offset
  BY DEF Stray, IInv, TypeOK
<1>3. ASSUME NEW b \in blocks, NEW i \in GuardOffsets(b.request)
      PROVE  memory'[b.at + i]
               = IF b.at + i \in stray' THEN ByProgram ELSE GuardByte(b.request, i)
  <2>1. b.at + i \in Offset
    BY <1>3, BlockFacts
  <2>2. memory'[b.at + i] = IF b.at + i = x THEN ByProgram ELSE memory[b.at + i]
    BY <1>1, <1>2, <2>1
  <2>3. memory[b.at + i] = IF b.at + i \in stray THEN ByProgram ELSE GuardByte(b.request, i)
    BY <1>3 DEF MemoryInv, GuardsOK
  <2> QED
    BY <1>1, <2>2, <2>3
<1>4. \A y \in stray' : \E b \in blocks' : y \in Range(b)
  BY <1>1, <1>2 DEF MemoryInv, StrayOK
<1> QED
  BY <1>2, <1>3, <1>4 DEF MemoryInv, GuardsOK, StrayOK, Range

\* MemoryInv is inductive, given IInv.
LEMMA MemoryStep == IInv /\ MemoryInv /\ [Next]_vars => MemoryInv'
<1> SUFFICES ASSUME IInv, MemoryInv, [Next]_vars PROVE MemoryInv'
  OBVIOUS
<1>1. ASSUME NEW t \in Threads,
             \/ \E q \in Requests : Allocate(t, q)
             \/ ReserveFails(t) \/ Reserve(t) \/ ReserveAgain(t)
             \/ CommitQuery(t) \/ CommitEnds(t) \/ Commit(t)
      PROVE  UNCHANGED <<memory, blocks, stray>>
  BY <1>1 DEF Allocate, ReserveFails, Reserve, ReserveAgain, CommitQuery, CommitEnds, Commit
<1>2. ASSUME UNCHANGED vars PROVE UNCHANGED <<memory, blocks, stray>>
  BY <1>2 DEF vars
<1> QED
  BY <1>1, <1>2, MemoryStays, MemoryPlace, MemoryFill, MemoryStray DEF Next, ThreadStep

\* What verifyGuards says of a block.
LEMMA IntactIs ==
  ASSUME IInv, MemoryInv, NEW b \in blocks
  PROVE  Intact(b) <=> stray \cap (Range(b) \ (Payload(b) \union MetaBytes(b))) = {}
<1> DEFINE q == b.request
           bytes == [i \in Between(0, b.size) |-> memory[b.at + i]]
           guarded == Range(b) \ (Payload(b) \union MetaBytes(b))
<1>1. /\ b.at \in Nat /\ q \in Requests /\ Accepted(q) /\ b.size = SizeOf(q)
      /\ b.size \in Nat /\ GuardOffsets(q) \subseteq Nat
  BY BlockFacts
<1>2. Intact(b) <=> \A i \in GuardOffsets(q) : bytes[i] = GuardByte(q, i)
  <2>1. Intact(b) <=> VerifyGuards(bytes, q.layout, OffsetsOf(q), SizeOf(q))
    BY <1>1 DEF Intact
  <2> HIDE DEF q, bytes
  <2> QED
    BY <1>1, <2>1, VerifyIs
<1>3. \A i \in Nat : i \in GuardOffsets(q) <=> b.at + i \in guarded
  BY <1>1, GuardsAre
<1>4. \A i \in GuardOffsets(q) :
        bytes[i] = IF b.at + i \in stray THEN ByProgram ELSE GuardByte(q, i)
  <2>1. GuardOffsets(q) \subseteq Between(0, b.size)
    BY <1>1, GuardsAre
  <2> QED
    BY <2>1 DEF MemoryInv, GuardsOK
<1>5. \A i \in GuardOffsets(q) : GuardByte(q, i) # ByProgram
  BY DEF GuardByte, Redzone, Canary, ByProgram
<1>6. ASSUME NEW x \in guarded PROVE \E i \in GuardOffsets(q) : x = b.at + i
  <2>1. x \in Range(b)
    OBVIOUS
  <2>2. x - b.at \in Nat /\ x = b.at + (x - b.at)
    BY <1>1, <2>1 DEF Range, Between
  <2> QED
    BY <1>3, <1>6, <2>2
<1> HIDE DEF q, bytes, guarded
<1>7. Intact(b) <=> \A i \in GuardOffsets(q) : b.at + i \notin stray
  BY <1>2, <1>4, <1>5
<1>8. Intact(b) <=> stray \cap guarded = {}
  BY <1>1, <1>3, <1>6, <1>7
<1> QED
  BY <1>8 DEF guarded

\* verifyGuards reports a block exactly when the program has written to one of its
\* guard bytes, whatever the sizes, the layouts and the neighbours of the block
\* (MemoryLayouts.h:83-86, 180-185, 278-283).
THEOREM GuardsAlwaysReport == Spec => []GuardsReport
<1>1. IInv /\ MemoryInv => GuardsReport
  BY IntactIs DEF GuardsReport
<1> QED
  BY <1>1, InitMemory, MemoryStep, GuardedInductive, PTL DEF Spec
=============================================================================
