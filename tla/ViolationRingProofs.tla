-------------------------- MODULE ViolationRingProofs --------------------------
(***************************************************************************)
(* The ring of violations implements the bounded stack, for every capacity *)
(* and every set of violations.  The lemmas speak of the contents c, the   *)
(* top t and the count k of a ring, so that they hold before and after a   *)
(* step.                                                                   *)
(***************************************************************************)
EXTENDS ViolationRing, TLAPS

Content == [Slots -> Entries \union {NoEntry}]

\* Where the i-th of the k entries below the top t is.
At(t, k, i) == (t + Capacity - k + i - 1) % Capacity

\* The k entries below the top t, the oldest one first.
Below(c, t, k) == [i \in 1 .. k |-> c[At(t, k, i)]]

After(t)  == (t + 1) % Capacity
Before(t) == (t + Capacity - 1) % Capacity

\* An index below twice the capacity wraps at most once.
LEMMA ModOnce ==
  ASSUME NEW x \in 0 .. 2 * Capacity - 1
  PROVE  /\ x % Capacity = IF x < Capacity THEN x ELSE x - Capacity
         /\ x % Capacity \in Slots
<1>1. CASE x < Capacity
  BY <1>1, CapacityAssumption DEF Slots
<1>2. CASE ~ (x < Capacity)
  BY <1>2, CapacityAssumption DEF Slots
<1>3. QED
  BY <1>1, <1>2

\* Where m_Top goes.
LEMMA TopMoves ==
  ASSUME NEW t \in Slots
  PROVE  /\ After(t) = IF t + 1 < Capacity THEN t + 1 ELSE 0
         /\ Before(t) = IF t = 0 THEN Capacity - 1 ELSE t - 1
         /\ After(t) \in Slots /\ Before(t) \in Slots
<1> DEFINE a == t + 1
           b == t + Capacity - 1
<1>1. a \in 0 .. 2 * Capacity - 1 /\ b \in 0 .. 2 * Capacity - 1
  BY CapacityAssumption DEF Slots
<1>2. /\ a % Capacity = IF a < Capacity THEN a ELSE a - Capacity
      /\ a % Capacity \in Slots
  BY <1>1, ModOnce
<1>3. /\ b % Capacity = IF b < Capacity THEN b ELSE b - Capacity
      /\ b % Capacity \in Slots
  BY <1>1, ModOnce
<1>4. After(t) = a % Capacity /\ Before(t) = b % Capacity
  BY DEF After, Before
<1> HIDE DEF a, b
<1>5. After(t) \in Slots /\ Before(t) \in Slots
  BY <1>2, <1>3, <1>4
<1>6. /\ After(t) = IF a < Capacity THEN a ELSE a - Capacity
      /\ Before(t) = IF b < Capacity THEN b ELSE b - Capacity
  BY <1>2, <1>3, <1>4
<1>7. QED
  BY <1>5, <1>6, CapacityAssumption DEF Slots, a, b

\* The place of an entry, without a remainder.
LEMMA PlaceOfEntry ==
  ASSUME NEW t \in Slots, NEW k \in 0 .. Capacity, NEW i \in 1 .. k
  PROVE  /\ At(t, k, i) \in Slots
         /\ At(t, k, i) = IF t + i - 1 < k THEN t + Capacity - k + i - 1 ELSE t - k + i - 1
<1> DEFINE x == t + Capacity - k + i - 1
<1>1. x \in 0 .. 2 * Capacity - 1
  BY CapacityAssumption DEF Slots
<1>2. x % Capacity = (IF x < Capacity THEN x ELSE x - Capacity) /\ x % Capacity \in Slots
  BY <1>1, ModOnce
<1>3. At(t, k, i) = x % Capacity
  BY DEF At
<1> HIDE DEF x
<1>4. At(t, k, i) = IF x < Capacity THEN x ELSE x - Capacity
  BY <1>2, <1>3
<1>5. At(t, k, i) \in Slots
  BY <1>2, <1>3
<1>6. QED
  BY <1>4, <1>5, CapacityAssumption DEF Slots, x

\* A push moves no entry: the ones of before are one place further from the top,
\* and the newest one is in the old top.
LEMMA PlaceAfterPush ==
  ASSUME NEW t \in Slots, NEW k \in 0 .. Capacity - 1
  PROVE  /\ \A i \in 1 .. k : At(After(t), k + 1, i) = At(t, k, i) /\ At(t, k, i) # t
         /\ At(After(t), k + 1, k + 1) = t
<1>1. After(t) \in Slots /\ k + 1 \in 0 .. Capacity /\ k \in 0 .. Capacity
  BY TopMoves, CapacityAssumption
<1>2. After(t) = IF t + 1 < Capacity THEN t + 1 ELSE 0
  BY TopMoves
<1>3. ASSUME NEW i \in 1 .. k
      PROVE  At(After(t), k + 1, i) = At(t, k, i) /\ At(t, k, i) # t
  <2>1. i \in 1 .. k + 1
    BY CapacityAssumption
  <2>2. At(t, k, i) = IF t + i - 1 < k THEN t + Capacity - k + i - 1 ELSE t - k + i - 1
    BY <1>1, PlaceOfEntry
  <2>3. At(After(t), k + 1, i) =
          IF After(t) + i - 1 < k + 1 THEN After(t) + Capacity - (k + 1) + i - 1
          ELSE After(t) - (k + 1) + i - 1
    BY <1>1, <2>1, PlaceOfEntry
  <2>4. QED
    BY <1>2, <2>2, <2>3, CapacityAssumption DEF Slots
<1>4. At(After(t), k + 1, k + 1) = t
  <2>1. k + 1 \in 1 .. k + 1
    BY CapacityAssumption
  <2>2. At(After(t), k + 1, k + 1) =
          IF After(t) + (k + 1) - 1 < k + 1 THEN After(t) + Capacity - (k + 1) + (k + 1) - 1
          ELSE After(t) - (k + 1) + (k + 1) - 1
    BY <1>1, <2>1, PlaceOfEntry
  <2>3. QED
    BY <1>2, <2>2, CapacityAssumption DEF Slots
<1>5. QED
  BY <1>3, <1>4

\* In a full ring the oldest entry is in the top, where the next one goes.
LEMMA PlaceAfterEviction ==
  ASSUME NEW t \in Slots
  PROVE  /\ \A i \in 1 .. Capacity - 1 :
               /\ At(After(t), Capacity, i) = At(t, Capacity, i + 1)
               /\ At(t, Capacity, i + 1) # t
         /\ At(After(t), Capacity, Capacity) = t
<1>1. After(t) \in Slots /\ Capacity \in 0 .. Capacity
  BY TopMoves, CapacityAssumption
<1>2. After(t) = IF t + 1 < Capacity THEN t + 1 ELSE 0
  BY TopMoves
<1>3. ASSUME NEW i \in 1 .. Capacity - 1
      PROVE  At(After(t), Capacity, i) = At(t, Capacity, i + 1) /\ At(t, Capacity, i + 1) # t
  <2>1. i \in 1 .. Capacity /\ i + 1 \in 1 .. Capacity
    BY CapacityAssumption
  <2>2. At(t, Capacity, i + 1) =
          IF t + (i + 1) - 1 < Capacity THEN t + Capacity - Capacity + (i + 1) - 1
          ELSE t - Capacity + (i + 1) - 1
    BY <1>1, <2>1, PlaceOfEntry
  <2>3. At(After(t), Capacity, i) =
          IF After(t) + i - 1 < Capacity THEN After(t) + Capacity - Capacity + i - 1
          ELSE After(t) - Capacity + i - 1
    BY <1>1, <2>1, PlaceOfEntry
  <2>4. QED
    BY <1>2, <2>2, <2>3, CapacityAssumption DEF Slots
<1>4. At(After(t), Capacity, Capacity) = t
  <2>1. Capacity \in 1 .. Capacity
    BY CapacityAssumption
  <2>2. At(After(t), Capacity, Capacity) =
          IF After(t) + Capacity - 1 < Capacity THEN After(t) + Capacity - Capacity + Capacity - 1
          ELSE After(t) - Capacity + Capacity - 1
    BY <1>1, <2>1, PlaceOfEntry
  <2>3. QED
    BY <1>2, <2>2, CapacityAssumption DEF Slots
<1>5. QED
  BY <1>3, <1>4

\* A pop takes the entry below the top and leaves the others where they are.
LEMMA PlaceAfterPop ==
  ASSUME NEW t \in Slots, NEW k \in 1 .. Capacity
  PROVE  /\ \A i \in 1 .. k - 1 : At(Before(t), k - 1, i) = At(t, k, i)
         /\ At(t, k, k) = Before(t)
<1>1. Before(t) \in Slots /\ k - 1 \in 0 .. Capacity /\ k \in 0 .. Capacity
  BY TopMoves, CapacityAssumption
<1>2. Before(t) = IF t = 0 THEN Capacity - 1 ELSE t - 1
  BY TopMoves
<1>3. ASSUME NEW i \in 1 .. k - 1
      PROVE  At(Before(t), k - 1, i) = At(t, k, i)
  <2>1. i \in 1 .. k
    BY CapacityAssumption
  <2>2. At(t, k, i) = IF t + i - 1 < k THEN t + Capacity - k + i - 1 ELSE t - k + i - 1
    BY <1>1, <2>1, PlaceOfEntry
  <2>3. At(Before(t), k - 1, i) =
          IF Before(t) + i - 1 < k - 1 THEN Before(t) + Capacity - (k - 1) + i - 1
          ELSE Before(t) - (k - 1) + i - 1
    BY <1>1, PlaceOfEntry
  <2>4. QED
    BY <1>2, <2>2, <2>3, CapacityAssumption DEF Slots
<1>4. At(t, k, k) = Before(t)
  <2>1. k \in 1 .. k
    BY CapacityAssumption
  <2>2. At(t, k, k) = IF t + k - 1 < k THEN t + Capacity - k + k - 1 ELSE t - k + k - 1
    BY <1>1, <2>1, PlaceOfEntry
  <2>3. QED
    BY <1>2, <2>2, CapacityAssumption DEF Slots
<1>5. QED
  BY <1>3, <1>4

-----------------------------------------------------------------------------
LEMMA BelowIsSequence ==
  ASSUME NEW c \in Content, NEW t \in Slots, NEW k \in 0 .. Capacity
  PROVE  Below(c, t, k) \in Seq(Entries \union {NoEntry}) /\ Len(Below(c, t, k)) = k
<1>1. \A i \in 1 .. k : c[At(t, k, i)] \in Entries \union {NoEntry}
  BY PlaceOfEntry DEF Content
<1>2. k \in Nat
  BY CapacityAssumption
<1>3. QED
  BY <1>1, <1>2 DEF Below

LEMMA AppendByIndex ==
  ASSUME NEW S, NEW q \in Seq(S), NEW x \in S
  PROVE  Append(q, x) = [i \in 1 .. Len(q) + 1 |-> Append(q, x)[i]]
<1> DEFINE r == Append(q, x)
<1>1. r \in Seq(S) /\ Len(r) = Len(q) + 1
  OBVIOUS
<1> HIDE DEF r
<1>2. r = [i \in 1 .. Len(r) |-> r[i]]
  BY <1>1
<1>3. QED
  BY <1>1, <1>2 DEF r

LEMMA PushAppends ==
  ASSUME NEW c \in Content, NEW t \in Slots, NEW k \in 0 .. Capacity - 1, NEW e \in Entries
  PROVE  Below([c EXCEPT ![t] = e], After(t), k + 1) = Append(Below(c, t, k), e)
<1> DEFINE d == [c EXCEPT ![t] = e]
           s == Below(c, t, k)
<1>1. k \in Nat /\ k \in 0 .. Capacity
  BY CapacityAssumption
<1>2. s \in Seq(Entries \union {NoEntry}) /\ Len(s) = k
  BY <1>1, BelowIsSequence
<1>3. ASSUME NEW i \in 1 .. k + 1
      PROVE  d[At(After(t), k + 1, i)] = Append(s, e)[i]
  <2>1. CASE i \in 1 .. k
    <3>1. At(t, k, i) \in Slots
      BY <1>1, <2>1, PlaceOfEntry
    <3>2. d[At(After(t), k + 1, i)] = c[At(t, k, i)]
      BY <2>1, <3>1, PlaceAfterPush DEF Content
    <3>3. s[i] = c[At(t, k, i)]
      BY <2>1 DEF Below
    <3> HIDE DEF s
    <3>4. Append(s, e)[i] = s[i]
      BY <1>1, <1>2, <2>1
    <3>5. QED
      BY <3>2, <3>3, <3>4
  <2>2. CASE i = k + 1
    <3>1. d[At(After(t), k + 1, i)] = e
      BY <2>2, PlaceAfterPush DEF Content
    <3> HIDE DEF s
    <3>2. Append(s, e)[i] = e
      BY <1>1, <1>2, <2>2
    <3>3. QED
      BY <3>1, <3>2
  <2>3. i \in 1 .. k \/ i = k + 1
    BY <1>1
  <2>4. QED
    BY <2>1, <2>2, <2>3
<1>4. Below(d, After(t), k + 1) = [i \in 1 .. k + 1 |-> d[At(After(t), k + 1, i)]]
  BY DEF Below
<1>5. Append(s, e) = [i \in 1 .. k + 1 |-> Append(s, e)[i]]
  <2> HIDE DEF s
  <2>1. e \in Entries \union {NoEntry}
    OBVIOUS
  <2>2. Append(s, e) = [i \in 1 .. Len(s) + 1 |-> Append(s, e)[i]]
    BY <1>2, <2>1, AppendByIndex
  <2>3. QED
    BY <1>2, <2>2
<1>6. QED
  BY <1>3, <1>4, <1>5

LEMMA PushEvicts ==
  ASSUME NEW c \in Content, NEW t \in Slots, NEW e \in Entries
  PROVE  Below([c EXCEPT ![t] = e], After(t), Capacity) = Append(Tail(Below(c, t, Capacity)), e)
<1> DEFINE d == [c EXCEPT ![t] = e]
           s == Below(c, t, Capacity)
           r == Tail(s)
<1>1. Capacity \in Nat /\ Capacity \in 0 .. Capacity /\ Capacity # 0
  BY CapacityAssumption
<1>2. s \in Seq(Entries \union {NoEntry}) /\ Len(s) = Capacity
  BY <1>1, BelowIsSequence
<1>3. /\ r \in Seq(Entries \union {NoEntry}) /\ Len(r) = Capacity - 1
      /\ \A i \in 1 .. Capacity - 1 : r[i] = s[i + 1]
  <2> HIDE DEF s
  <2>1. QED
    BY <1>1, <1>2
<1>4. ASSUME NEW i \in 1 .. Capacity
      PROVE  d[At(After(t), Capacity, i)] = Append(r, e)[i]
  <2>1. CASE i \in 1 .. Capacity - 1
    <3>1. i + 1 \in 1 .. Capacity
      BY <1>1, <2>1
    <3>2. At(t, Capacity, i + 1) \in Slots
      BY <1>1, <3>1, PlaceOfEntry
    <3>3. d[At(After(t), Capacity, i)] = c[At(t, Capacity, i + 1)]
      BY <2>1, <3>2, PlaceAfterEviction DEF Content
    <3>4. s[i + 1] = c[At(t, Capacity, i + 1)]
      BY <3>1 DEF Below
    <3> HIDE DEF s, r
    <3>5. Append(r, e)[i] = s[i + 1]
      BY <1>1, <1>3, <2>1
    <3>6. QED
      BY <3>3, <3>4, <3>5
  <2>2. CASE i = Capacity
    <3>1. d[At(After(t), Capacity, i)] = e
      BY <2>2, PlaceAfterEviction DEF Content
    <3> HIDE DEF s, r
    <3>2. Append(r, e)[i] = e
      BY <1>1, <1>3, <2>2
    <3>3. QED
      BY <3>1, <3>2
  <2>3. i \in 1 .. Capacity - 1 \/ i = Capacity
    BY <1>1
  <2>4. QED
    BY <2>1, <2>2, <2>3
<1>5. Below(d, After(t), Capacity) = [i \in 1 .. Capacity |-> d[At(After(t), Capacity, i)]]
  BY DEF Below
<1>6. Append(r, e) = [i \in 1 .. Capacity |-> Append(r, e)[i]]
  <2> HIDE DEF s, r
  <2>1. e \in Entries \union {NoEntry} /\ Capacity = Len(r) + 1
    BY <1>1, <1>3
  <2>2. Append(r, e) = [i \in 1 .. Len(r) + 1 |-> Append(r, e)[i]]
    BY <1>3, <2>1, AppendByIndex
  <2>3. QED
    BY <2>1, <2>2
<1>7. QED
  BY <1>4, <1>5, <1>6

LEMMA PopShortens ==
  ASSUME NEW c \in Content, NEW t \in Slots, NEW k \in 1 .. Capacity
  PROVE  /\ Below(c, Before(t), k - 1) = SubSeq(Below(c, t, k), 1, Len(Below(c, t, k)) - 1)
         /\ c[Before(t)] = Below(c, t, k)[Len(Below(c, t, k))]
<1> DEFINE s == Below(c, t, k)
<1>1. k \in Nat /\ k # 0 /\ k \in 0 .. Capacity
  BY CapacityAssumption
<1>2. s \in Seq(Entries \union {NoEntry}) /\ Len(s) = k
  BY <1>1, BelowIsSequence
<1>3. \A i \in 1 .. k : s[i] = c[At(t, k, i)]
  BY DEF Below
<1>4. Below(c, Before(t), k - 1) = [i \in 1 .. k - 1 |-> c[At(Before(t), k - 1, i)]]
  BY DEF Below
<1>5. \A i \in 1 .. k - 1 : c[At(Before(t), k - 1, i)] = s[i]
  BY <1>1, <1>3, PlaceAfterPop
<1>6. c[Before(t)] = s[k]
  BY <1>1, <1>3, PlaceAfterPop
<1> HIDE DEF s
<1>7. SubSeq(s, 1, k - 1) = [i \in 1 .. k - 1 |-> s[i]]
  BY <1>1, <1>2
<1>8. Below(c, Before(t), k - 1) = SubSeq(s, 1, k - 1)
  BY <1>4, <1>5, <1>7
<1>9. QED
  BY <1>2, <1>6, <1>8 DEF s

-----------------------------------------------------------------------------
LEMMA TypeInit == RingInit => RingTypeOK
  BY CapacityAssumption DEF RingInit, RingTypeOK, Slots

LEMMA TypeStep ==
  ASSUME RingTypeOK, [RingNext]_ringVars
  PROVE  RingTypeOK'
<1>1. ASSUME NEW e \in Entries, PushViolation(e) PROVE RingTypeOK'
  <2>1. top' \in Slots
    BY <1>1, TopMoves DEF PushViolation, RingTypeOK, After
  <2>2. entries' \in [Slots -> Entries \union {NoEntry}]
    BY <1>1 DEF PushViolation, RingTypeOK
  <2>3. QED
    BY <1>1, <2>1, <2>2, CapacityAssumption DEF PushViolation, RingTypeOK
<1>2. CASE PopNothing
  BY <1>2 DEF PopNothing, RingTypeOK
<1>3. CASE PopViolation
  <2>1. top' \in Slots
    BY <1>3, TopMoves DEF PopViolation, RingTypeOK, Before
  <2>2. QED
    BY <1>3, <2>1, CapacityAssumption DEF PopViolation, RingTypeOK
<1>4. CASE UNCHANGED ringVars
  BY <1>4 DEF ringVars, RingTypeOK
<1>5. QED
  BY <1>1, <1>2, <1>3, <1>4 DEF RingNext

\* The variables of the ring have their types: m_Top stays inside the ring and
\* m_Count at most at its capacity (Violation.cpp:42-60).
THEOREM RingTypeCorrect == RingSpec => []RingTypeOK
<1>1. RingInit => RingTypeOK
  BY TypeInit
<1>2. RingTypeOK /\ [RingNext]_ringVars => RingTypeOK'
  BY TypeStep
<1>3. QED
  BY <1>1, <1>2, PTL DEF RingSpec

Held == [i \in 1 .. count |-> entries[SlotOf(i)]]

LEMMA HeldIsBelow == Held = Below(entries, top, count)
  BY DEF Held, Below, SlotOf, At

LEMMA HeldAfter == Held' = Below(entries', top', count')
  BY DEF Held, Below, SlotOf, At

LEMMA PushImplements ==
  ASSUME RingTypeOK, NEW e \in Entries, PushViolation(e)
  PROVE  Stack!Push(e)
<1>1. entries \in Content /\ top \in Slots /\ count \in 0 .. Capacity
  BY DEF RingTypeOK, Content
<1>2. entries' = [entries EXCEPT ![top] = e] /\ top' = After(top) /\ out' = out
  BY DEF PushViolation, After
<1>3. Len(Held) = count
  BY <1>1, BelowIsSequence, HeldIsBelow
<1>4. CASE count < Capacity
  <2>1. count' = count + 1 /\ count \in 0 .. Capacity - 1
    BY <1>1, <1>4, CapacityAssumption DEF PushViolation
  <2>2. Held' = Append(Held, e)
    BY <1>1, <1>2, <2>1, PushAppends, HeldIsBelow, HeldAfter
  <2>3. QED
    BY <1>2, <1>3, <1>4, <2>2 DEF Stack!Push, Held
<1>5. CASE ~ (count < Capacity)
  <2>1. count' = Capacity /\ count = Capacity
    BY <1>1, <1>5, CapacityAssumption DEF PushViolation
  <2>2. Held' = Append(Tail(Held), e)
    BY <1>1, <1>2, <2>1, PushEvicts, HeldIsBelow, HeldAfter
  <2>3. QED
    BY <1>2, <1>3, <1>5, <2>2 DEF Stack!Push, Held
<1>6. QED
  BY <1>4, <1>5

LEMMA PopImplements ==
  ASSUME RingTypeOK, PopViolation
  PROVE  Stack!Pop
<1>1. entries \in Content /\ top \in Slots /\ count \in 1 .. Capacity
  BY CapacityAssumption DEF RingTypeOK, Content, PopViolation
<1>2. /\ entries' = entries /\ top' = Before(top) /\ count' = count - 1
      /\ out' = entries[Before(top)]
  BY DEF PopViolation, Before
<1>3. Len(Held) = count /\ Held # <<>>
  <2>1. count \in 0 .. Capacity /\ count # 0
    BY <1>1, CapacityAssumption
  <2>2. Held \in Seq(Entries \union {NoEntry}) /\ Len(Held) = count
    BY <1>1, <2>1, BelowIsSequence, HeldIsBelow
  <2>3. QED
    BY <2>1, <2>2
<1>4. Held' = SubSeq(Held, 1, Len(Held) - 1)
  BY <1>1, <1>2, PopShortens, HeldIsBelow, HeldAfter
<1>5. out' = Held[Len(Held)]
  BY <1>1, <1>2, PopShortens, HeldIsBelow
<1>6. QED
  BY <1>3, <1>4, <1>5 DEF Stack!Pop, Held

\* A pop of an empty ring is a pop of an empty stack.
LEMMA PopNothingImplements ==
  ASSUME RingTypeOK, PopNothing
  PROVE  Stack!Pop
<1>1. count = 0 /\ out' = NoEntry /\ Held = <<>> /\ Held' = Held
  BY DEF PopNothing, Held, SlotOf
<1>2. QED
  BY <1>1 DEF Stack!Pop, Held

\* Pushing and popping violations, around the ring as often as it comes, is
\* pushing and popping on a stack that evicts its oldest entry when it is full
\* (Violation.cpp:42-60, README.md:144).
THEOREM RingIsStack == RingSpec => RefinesViolations
<1>1. RingInit => Stack!Init
  <2>1. ASSUME RingInit PROVE Held = <<>> /\ out = NoEntry
    BY <2>1 DEF RingInit, Held
  <2>2. QED
    BY <2>1 DEF Stack!Init, Held
<1>2. RingTypeOK /\ [RingNext]_ringVars => [Stack!Next]_<<Held, out>>
  <2> SUFFICES ASSUME RingTypeOK, [RingNext]_ringVars
               PROVE  [Stack!Next]_<<Held, out>>
    OBVIOUS
  <2>1. ASSUME NEW e \in Entries, PushViolation(e) PROVE Stack!Next
    BY <2>1, PushImplements DEF Stack!Next
  <2>2. CASE PopViolation
    BY <2>2, PopImplements DEF Stack!Next
  <2>3. CASE PopNothing
    BY <2>3, PopNothingImplements DEF Stack!Next
  <2>4. CASE UNCHANGED ringVars
    BY <2>4 DEF ringVars, Held, SlotOf
  <2>5. QED
    BY <2>1, <2>2, <2>3, <2>4 DEF RingNext
<1>3. RingTypeOK /\ [RingNext]_ringVars
        => [Stack!Next]_<<[i \in 1 .. count |-> entries[SlotOf(i)]], out>>
  BY <1>2 DEF Held
<1>4. QED
  BY <1>1, <1>3, RingTypeCorrect, PTL DEF RingSpec, RefinesViolations, Stack!Spec
=============================================================================
