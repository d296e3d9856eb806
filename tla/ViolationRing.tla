----------------------------- MODULE ViolationRing -----------------------------
(***************************************************************************)
(* The violations of one thread (Violation.cpp): a thread-local ring in    *)
(* which m_Top is where the next entry goes and m_Count says how many      *)
(* entries before it are still there.  Each thread has its own.            *)
(***************************************************************************)
EXTENDS Integers, Sequences

CONSTANTS
  Entries,        \* violations
  Capacity,       \* VIOLATION_STACK_CAPACITY
  NoEntry

ASSUME CapacityAssumption == Capacity \in Nat \ {0}
ASSUME EntryAssumption == NoEntry \notin Entries

VARIABLES
  entries,        \* m_Entries
  top,            \* m_Top
  count,          \* m_Count
  out             \* r_Out of the last popViolation, NoEntry if it returned false

ringVars == <<entries, top, count, out>>

Slots == 0 .. Capacity - 1

RingInit ==
  /\ entries = [s \in Slots |-> NoEntry]
  /\ top = 0
  /\ count = 0
  /\ out = NoEntry

\* Mutant: the count goes on when the ring is full.
PushUncapped(e) ==
  /\ entries' = [entries EXCEPT ![top] = e]
  /\ top' = (top + 1) % Capacity
  /\ count' = count + 1
  /\ UNCHANGED out

PushViolation(e) ==
  /\ entries' = [entries EXCEPT ![top] = e]
  /\ top' = (top + 1) % Capacity
  /\ count' = IF count < Capacity THEN count + 1 ELSE count
  /\ UNCHANGED out

PopNothing ==
  /\ count = 0
  /\ out' = NoEntry
  /\ UNCHANGED <<entries, top, count>>

PopViolation ==
  /\ count # 0
  /\ top' = (top + Capacity - 1) % Capacity
  /\ out' = entries[top']
  /\ count' = count - 1
  /\ UNCHANGED entries

RingNext ==
  \/ \E e \in Entries : PushViolation(e)
  \/ PopNothing
  \/ PopViolation

RingSpec == RingInit /\ [][RingNext]_ringVars

-----------------------------------------------------------------------------
(* Properties *)

\* Every variable has its type: m_Count stays within the ring (Violation.cpp:46).
RingTypeOK ==
  /\ entries \in [Slots -> Entries \union {NoEntry}]
  /\ top \in Slots
  /\ count \in 0 .. Capacity
  /\ out \in Entries \union {NoEntry}

\* The slot of the i-th of the entries that are still there.
SlotOf(i) == (top + Capacity - count + i - 1) % Capacity

Stack == INSTANCE BoundedStack WITH stack <- [i \in 1 .. count |-> entries[SlotOf(i)]]

\* Pushes and pops in any order, wrapping around the ring as often as they like,
\* are those of a bounded stack that evicts its oldest entry (Violation.cpp:42-56).
RefinesViolations == Stack!Spec
=============================================================================
