------------------------------ MODULE Statistics ------------------------------
(***************************************************************************)
(* KerbecsStats.h: the counters of bytes and blocks in use, kept with      *)
(* relaxed atomics by statsOnInit (called by AllocationRegistry::insert)   *)
(* and statsOnDestroy (called when a block leaves the quarantine).         *)
(***************************************************************************)
EXTENDS Integers

CONSTANTS
  Callers,        \* threads
  Allocations,    \* blocks that are tracked and retired, once each
  Bytes           \* Bytes[a]: size of a

ASSUME AllocationsAssumption == Allocations # {} /\ Bytes \in [Allocations -> Nat \ {0}]

VARIABLES
  totalAllocated,     \* m_TotalAllocated
  totalFreed,         \* m_TotalFreed
  activeAllocations,  \* m_ActiveAllocations
  activeBytes,        \* m_ActiveBytes
  peakUsage,          \* m_PeakUsage
  highest,            \* the greatest m_ActiveBytes so far
  tracked,            \* tracked[a]: whether a is counted in
  point,              \* control point of each caller
  counts,             \* counts[c]: the block c counts
  mine,               \* mine[c]: activeBytes of statsOnInit
  peak                \* peak[c]: the m_PeakUsage c has read

totals == <<totalAllocated, totalFreed, activeAllocations>>
callerVars == <<point, counts, mine, peak>>
statVars == <<totals, activeBytes, peakUsage, highest, tracked, callerVars>>

Nothing == CHOOSE a \in Allocations : TRUE

StatsInit ==
  /\ totalAllocated = 0 /\ totalFreed = 0 /\ activeAllocations = 0
  /\ activeBytes = 0 /\ peakUsage = 0 /\ highest = 0
  /\ tracked = [a \in Allocations |-> "no"]
  /\ point  = [c \in Callers |-> "out"]
  /\ counts = [c \in Callers |-> Nothing]
  /\ mine   = [c \in Callers |-> 0]
  /\ peak   = [c \in Callers |-> 0]

To(c, label) == point' = [point EXCEPT ![c] = label]

\* The call of c is over, and with it its local variables.
Leave(c) ==
  /\ To(c, "out")
  /\ counts' = [counts EXCEPT ![c] = Nothing]
  /\ mine' = [mine EXCEPT ![c] = 0]
  /\ peak' = [peak EXCEPT ![c] = 0]

-----------------------------------------------------------------------------
(* statsOnInit *)

InitTotals(c, a) ==
  /\ point[c] = "out"
  /\ tracked[a] = "no"
  /\ tracked' = [tracked EXCEPT ![a] = "counting"]
  /\ totalAllocated' = totalAllocated + Bytes[a]
  /\ activeAllocations' = activeAllocations + 1
  /\ counts' = [counts EXCEPT ![c] = a]
  /\ To(c, "bytes")
  /\ UNCHANGED <<totalFreed, activeBytes, peakUsage, highest, mine, peak>>

\* fetch_add, whose result is the value that the peak must not be below.
InitBytes(c) ==
  /\ point[c] = "bytes"
  /\ LET active == activeBytes + Bytes[counts[c]] IN
       /\ activeBytes' = active
       /\ mine' = [mine EXCEPT ![c] = active]
       /\ highest' = IF active > highest THEN active ELSE highest
  /\ To(c, "load")
  /\ UNCHANGED <<totals, peakUsage, tracked, counts, peak>>

InitLoadPeak(c) ==
  /\ point[c] = "load"
  /\ peak' = [peak EXCEPT ![c] = peakUsage]
  /\ To(c, "raise")
  /\ UNCHANGED <<totals, activeBytes, peakUsage, highest, tracked, counts, mine>>

\* The block is counted in, its allocation returns.
InitEnds(c) ==
  /\ tracked' = [tracked EXCEPT ![counts[c]] = "yes"]
  /\ Leave(c)

InitBelowPeak(c) ==
  /\ point[c] = "raise"
  /\ mine[c] <= peak[c]
  /\ InitEnds(c)
  /\ UNCHANGED <<totals, activeBytes, peakUsage, highest>>

\* Mutant: a plain store.
InitStore(c) ==
  /\ point[c] = "raise"
  /\ mine[c] > peak[c]
  /\ peakUsage' = mine[c]
  /\ InitEnds(c)
  /\ UNCHANGED <<totals, activeBytes, highest>>

\* The compare-exchange raises the peak ...
InitRaise(c) ==
  /\ point[c] = "raise"
  /\ mine[c] > peak[c]
  /\ peakUsage = peak[c]
  /\ peakUsage' = mine[c]
  /\ InitEnds(c)
  /\ UNCHANGED <<totals, activeBytes, highest>>

\* ... or reads it again.
InitRaiseAgain(c) ==
  /\ point[c] = "raise"
  /\ mine[c] > peak[c]
  /\ peakUsage # peak[c]
  /\ peak' = [peak EXCEPT ![c] = peakUsage]
  /\ UNCHANGED <<totals, activeBytes, peakUsage, highest, tracked, point, counts, mine>>

-----------------------------------------------------------------------------
(* statsOnDestroy *)

DestroyTotals(c, a) ==
  /\ point[c] = "out"
  /\ tracked[a] = "yes"
  /\ tracked' = [tracked EXCEPT ![a] = "gone"]
  /\ totalFreed' = totalFreed + Bytes[a]
  /\ activeAllocations' = activeAllocations - 1
  /\ counts' = [counts EXCEPT ![c] = a]
  /\ To(c, "subtract")
  /\ UNCHANGED <<totalAllocated, activeBytes, peakUsage, highest, mine, peak>>

DestroyBytes(c) ==
  /\ point[c] = "subtract"
  /\ activeBytes' = activeBytes - Bytes[counts[c]]
  /\ Leave(c)
  /\ UNCHANGED <<totals, peakUsage, highest, tracked>>

CallerStep(c) ==
  \/ \E a \in Allocations : InitTotals(c, a) \/ DestroyTotals(c, a)
  \/ InitBytes(c) \/ InitLoadPeak(c)
  \/ InitBelowPeak(c) \/ InitRaise(c) \/ InitRaiseAgain(c)
  \/ DestroyBytes(c)

StatsNext == \E c \in Callers : CallerStep(c)

StatsSpec == StatsInit /\ [][StatsNext]_statVars

-----------------------------------------------------------------------------
(* Properties *)

\* Every variable has its type; the peak never goes below zero.
StatsTypeOK ==
  /\ {totalAllocated, totalFreed, peakUsage, highest} \subseteq Nat
  /\ {activeAllocations, activeBytes} \subseteq Int
  /\ tracked \in [Allocations -> {"no", "counting", "yes", "gone"}]
  /\ point \in [Callers -> {"out", "bytes", "load", "raise", "subtract"}]
  /\ counts \in [Callers -> Allocations]
  /\ mine \in [Callers -> Int]
  /\ peak \in [Callers -> Nat]

\* When nobody is inside statsOnInit, m_PeakUsage is the high watermark of
\* m_ActiveBytes (KerbecsStats.h:30): no thread has overwritten a higher value
\* with its own, and none was missed while others counted blocks in and out.
PeakIsMaximum ==
  /\ peakUsage <= highest
  /\ (\A c \in Callers : point[c] \notin {"load", "raise"}) => peakUsage = highest
=============================================================================
