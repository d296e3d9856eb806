--------------------------- MODULE StatisticsProofs ---------------------------
(***************************************************************************)
(* The peak of Statistics is the high watermark of the active bytes, for   *)
(* any threads and blocks.                                                 *)
(***************************************************************************)
EXTENDS Statistics, TLAPS

Raising(c) == point[c] \in {"load", "raise"}

\* A thread that is raising the peak has seen no peak that is greater than the
\* one that is there, and as long as the peak is below the highest value there
\* is a thread that brings that value.
PeakInv ==
  /\ StatsTypeOK
  /\ activeBytes <= highest
  /\ peakUsage <= highest
  /\ \A c \in Callers : mine[c] <= highest
  /\ \A c \in Callers : peak[c] <= peakUsage
  /\ peakUsage = highest \/ \E c \in Callers : Raising(c) /\ mine[c] = highest

LEMMA PeakInit == StatsInit => PeakInv
<1>1. Nothing \in Allocations
  BY AllocationsAssumption DEF Nothing
<1>2. StatsInit => StatsTypeOK
  BY <1>1 DEF StatsInit, StatsTypeOK
<1>3. QED
  BY <1>2 DEF StatsInit, PeakInv

LEMMA LeaveTypes ==
  ASSUME NEW c \in Callers, StatsTypeOK, Nothing \in Allocations, Leave(c)
  PROVE  /\ point' \in [Callers -> {"out", "bytes", "load", "raise", "subtract"}]
         /\ counts' \in [Callers -> Allocations]
         /\ mine' \in [Callers -> Int] /\ peak' \in [Callers -> Nat]
         /\ \A d \in Callers \ {c} :
              point'[d] = point[d] /\ mine'[d] = mine[d] /\ peak'[d] = peak[d]
         /\ point'[c] = "out" /\ mine'[c] = 0 /\ peak'[c] = 0
  BY DEF StatsTypeOK, Leave, To

LEMMA PeakStep ==
  ASSUME PeakInv, StatsNext
  PROVE  PeakInv'
<1> USE DEF PeakInv
<1>1. \E c \in Callers : CallerStep(c)
  BY DEF StatsNext
<1>2. PICK c \in Callers : CallerStep(c)
  BY <1>1
<1> USE <1>2
<1>a. ASSUME NEW a \in Allocations PROVE Bytes[a] \in Nat \ {0}
  BY <1>a, AllocationsAssumption
<1>c. counts[c] \in Allocations /\ Nothing \in Allocations
  BY AllocationsAssumption DEF StatsTypeOK, Nothing
<1>3. ASSUME NEW a \in Allocations, InitTotals(c, a) \/ DestroyTotals(c, a)
      PROVE  PeakInv'
  <2>1. StatsTypeOK'
    BY <1>3, <1>a DEF StatsTypeOK, InitTotals, DestroyTotals, To
  <2>2. \A d \in Callers : Raising(d) => Raising(d)'
    BY <1>3 DEF StatsTypeOK, InitTotals, DestroyTotals, To, Raising
  <2>3. QED
    BY <1>3, <2>1, <2>2 DEF InitTotals, DestroyTotals
<1>4. CASE InitBytes(c)
  <2> DEFINE active == activeBytes + Bytes[counts[c]]
  <2>1. active \in Int /\ active > activeBytes
    BY <1>a, <1>c DEF StatsTypeOK
  <2>2. /\ activeBytes' = active
        /\ mine' = [mine EXCEPT ![c] = active]
        /\ highest' = IF active > highest THEN active ELSE highest
        /\ point' = [point EXCEPT ![c] = "load"]
        /\ UNCHANGED <<totals, peakUsage, tracked, counts, peak>>
    BY <1>4 DEF InitBytes, To
  <2>3. highest' \in Nat /\ highest' >= highest /\ highest' >= active
    BY <2>1, <2>2 DEF StatsTypeOK
  <2>4. StatsTypeOK'
    BY <2>1, <2>2, <2>3 DEF StatsTypeOK, totals
  <2>5. \A d \in Callers : mine'[d] <= highest'
    BY <2>1, <2>2, <2>3 DEF StatsTypeOK
  <2>6. peakUsage' = highest' \/ \E d \in Callers : Raising(d)' /\ mine'[d] = highest'
    <3>1. CASE active > highest
      BY <3>1, <2>2 DEF StatsTypeOK, Raising
    <3>2. CASE ~ (active > highest)
      <4>1. highest' = highest
        BY <3>2, <2>2
      <4>2. \A d \in Callers : Raising(d) /\ d # c => Raising(d)' /\ mine'[d] = mine[d]
        BY <2>2 DEF StatsTypeOK, Raising
      <4>3. ~ Raising(c)
        BY <1>4 DEF InitBytes, Raising
      <4>4. QED
        BY <4>1, <4>2, <4>3, <2>2
    <3>3. QED
      BY <3>1, <3>2
  <2>7. peakUsage' <= highest' /\ activeBytes' <= highest'
    BY <2>1, <2>2, <2>3 DEF StatsTypeOK
  <2>8. \A d \in Callers : peak'[d] <= peakUsage'
    BY <2>2
  <2>9. QED
    BY <2>4, <2>5, <2>6, <2>7, <2>8
<1>5. CASE InitLoadPeak(c)
  <2>1. StatsTypeOK'
    BY <1>5 DEF InitLoadPeak, StatsTypeOK, totals, To
  <2>2. \A d \in Callers : Raising(d) => Raising(d)'
    BY <1>5 DEF InitLoadPeak, StatsTypeOK, To, Raising
  <2>3. \A d \in Callers : peak'[d] <= peakUsage'
    BY <1>5 DEF InitLoadPeak, StatsTypeOK
  <2>4. QED
    BY <1>5, <2>1, <2>2, <2>3 DEF InitLoadPeak, totals
<1>6. CASE InitBelowPeak(c)
  <2>1. StatsTypeOK'
    BY <1>6, <1>c, LeaveTypes DEF InitBelowPeak, InitEnds, StatsTypeOK, totals
  <2>2. mine[c] <= peakUsage
    BY <1>6 DEF InitBelowPeak, StatsTypeOK
  <2>3. mine[c] = highest => peakUsage = highest
    BY <2>2 DEF StatsTypeOK
  <2>4. \A d \in Callers \ {c} : Raising(d) => Raising(d)'
    BY <1>6, <1>c, LeaveTypes DEF InitBelowPeak, InitEnds, Raising
  <2>5. QED
    BY <1>6, <1>c, <2>1, <2>3, <2>4, LeaveTypes DEF InitBelowPeak, InitEnds, StatsTypeOK
<1>7. CASE InitRaise(c)
  <2>1. peakUsage' = mine[c] /\ peakUsage < mine[c]
    BY <1>7 DEF InitRaise
  <2>2. StatsTypeOK'
    BY <1>7, <1>c, <2>1, LeaveTypes DEF InitRaise, InitEnds, StatsTypeOK, totals
  <2>3. \A d \in Callers \ {c} : Raising(d) => Raising(d)'
    BY <1>7, <1>c, LeaveTypes DEF InitRaise, InitEnds, Raising
  <2>4. \A d \in Callers : peak'[d] <= peakUsage'
    BY <1>7, <1>c, <2>1, LeaveTypes DEF InitRaise, InitEnds, StatsTypeOK
  <2>5. \A d \in Callers : mine'[d] <= highest'
    BY <1>7, <1>c, LeaveTypes DEF InitRaise, InitEnds, StatsTypeOK
  <2>6. peakUsage' = highest' \/ \E d \in Callers : Raising(d)' /\ mine'[d] = highest'
    <3>1. CASE mine[c] = highest
      BY <3>1, <2>1, <1>7 DEF InitRaise
    <3>2. CASE mine[c] # highest
      BY <3>2, <2>1, <2>3, <1>7, <1>c, LeaveTypes DEF InitRaise, InitEnds, StatsTypeOK
    <3>3. QED
      BY <3>1, <3>2
  <2>7. QED
    BY <1>7, <2>1, <2>2, <2>4, <2>5, <2>6 DEF InitRaise
<1>8. CASE InitRaiseAgain(c)
  <2>1. StatsTypeOK'
    BY <1>8 DEF InitRaiseAgain, StatsTypeOK, totals
  <2>2. \A d \in Callers : peak'[d] <= peakUsage'
    BY <1>8 DEF InitRaiseAgain, StatsTypeOK
  <2>3. QED
    BY <1>8, <2>1, <2>2 DEF InitRaiseAgain, Raising, totals
<1>9. CASE DestroyBytes(c)
  <2>1. activeBytes' \in Int /\ activeBytes' <= activeBytes
    BY <1>9, <1>a, <1>c DEF DestroyBytes, StatsTypeOK
  <2>2. StatsTypeOK'
    BY <1>9, <1>c, <2>1, LeaveTypes DEF DestroyBytes, StatsTypeOK, totals
  <2>3. \A d \in Callers : Raising(d) => d # c /\ Raising(d)'
    BY <1>9, <1>c, LeaveTypes DEF DestroyBytes, Raising
  <2>4. QED
    BY <1>9, <1>c, <2>1, <2>2, <2>3, LeaveTypes DEF DestroyBytes, StatsTypeOK
<1>10. QED
  BY <1>3, <1>4, <1>5, <1>6, <1>7, <1>8, <1>9 DEF CallerStep

LEMMA PeakStutter ==
  ASSUME PeakInv, UNCHANGED statVars
  PROVE  PeakInv'
  BY DEF PeakInv, StatsTypeOK, Raising, statVars, totals, callerVars

\* The invariant holds for any threads and blocks (KerbecsStats.h:45-61).
THEOREM PeakInductive == StatsSpec => []PeakInv
<1>1. PeakInv /\ [StatsNext]_statVars => PeakInv'
  BY PeakStep, PeakStutter
<1>2. QED
  BY <1>1, PeakInit, PTL DEF StatsSpec

\* m_PeakUsage is the high watermark of m_ActiveBytes whenever nobody is inside
\* statsOnInit (KerbecsStats.h:30).
THEOREM PeakIsHighWatermark == StatsSpec => []PeakIsMaximum
<1>1. PeakInv => PeakIsMaximum
  BY DEF PeakInv, PeakIsMaximum, Raising
<1>2. QED
  BY <1>1, PeakInductive, PTL
=============================================================================
