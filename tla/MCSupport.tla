------------------------------ MODULE MCSupport ------------------------------
(***************************************************************************)
(* Small instances for TLC of the three components that stand alone: the   *)
(* guarded blocks of the bump allocators, the statistics and the           *)
(* violations of a thread.  They share no state, so each one runs while    *)
(* the others are in their initial state.                                  *)
(***************************************************************************)
EXTENDS GuardedBlocks, Statistics, ViolationRing, TLC

CONSTANTS t1, t2, c1, c2, c3, a1, a2, a3

MCThreads  == {t1, t2}

\* Blocks of 24, 68 and 18 bytes, and two that overflow, in the block's size and
\* in the count.
MCRequests == {
  [layout |-> "normal",   count |-> 3,   size |-> 1, align |-> 1],
  [layout |-> "enhanced", count |-> 5,   size |-> 1, align |-> 1],
  [layout |-> "static",   count |-> 1,   size |-> 4, align |-> 4],
  [layout |-> "normal",   count |-> 250, size |-> 1, align |-> 1],
  [layout |-> "static",   count |-> 64,  size |-> 4, align |-> 4]}

MCNormalMeta   == [size |-> 8, align |-> 8]
MCEnhancedMeta == [size |-> 16, align |-> 16]

MCCallers     == {c1, c2, c3}
MCAllocations == {a1, a2, a3}
MCBytes       == a1 :> 1 @@ a2 :> 2 @@ a3 :> 3

SupportInit == Init /\ StatsInit /\ RingInit

BlocksAlone == StatsInit /\ RingInit /\ UNCHANGED <<statVars, ringVars>>
StatsAlone  == Init /\ RingInit /\ UNCHANGED <<vars, ringVars>>
RingAlone   == Init /\ StatsInit /\ UNCHANGED <<vars, statVars>>

\* Next, StatsNext and RingNext, one disjunct for each of their actions.
SupportNext ==
  \/ \E t \in Threads :
       \/ (\E q \in Requests : Allocate(t, q)) /\ BlocksAlone
       \/ ReserveFails(t) /\ BlocksAlone
       \/ Reserve(t) /\ BlocksAlone
       \/ ReserveAgain(t) /\ BlocksAlone
       \/ CommitQuery(t) /\ BlocksAlone
       \/ CommitEnds(t) /\ BlocksAlone
       \/ Commit(t) /\ BlocksAlone
       \/ Place(t) /\ BlocksAlone
       \/ Fill(t) /\ BlocksAlone
  \/ (\E b \in blocks : Stray(b)) /\ BlocksAlone
  \/ \E c \in Callers :
       \/ (\E a \in Allocations : InitTotals(c, a)) /\ StatsAlone
       \/ InitBytes(c) /\ StatsAlone
       \/ InitLoadPeak(c) /\ StatsAlone
       \/ InitBelowPeak(c) /\ StatsAlone
       \/ InitRaise(c) /\ StatsAlone
       \/ InitRaiseAgain(c) /\ StatsAlone
       \/ (\E a \in Allocations : DestroyTotals(c, a)) /\ StatsAlone
       \/ DestroyBytes(c) /\ StatsAlone
  \/ (\E e \in Entries : PushViolation(e)) /\ RingAlone
  \/ PopNothing /\ RingAlone
  \/ PopViolation /\ RingAlone

SupportSpec == SupportInit /\ [][SupportNext]_<<vars, statVars, ringVars>>
=============================================================================
