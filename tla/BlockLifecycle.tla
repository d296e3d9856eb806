--------------------------- MODULE BlockLifecycle ---------------------------
(***************************************************************************)
(* What an AllocationRegistry promises about one block base: the base is   *)
(* tracked by at most one allocation at a time, that allocation walks      *)
(* Live <-> Retiring -> Quarantine -> gone, and every new allocation at    *)
(* the same base carries the next generation.  Each operation is one       *)
(* atomic step; a refused operation is a stuttering step.                  *)
(***************************************************************************)
EXTENDS Naturals

CONSTANT Bases            \* block addresses

VARIABLES status,         \* status[b]: the tracked allocation at b, if any
          lastGen         \* lastGen[b]: generation of the newest allocation at b

lifecycleVars == <<status, lastGen>>

Init ==
  /\ status  = [b \in Bases |-> "Absent"]
  /\ lastGen = [b \in Bases |-> 0]

\* AllocationRegistry::insert that returns true.
Insert(b) ==
  /\ status[b] = "Absent"
  /\ status'  = [status EXCEPT ![b] = "Live"]
  /\ lastGen' = [lastGen EXCEPT ![b] = @ + 1]

Move(b, from, to) ==
  /\ status[b] = from
  /\ status' = [status EXCEPT ![b] = to]
  /\ UNCHANGED lastGen

\* beginRetiring that returns a node, the two outcomes of endRetiring, retire.
BeginRetiring(b) == Move(b, "Live", "Retiring")
KeepLive(b)      == Move(b, "Retiring", "Live")
Quarantine(b)    == Move(b, "Retiring", "Quarantine")
Retire(b)        == Move(b, "Quarantine", "Absent")

Next == \E b \in Bases :
  \/ Insert(b)
  \/ BeginRetiring(b)
  \/ KeepLive(b)
  \/ Quarantine(b)
  \/ Retire(b)

Spec == Init /\ [][Next]_lifecycleVars
=============================================================================
