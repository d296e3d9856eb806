----------------------------- MODULE BoundedStack -----------------------------
(***************************************************************************)
(* What README.md:144 promises of the violations of a thread: last in,     *)
(* first out, and a burst of more than Capacity of them evicts the oldest  *)
(* one that was not popped.                                                *)
(***************************************************************************)
EXTENDS Integers, Sequences

CONSTANTS Entries, Capacity, NoEntry

VARIABLES
  stack,          \* the entries, the oldest one first
  out             \* what the last pop has returned, NoEntry if nothing

Init == stack = <<>> /\ out = NoEntry

Push(e) ==
  /\ stack' = IF Len(stack) < Capacity THEN Append(stack, e)
              ELSE Append(Tail(stack), e)
  /\ UNCHANGED out

Pop ==
  IF stack = <<>> THEN out' = NoEntry /\ UNCHANGED stack
  ELSE /\ out' = stack[Len(stack)]
       /\ stack' = SubSeq(stack, 1, Len(stack) - 1)

Next == Pop \/ \E e \in Entries : Push(e)

Spec == Init /\ [][Next]_<<stack, out>>
=============================================================================
