--------------------------- MODULE ReleaseAccounting ---------------------------
(***************************************************************************)
(* What the release protocol promises Home: for each group of accounted    *)
(* executions, Home frees slots only for executions that have ended, never  *)
(* takes a release back, and in the end frees one for each.                *)
(***************************************************************************)
EXTENDS Integers

CONSTANT Groups

VARIABLES
  ended,  \* executions that have ended, per group
  freed   \* slots Home has freed, per group

Init ==
  /\ ended = [g \in Groups |-> 0]
  /\ freed = [g \in Groups |-> 0]

End(g) ==
  /\ ended' = [ended EXCEPT ![g] = @ + 1]
  /\ UNCHANGED freed

\* Releases are cumulative: one message may free several slots.
Free(g) ==
  /\ \E n \in (freed[g] + 1)..ended[g] : freed' = [freed EXCEPT ![g] = n]
  /\ UNCHANGED ended

Next == \E g \in Groups : End(g) \/ Free(g)

Spec == Init /\ [][Next]_<<ended, freed>>
=============================================================================
