----------------------------- MODULE StepBarrier -----------------------------
(***************************************************************************)
(* What the two exchanges of a shared block are promised by                *)
(* `shard::Exchange::barrier`: "every rank has reached this point, so what *)
(* they wrote may be read and what they read may be written again".  A     *)
(* rank enters its k-th barrier, and leaves it only once every rank has    *)
(* entered a k-th barrier.  Nothing is said of how the ranks tell each     *)
(* other.                                                                  *)
(***************************************************************************)
EXTENDS Naturals

CONSTANTS Ranks,    \* the ranks of one shared-out run
          Rounds    \* how many barriers a run takes

VARIABLES entered,  \* entered[r]: barriers rank r has entered
          left      \* left[r]: barriers rank r has left

vars == <<entered, left>>

Init ==
    /\ entered = [r \in Ranks |-> 0]
    /\ left = [r \in Ranks |-> 0]

Enter(r) ==
    /\ entered[r] = left[r]
    /\ entered[r] < Rounds
    /\ entered' = [entered EXCEPT ![r] = @ + 1]
    /\ UNCHANGED left

Leave(r) ==
    /\ left[r] < entered[r]
    /\ \A q \in Ranks : entered[q] >= entered[r]
    /\ left' = [left EXCEPT ![r] = entered[r]]
    /\ UNCHANGED entered

Next == \E r \in Ranks : Enter(r) \/ Leave(r)

Spec == Init /\ [][Next]_vars
===============================================================================
