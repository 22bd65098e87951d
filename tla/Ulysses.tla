------------------------------- MODULE Ulysses -------------------------------
(***************************************************************************)
(* What a block of a shared-out step promises (crates/mmh3-core/src/       *)
(* shard.rs, crates/mmh3-cuda/src/shard.rs): "each block exchanges twice:  *)
(* once to turn my tokens, every head into every token, my heads, and once *)
(* to turn the result back".  A rank attends its heads over every rank's   *)
(* rows of that block, and its output takes every rank's attention of that *)
(* block.  Nothing is said of memory, streams, sockets or barriers.        *)
(***************************************************************************)
EXTENDS Naturals

CONSTANTS Ranks,   \* the ranks of one shared-out run
          Blocks   \* how many blocks it goes through

VARIABLES rows,      \* rows[r]: the last block whose input rows r has made
          attended,  \* attended[r]: the last block r's heads have attended
          output     \* output[r]: the last block r has the whole attention of

vars == <<rows, attended, output>>

Init ==
    /\ rows = [r \in Ranks |-> 0]
    /\ attended = [r \in Ranks |-> 0]
    /\ output = [r \in Ranks |-> 0]

(* A block starts from the output of the one before it. *)
MakeRows(r) ==
    /\ rows[r] = output[r]
    /\ rows[r] < Blocks
    /\ rows' = [rows EXCEPT ![r] = @ + 1]
    /\ UNCHANGED <<attended, output>>

(* Every token, my heads. *)
Attend(r) ==
    /\ attended[r] < rows[r]
    /\ \A q \in Ranks : rows[q] = rows[r]
    /\ attended' = [attended EXCEPT ![r] = rows[r]]
    /\ UNCHANGED <<rows, output>>

(* My tokens, every head. *)
TakeOutput(r) ==
    /\ output[r] < attended[r]
    /\ \A q \in Ranks : attended[q] = attended[r]
    /\ output' = [output EXCEPT ![r] = attended[r]]
    /\ UNCHANGED <<rows, attended>>

Next == \E r \in Ranks : MakeRows(r) \/ Attend(r) \/ TakeOutput(r)

Spec == Init /\ [][Next]_vars
===============================================================================
