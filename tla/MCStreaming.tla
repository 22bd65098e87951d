------------------------------ MODULE MCStreaming ------------------------------
(***************************************************************************)
(* Small instances of the streamed weights of both backends.  A behaviour  *)
(* is of one of them; nothing happens of the other.                        *)
(*                                                                         *)
(* On CUDA the first unit is the DiT's refiner, which a call skips when it *)
(* has refined this text before and which may be too large for the         *)
(* regions, sized for the blocks after it.  On Metal three units take      *)
(* turns in two regions, and of batches of two kernels one runs while the  *)
(* next is encoded.                                                        *)
(***************************************************************************)
EXTENDS Streaming, MetalStreaming

Blocks2 == {<<0, 1, 2>>, <<1, 2>>}

\* The refiner goes first, then the blocks as `give_up_order` spreads them.
RefinerFirst == <<0, 1, 2>>

MCBuffers == 1 .. 4

MCInit == (Init /\ MetalStarts("off")) \/ (Starts("off") /\ MetalInit)

MCNext ==
    \/ Settle /\ UNCHANGED metalVars
    \/ SettleAnswer /\ UNCHANGED metalVars
    \/ Settled /\ UNCHANGED metalVars
    \/ Begin /\ UNCHANGED metalVars
    \/ Ask /\ UNCHANGED metalVars
    \/ EnterAnswer /\ UNCHANGED metalVars
    \/ Launch /\ UNCHANGED metalVars
    \/ Leave /\ UNCHANGED metalVars
    \/ End /\ UNCHANGED metalVars
    \/ Drop /\ UNCHANGED metalVars
    \/ Return /\ UNCHANGED metalVars
    \/ LetGo /\ UNCHANGED metalVars
    \/ ReadOneMore /\ UNCHANGED metalVars
    \/ Take /\ UNCHANGED metalVars
    \/ Load /\ UNCHANGED metalVars
    \/ LoadFails /\ UNCHANGED metalVars
    \/ Kernel /\ UNCHANGED metalVars
    \/ Copy /\ UNCHANGED metalVars
    \/ MetalBegin /\ UNCHANGED vars
    \/ LetGoFirst /\ UNCHANGED vars
    \/ MetalSettle /\ UNCHANGED vars
    \/ OpenPass /\ UNCHANGED vars
    \/ MetalRequest /\ UNCHANGED vars
    \/ Enter /\ UNCHANGED vars
    \/ Answer /\ UNCHANGED vars
    \/ Starve /\ UNCHANGED vars
    \/ WaitForRegion /\ UNCHANGED vars
    \/ OutOfMemory /\ UNCHANGED vars
    \/ Encode /\ UNCHANGED vars
    \/ MetalLeave /\ UNCHANGED vars
    \/ ReadBack /\ UNCHANGED vars
    \/ TakeBack /\ UNCHANGED vars
    \/ Close /\ UNCHANGED vars
    \/ Wait /\ UNCHANGED vars
    \/ Patch /\ UNCHANGED vars
    \/ MakeWay /\ UNCHANGED vars
    \/ BlockFails /\ UNCHANGED vars
    \/ Read /\ UNCHANGED vars
    \/ MetalRun /\ UNCHANGED vars
    \/ MetalLetGo /\ UNCHANGED vars

MCSpec == MCInit /\ [][MCNext]_<<vars, metalVars>> /\ Fairness /\ MetalFairness

\* A call on either backend ends, with its output or without, whatever fails: the host and the
\* reader, and on CUDA the card's two streams, do not wait for each other.
EveryCallEnds == (pc # "idle" /\ host.at # "idle") ~> (pc = "idle" \/ host.at = "idle")
===============================================================================
